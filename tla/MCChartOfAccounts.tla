-------------------------- MODULE MCChartOfAccounts --------------------------
(***************************************************************************)
(* A small instance of ChartOfAccounts: a group with a group below it and  *)
(* cash in that, sales at the top, an account to create; one editor beside  *)
(* one posting at a time.                                                  *)
(***************************************************************************)
EXTENDS ChartOfAccounts, TLC

CONSTANTS assets, current, cash, stock, sales, e1, p1

MCAccounts == {assets, current, cash, stock, sales}
MCTypeOf == [a \in MCAccounts |-> IF a = sales THEN "REVENUE" ELSE "ASSET"]
MCSectionOf == [a \in MCAccounts |-> CASE a = cash -> "cash" [] a = sales -> "none"
                                       [] OTHER -> "current_assets"]
MCTemplate ==
    (assets :> [parent |-> None, postable |-> FALSE]) @@
    (current :> [parent |-> assets, postable |-> FALSE]) @@
    (cash :> [parent |-> current, postable |-> TRUE]) @@
    (sales :> [parent |-> None, postable |-> TRUE])
MCGroupTypeOf == ("advances_parent" :> "ASSET")

On(op, a) == [op |-> op, account |-> a]
Create(a, p, post) == [op |-> "create", account |-> a, parent |-> p, postable |-> post]
Move(a, p) == [op |-> "move", account |-> a, parent |-> p]
Stop(a, ack) == [op |-> "stop", account |-> a, acknowledged |-> ack]
MapTo(k, a) == [op |-> "map", key |-> k, account |-> a]

MCRequests ==
    {Create(stock, current, TRUE), On("delete", stock), On("delete", current),
     On("make_group", stock), On("make_group", cash),
     Move(assets, current), Move(cash, assets), Move(current, None),
     Stop(cash, FALSE), Stop(current, TRUE), On("restart", cash),
     MapTo("inventory", stock), MapTo("inventory", cash), MapTo("advances_parent", current)}

Post(dr, cr, d, n) == [debit |-> dr, credit |-> cr, date |-> d, amount |-> n]
MCPostings == {Post(cash, sales, 2, 1), Post("inventory", cash, 1, 2)}

OneEditor == {e1}
OnePoster == {p1}
=============================================================================
