---------------------------- MODULE MCPurchasing ----------------------------
(***************************************************************************)
(* Small instances of Purchasing: an order of two lines made from a        *)
(* purchase request and above the approval threshold, one of one line, and *)
(* documents that meet on their lines and on the stock row.  Quantities    *)
(* are halves: a piece of la is worth one and a half and rounded to two,   *)
(* two pieces are worth three; pieces of lb are worth nothing.             *)
(***************************************************************************)
EXTENDS Purchasing, TLC

CONSTANTS o1, o2, la, lb, lc, r1, w1, w2, k1, k2, k3, k4, k5, k6, n1, n2

MCOrderOf == [l \in Lines |-> IF l = lc THEN o2 ELSE o1]
MCOrdered == [l \in Lines |-> IF l = la THEN 2 ELSE 1]
MCPrice == [l \in Lines |-> CASE l = la -> 3 [] l = lb -> 0 [] l = lc -> 2]
MCStock == [quantity |-> 1, value |-> 5]

Move(type, k, o, qty) == [type |-> type, key |-> k, order |-> o, qty |-> qty]
Invoice(k, number, qty, price, expense, accepted) ==
    [type |-> "supplier_invoice", key |-> k, number |-> number, qty |-> qty, price |-> price,
     expense |-> expense, accepted |-> accepted]
Note(k, n) == [type |-> "supplier_debit_note", key |-> k, amount |-> n]
Payment(k, n, share) == [type |-> "supplier_payment", key |-> k, amount |-> n, share |-> share]

\* Everything that can meet on the lines of an order.
MixedSubmissions ==
    {Move("goods_receipt", k1, o1, (la :> 1) @@ (lb :> 1)), Move("goods_receipt", k2, o1, la :> 1),
     Move("goods_return", k3, o1, la :> 1), Move("goods_return", k4, o1, (la :> 1) @@ (lb :> 1)),
     Invoice(k5, n1, la :> 2, la :> 5, 0, TRUE),
     Invoice(k6, n2, la :> 1, la :> 4, 1, FALSE), Note(k6, 2),
     Move("goods_receipt", k2, o1, lb :> 1), Move("goods_receipt", k2, o2, lc :> 1),
     Invoice(k6, n1, (la :> 1) @@ (lc :> 1), (la :> 3) @@ (lc :> 1), 0, TRUE),
     Payment(k1, 3, 3), Payment(k4, 4, 2)}

TwoWorkers == {w1, w2}
SymmetricWorkers == Permutations(Workers)
=============================================================================
