---------------------------- MODULE MCInventory ----------------------------
(***************************************************************************)
(* Small instances of Inventory.  Quantities are counted in halves and     *)
(* costs chosen so that neither values nor averages divide evenly;         *)
(* documents lock two rows crosswise or one row twice.                     *)
(***************************************************************************)
EXTENDS Inventory

CONSTANTS r1, r2, w1, w2, ka, kb, kc, kd, ke, kx, ky

In(r, q, c) == [row |-> r, quantity |-> q, cost |-> c]
Out(r, q) == [row |-> r, quantity |-> q]
Receipt(k, lines) == [type |-> "goods_receipt", year |-> 2026, key |-> k, lines |-> lines]
Issue(k, lines) == [type |-> "stock_issue", year |-> 2026, key |-> k, lines |-> lines]

TwoWorkers == {w1, w2}

\* Goods of r1 always cost the same and each half has a value of its own, so
\* counting them loses nothing; those of r2 come at changing costs.  Rows are
\* locked crosswise and one twice.
MixedDocuments == {Receipt(ka, <<In(r1, 2, 2), In(r2, 2, 5), In(r2, 1, 4)>>),
                   Receipt(kb, <<In(r2, 2, 4), In(r1, 1, 2)>>),
                   Issue(kc, <<Out(r1, 1), Out(r2, 1)>>),
                   Issue(kd, <<Out(r2, 5)>>), Receipt(ke, <<In(r2, 1, 0)>>),
                   Receipt(ke, <<In(r1, 0, 2)>>)}
Sheet(r, n, c) == [row |-> r, counted |-> n, costIfNone |-> c]
Count(lines) == [year |-> 2026, lines |-> lines]
SteadySheets == {Count(<<Sheet(r1, 1, 2)>>), Count(<<Sheet(r1, 3, 2), Sheet(r1, 0, -1)>>)}

NoSheets == {}

\* The first goods receipt of this year and of the next.
TwoYears == {Receipt(ka, <<In(r1, 1, 2)>>), [Receipt(kb, <<In(r1, 1, 2)>>) EXCEPT !.year = 2027]}
=============================================================================
