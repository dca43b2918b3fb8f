---------------------------- MODULE MCReceivables ----------------------------
(***************************************************************************)
(* Small instances of Receivables: two customers, an order of two lines, a *)
(* quotation that could become an order twice,                             *)
(* and documents that compete for one invoice, one order line and one      *)
(* stock row.                                                              *)
(***************************************************************************)
EXTENDS Receivables, TLC

CONSTANTS ann, bob, order, made, again, quote, la, lb, lc, ld, w1, w2, k1, k2, k3, k4, k5, k6, k7

MCCustomerOf == [o \in Orders |-> ann]
MCQuotedTo == [q \in Quotations |-> ann]
MCMadeFrom == [o \in Orders |-> IF o = order THEN NoQuotation ELSE quote]
MCOrderOf == [l \in OrderLines |->
                CASE l \in {la, lb} -> order [] l = lc -> made [] l = ld -> again]
MCOrdered == [l \in OrderLines |-> IF l = la THEN 2 ELSE 1]
MCStock == [quantity |-> 3, value |-> 10]

Invoice(k, c, n, claims, goods) ==
    [type |-> "sales_invoice", key |-> k, day |-> 1, customer |-> c, amount |-> n,
     claims |-> claims, goods |-> goods]
Note(type, k, n) == [type |-> type, key |-> k, day |-> 1, amount |-> n]
Receipt(k, c, n, shares) ==
    [type |-> "customer_receipt", key |-> k, day |-> 1, customer |-> c, amount |-> n,
     shares |-> shares]

\* Everything that can meet on one invoice, order line or stock row.
MixedRequests ==
    {Invoice(k1, ann, 3, (la :> 1) @@ (lb :> 1), 1), Invoice(k2, ann, 2, la :> 1, 2),
     Invoice(k3, bob, 2, NoLines, 2),
     Note("sales_credit_note", k4, 2), Note("sales_credit_note", k7, 1),
     Note("sales_debit_note", k6, 1), Receipt(k6, ann, 3, {2, 3}), Receipt(k7, bob, 2, {1, 2})}

\* A receipt that is sent again after its answer was lost.
ReplayRequests == {Invoice(k1, ann, 3, NoLines, 0), Receipt(k2, ann, 2, {1})}

TwoWorkers == {w1, w2}
SymmetricWorkers == Permutations(Workers)
=============================================================================
