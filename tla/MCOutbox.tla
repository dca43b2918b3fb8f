------------------------------ MODULE MCOutbox ------------------------------
(***************************************************************************)
(* A small instance of Outbox: three messages, two of them malformed, two  *)
(* worker processes that may die twice, batches of two rows, two attempts  *)
(* and one stall.                                                          *)
(***************************************************************************)
EXTENDS Outbox

CONSTANTS p1, p2
=============================================================================
