--------------------------- MODULE LedgerContract ---------------------------
(***************************************************************************)
(* What the ledger promises, whoever posts to it: entries are only ever    *)
(* added, one at a time; an added entry balances in both currencies, uses  *)
(* an idempotency key no other entry has, takes the next number of its     *)
(* series, and, when it reverses an entry, mirrors it.                     *)
(***************************************************************************)
EXTENDS Integers, Sequences

CONSTANTS
    NoKey,          \* the key of an entry that answers to no client key
    SeriesOf(_),    \* the number series of an entry
    Balanced(_),    \* whether journal lines balance
    Mirror(_)       \* the lines that take the given lines back

VARIABLE ledger

NumbersUsed(s) == {ledger[i].number : i \in {j \in DOMAIN ledger : SeriesOf(ledger[j]) = s}}

FreshKey(e) == e.key # NoKey => \A i \in DOMAIN ledger : ledger[i].key # e.key

NextNumber(e) ==
    /\ e.number \in Nat \ {0}
    /\ e.number \notin NumbersUsed(SeriesOf(e))
    /\ \A n \in 1 .. (e.number - 1) : n \in NumbersUsed(SeriesOf(e))

MirrorsItsOriginal(e) ==
    e.reversalOf # 0 => /\ e.reversalOf \in DOMAIN ledger
                        /\ e.docType = ledger[e.reversalOf].docType
                        /\ e.lines = Mirror(ledger[e.reversalOf].lines)

Acceptable(e) ==
    /\ Balanced(e.lines)
    /\ FreshKey(e)
    /\ NextNumber(e)
    /\ MirrorsItsOriginal(e)

Init == ledger = << >>

Post ==
    /\ Len(ledger') = Len(ledger) + 1
    /\ LET e == ledger'[Len(ledger')]
       IN ledger' = Append(ledger, e) /\ Acceptable(e)

Spec == Init /\ [][Post]_ledger
=============================================================================
