------------------------------ MODULE OpenItems ------------------------------
(***************************************************************************)
(* What an open-item account promises: items are opened with what they are *)
(* worth, later changed by notes that name them, and settled in parts.     *)
(* However many requests settle at the same time, each takes at most what  *)
(* was open, and what is open is what the item is worth less what was      *)
(* settled.                                                                *)
(***************************************************************************)
EXTENDS Integers

VARIABLES
    worth,      \* of every item, what it was opened for, plus and less its notes
    settled     \* of every item, what was settled so far

items == <<worth, settled>>

Open(i) == worth[i] - settled[i]

Init == worth = [i \in {} |-> 0] /\ settled = worth

OpenItem ==
    \E i \in DOMAIN worth' \ DOMAIN worth :
      /\ DOMAIN worth' = DOMAIN worth \cup {i} /\ DOMAIN settled' = DOMAIN worth'
      /\ worth'[i] > 0 /\ settled'[i] = 0
      /\ \A j \in DOMAIN worth : worth'[j] = worth[j] /\ settled'[j] = settled[j]

ChangeItem ==
    /\ settled' = settled
    /\ \E i \in DOMAIN worth :
         /\ worth'[i] >= 0
         /\ worth' = [worth EXCEPT ![i] = worth'[i]]

Settle ==
    /\ worth' = worth
    /\ DOMAIN settled' = DOMAIN settled
    /\ \A i \in DOMAIN settled :
         settled'[i] = settled[i] \/ settled'[i] - settled[i] \in 1 .. Open(i)

Spec == Init /\ [][OpenItem \/ ChangeItem \/ Settle]_items
=============================================================================
