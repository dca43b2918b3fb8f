----------------------------- MODULE ChartProofs -----------------------------
(***************************************************************************)
(* Theorems of ChartOfAccounts, for any chart, any requests and any number *)
(* of editors and postings at once: whatever is referred to exists, and    *)
(* the statements agree.  With one editor at a time, mappings stay usable  *)
(* and every posted amount reaches the total of one top-level account.     *)
(* The run checks all four on one editor and one posting.                  *)
(*                                                                         *)
(* Why used accounts are never deleted: the lines of a posting that has    *)
(* not committed are invisible to usageOf, but hold their account's row,   *)
(* so a deletion that has locked the row sees no such posting, and none    *)
(* can begin (HeldRows).                                                   *)
(*                                                                         *)
(* Why the statements agree: an entry is a debit and a credit of one       *)
(* amount, so all accounts together are worth nothing, and every account   *)
(* has one type and one section.                                           *)
(*                                                                         *)
(* Why totals reach the top: in every set of accounts there is one whose   *)
(* parent is outside (Forest), and a move is checked against the accounts  *)
(* above its new parent, which nobody else changes meanwhile (TreeInv).    *)
(***************************************************************************)
EXTENDS ChartOfAccounts, SumTheorems, SequenceTheorems

Entry == [debit : Accounts, credit : Accounts, date : Dates, amount : Nat \ {0}]
EditorTxn == [pc : {"write", "lock", "delete"}, request : Requests]
PosterTxn == [pc : {"insert", "commit"}, debit : Accounts, credit : Accounts,
              date : Dates, amount : Nat \ {0}]

(* What requests and postings on their way look like.                      *)
TxnInv ==
    /\ DOMAIN txn = Editors \cup Posters
    /\ \A w \in Editors : txn[w] \in {Idle} \cup EditorTxn
    /\ \A w \in Posters : txn[w] \in {Idle} \cup PosterTxn

(* The accounts of a posting that is about to commit exist, and nobody has
   locked one of them to delete it.                                        *)
HeldRows ==
    \A w \in Posters : At(w, "commit") =>
        /\ {txn[w].debit, txn[w].credit} \subseteq DOMAIN chart
        /\ \A v \in Editors : At(v, "delete") =>
             txn[v].request.account \notin {txn[w].debit, txn[w].credit}

IInv == TypeOK /\ entries \in Seq(Entry) /\ TxnInv /\ HeldRows

(* What a step of an editor or of a posting does to all of them.           *)
LEMMA SetTxn ==
    ASSUME TxnInv, NEW w \in Editors \cup Posters, NEW t, Set(w, t),
           w \in Editors => t \in {Idle} \cup EditorTxn,
           w \in Posters => t \in {Idle} \cup PosterTxn
    PROVE  /\ TxnInv' /\ txn'[w] = t
           /\ \A v \in Editors \cup Posters : v # w => txn'[v] = txn[v]
  <1>1. txn' = [txn EXCEPT ![w] = t] /\ DOMAIN txn = Editors \cup Posters
    BY DEF Set, TxnInv
  <1>2. DOMAIN txn' = Editors \cup Posters
    BY <1>1
  <1>3. txn'[w] = t /\ \A v \in Editors \cup Posters : v # w => txn'[v] = txn[v]
    BY <1>1
  <1>4. QED
    BY <1>2, <1>3 DEF TxnInv

(* An appended entry leaves the others as they are.                        *)
LEMMA EntriesGrow ==
    ASSUME entries \in Seq(Entry), NEW x \in Entry, entries' = Append(entries, x)
    PROVE  /\ entries' \in Seq(Entry)
           /\ \A e \in DOMAIN entries' : \/ e \in DOMAIN entries /\ entries'[e] = entries[e]
                                         \/ entries'[e] = x
  <1>1. /\ entries' \in Seq(Entry) /\ Len(entries') = Len(entries) + 1
        /\ \A e \in 1 .. Len(entries) : entries'[e] = entries[e]
        /\ entries'[Len(entries) + 1] = x /\ Len(entries) \in Nat
    BY AppendProperties
  <1>2. DOMAIN entries' = 1 .. Len(entries) + 1 /\ DOMAIN entries = 1 .. Len(entries)
    BY <1>1
  <1>3. QED
    BY <1>1, <1>2

(* The first chart: nothing is posted or mapped yet.                       *)
LEMMA Initially == Init => IInv
  <1>1. SUFFICES ASSUME Init PROVE IInv
    OBVIOUS
  <1>2. entries = << >> /\ entries \in Seq(Entry) /\ DOMAIN entries = {}
    BY <1>1 DEF Init
  <1>3. DOMAIN chart = DOMAIN Template /\ \A a \in DOMAIN chart :
          chart[a] = [parent |-> Template[a].parent, active |-> TRUE, postable |-> Template[a].postable]
    BY <1>1 DEF Init
  <1>4. TypeOK
    <2>1. mapping \in [MappingKeys -> DOMAIN chart \cup {None}]
      BY <1>1 DEF Init
    <2>2. ASSUME NEW a \in DOMAIN chart
          PROVE  /\ chart[a].parent \in DOMAIN chart \cup {None}
                 /\ chart[a].postable \in BOOLEAN /\ chart[a].active \in BOOLEAN
      <3>1. chart[a].parent = Template[a].parent
        BY <1>3
      <3>2. chart[a].postable = Template[a].postable
        BY <1>3
      <3>3. chart[a].active = TRUE
        BY <1>3
      <3>4. QED
        BY <1>3, <3>1, <3>2, <3>3, ChartAssumption
    <2>3. QED
      BY <1>2, <1>3, <2>1, <2>2, ChartAssumption DEF TypeOK
  <1>5. TxnInv /\ HeldRows
    BY <1>1 DEF Init, TxnInv, HeldRows, At
  <1>6. QED
    BY <1>2, <1>4, <1>5 DEF IInv

-----------------------------------------------------------------------------
(* Requests on the chart *)

(* A request that begins, or is given up, holds no row.                    *)
LEMMA EditorKeepsIInv ==
    ASSUME IInv, NEW w \in Editors, NEW t \in {Idle} \cup EditorTxn, Set(w, t),
           t # Idle => t.pc # "delete", UNCHANGED <<entries, chart, mapping>>
    PROVE  IInv'
  <1>1. w \notin Posters
    BY ChartAssumption
  <1>2. /\ TxnInv' /\ txn'[w] = t
        /\ \A v \in Editors \cup Posters : v # w => txn'[v] = txn[v]
    BY <1>1, SetTxn DEF IInv
  <1>3. TypeOK' /\ entries' \in Seq(Entry)
    BY DEF IInv, TypeOK
  <1>4. HeldRows'
    <2>1. \A p \in Posters : txn'[p] = txn[p]
      BY <1>1, <1>2
    <2>2. \A v \in Editors : At(v, "delete")' => v # w /\ txn'[v] = txn[v]
      BY <1>2 DEF At
    <2>3. QED
      BY <2>1, <2>2 DEF IInv, HeldRows, At
  <1>5. QED
    BY <1>2, <1>3, <1>4 DEF IInv

(* A request that begins keeps the invariant: one to delete first locks
   the chart.                                                            *)
LEMMA SubmitKeepsIInv ==
    ASSUME IInv, NEW w \in Editors, NEW r \in Requests, Submit(w, r)
    PROVE  IInv'
  <1>1. PICK t \in {[pc |-> "lock", request |-> r], [pc |-> "write", request |-> r]} : Set(w, t)
    BY DEF Submit
  <1>2. t \in EditorTxn /\ t.pc # "delete"
    BY <1>1 DEF EditorTxn
  <1>3. UNCHANGED <<entries, chart, mapping>>
    BY DEF Submit
  <1>4. QED
    BY <1>1, <1>2, <1>3, EditorKeepsIInv

(* A request that is refused keeps the invariant.                        *)
LEMMA FailKeepsIInv ==
    ASSUME IInv, NEW w \in Editors, Fail(w)
    PROVE  IInv'
  BY EditorKeepsIInv DEF Fail

(* The one statement refers to what exists; it adds accounts, never takes
   one away.                                                               *)
LEMMA WriteKeepsIInv ==
    ASSUME IInv, NEW w \in Editors, Write(w)
    PROVE  IInv'
  <1> DEFINE r == txn[w].request
             a == r.account
             row == IF r.op = "create"
                    THEN [parent |-> r.parent, postable |-> r.postable, active |-> TRUE]
                    ELSE chart[a]
             refersTo == IF r.op \in {"create", "move"} THEN {r.parent} \ {None}
                         ELSE IF r.op = "map" THEN {a} ELSE {}
             written == [parent |-> IF r.op = "move" THEN r.parent ELSE row.parent,
                         postable |-> row.postable /\ r.op # "make_group",
                         active |-> r.op = "restart" \/ (row.active /\ r.op # "stop")]
  <1>1. CASE Fail(w)
    BY <1>1, FailKeepsIInv
  <1>2. CASE /\ refersTo \subseteq DOMAIN chart
             /\ r.op = "create" <=> ~Exists(a)
             /\ chart' = [b \in DOMAIN chart \cup {a} |-> IF b = a THEN written ELSE chart[b]]
             /\ mapping' = IF r.op = "map" THEN [mapping EXCEPT ![r.key] = a] ELSE mapping
             /\ Set(w, Idle)
             /\ UNCHANGED entries
    <2>1. r \in Requests /\ a \in Accounts /\ w \notin Posters
      BY ChartAssumption DEF IInv, TxnInv, EditorTxn, Write, At
    <2>2. /\ TxnInv' /\ txn'[w] = Idle
          /\ \A v \in Editors \cup Posters : v # w => txn'[v] = txn[v]
      BY <1>2, <2>1, SetTxn DEF IInv
    <2>3. /\ DOMAIN chart' = DOMAIN chart \cup {a} /\ chart'[a] = written
          /\ \A b \in DOMAIN chart : b # a => chart'[b] = chart[b]
      BY <1>2
    <2>4. /\ written.parent \in DOMAIN chart \cup {None}
          /\ written.postable \in BOOLEAN /\ written.active \in BOOLEAN
      <3>1. written.parent \in DOMAIN chart \cup {None}
        BY <1>2 DEF IInv, TypeOK, Exists
      <3>2. written.postable \in BOOLEAN
        OBVIOUS
      <3>3. written.active \in BOOLEAN
        OBVIOUS
      <3>4. QED
        BY <3>1, <3>2, <3>3
    <2> HIDE DEF written
    <2>5. mapping' \in [MappingKeys -> DOMAIN chart' \cup {None}]
      <3>1. mapping \in [MappingKeys -> DOMAIN chart \cup {None}]
        BY DEF IInv, TypeOK
      <3>2. r.op = "map" => r.key \in MappingKeys
        BY <2>1, ChartAssumption
      <3>3. QED
        BY <1>2, <2>3, <3>1, <3>2
    <2>6. TypeOK'
      BY <1>2, <2>1, <2>3, <2>4, <2>5 DEF IInv, TypeOK
    <2>7. HeldRows'
      <3>1. \A p \in Posters : txn'[p] = txn[p]
        BY <2>1, <2>2
      <3>2. \A v \in Editors : At(v, "delete")' => v # w /\ txn'[v] = txn[v]
        BY <2>2 DEF At
      <3>3. QED
        BY <2>3, <3>1, <3>2 DEF IInv, HeldRows, At
    <2>8. QED
      BY <1>2, <2>2, <2>6, <2>7 DEF IInv
  <1>3. QED
    BY <1>1, <1>2 DEF Write

(* Nobody is inserting lines of an account that is locked.                 *)
LEMMA LockKeepsIInv ==
    ASSUME IInv, NEW w \in Editors, LockAccount(w)
    PROVE  IInv'
  <1>1. CASE Fail(w)
    BY <1>1, FailKeepsIInv
  <1>2. CASE Inserting(txn[w].request.account) = {} /\ Proceed(w, "delete")
    <2> DEFINE t == [txn[w] EXCEPT !.pc = "delete"]
    <2>1. txn[w] \in EditorTxn /\ w \notin Posters
      BY ChartAssumption DEF LockAccount, At, IInv, TxnInv
    <2>2. t \in EditorTxn /\ t.request = txn[w].request
      BY <2>1 DEF EditorTxn
    <2>3. Set(w, t) /\ UNCHANGED <<entries, chart, mapping>>
      BY <1>2 DEF Proceed
    <2> HIDE DEF t
    <2>4. /\ TxnInv' /\ txn'[w] = t
          /\ \A v \in Editors \cup Posters : v # w => txn'[v] = txn[v]
      BY <2>1, <2>2, <2>3, SetTxn DEF IInv
    <2>5. TypeOK' /\ entries' \in Seq(Entry)
      BY <2>3 DEF IInv, TypeOK
    <2>6. ASSUME NEW p \in Posters, At(p, "commit")'
          PROVE  /\ {txn'[p].debit, txn'[p].credit} \subseteq DOMAIN chart'
                 /\ \A v \in Editors : At(v, "delete")' =>
                      txn'[v].request.account \notin {txn'[p].debit, txn'[p].credit}
      <3>1. txn'[p] = txn[p] /\ At(p, "commit")
        BY <2>1, <2>4, <2>6 DEF At
      <3>2. txn'[w].request.account \notin {txn'[p].debit, txn'[p].credit}
        BY <1>2, <2>2, <2>4, <3>1 DEF Inserting
      <3>3. \A v \in Editors : v # w /\ At(v, "delete")' => At(v, "delete") /\ txn'[v] = txn[v]
        BY <2>4 DEF At
      <3>4. QED
        BY <2>3, <3>1, <3>2, <3>3 DEF IInv, HeldRows
    <2>7. QED
      BY <2>4, <2>5, <2>6 DEF IInv, HeldRows
  <1>3. QED
    BY <1>1, <1>2 DEF LockAccount

(* What is deleted is used by no entry, no mapping, no account below it,
   and by no posting about to commit.                                      *)
LEMMA DeleteKeepsIInv ==
    ASSUME IInv, NEW w \in Editors, DeleteAccount(w)
    PROVE  IInv'
  <1> DEFINE a == txn[w].request.account
  <1>1. CASE Fail(w)
    BY <1>1, FailKeepsIInv
  <1>2. CASE /\ UsageOf(a) = {}
             /\ chart' = [b \in DOMAIN chart \ {a} |-> chart[b]]
             /\ Set(w, Idle)
             /\ UNCHANGED <<entries, mapping>>
    <2>1. w \notin Posters /\ At(w, "delete")
      BY ChartAssumption DEF DeleteAccount
    <2>2. /\ TxnInv' /\ txn'[w] = Idle
          /\ \A v \in Editors \cup Posters : v # w => txn'[v] = txn[v]
      BY <1>2, <2>1, SetTxn DEF IInv
    <2>3. DOMAIN chart' = DOMAIN chart \ {a} /\ \A b \in DOMAIN chart' : chart'[b] = chart[b]
      BY <1>2
    <2>4. /\ \A e \in DOMAIN entries : a \notin {entries[e].debit, entries[e].credit}
          /\ \A k \in MappingKeys : mapping[k] # a
          /\ \A b \in DOMAIN chart : chart[b].parent # a
      BY <1>2 DEF UsageOf, Children
    <2>5. mapping' \in [MappingKeys -> DOMAIN chart' \cup {None}]
      BY <1>2, <2>3, <2>4 DEF IInv, TypeOK
    <2>6. TypeOK'
      BY <1>2, <2>3, <2>4, <2>5 DEF IInv, TypeOK
    <2>7. HeldRows'
      <3>1. \A p \in Posters : txn'[p] = txn[p]
        BY <2>1, <2>2
      <3>2. \A v \in Editors : At(v, "delete")' => v # w /\ txn'[v] = txn[v]
        BY <2>2 DEF At
      <3>3. \A p \in Posters : At(p, "commit") => a \notin {txn[p].debit, txn[p].credit}
        BY <2>1 DEF IInv, HeldRows
      <3>4. QED
        BY <2>3, <3>1, <3>2, <3>3 DEF IInv, HeldRows, At
    <2>8. QED
      BY <1>2, <2>2, <2>6, <2>7 DEF IInv
  <1>3. QED
    BY <1>1, <1>2 DEF DeleteAccount

-----------------------------------------------------------------------------
(* Postings *)

(* A posting that begins, inserts its lines while nobody deletes their
   accounts, or ends.                                                      *)
LEMMA PosterKeepsIInv ==
    ASSUME IInv, NEW w \in Posters, NEW t \in {Idle} \cup PosterTxn, Set(w, t),
           UNCHANGED <<chart, mapping>>, TypeOK', entries' \in Seq(Entry),
           t # Idle /\ t.pc = "commit" =>
             /\ {t.debit, t.credit} \subseteq DOMAIN chart
             /\ \A x \in {t.debit, t.credit} : Deleting(x) = {}
    PROVE  IInv'
  <1>1. w \notin Editors
    BY ChartAssumption
  <1>2. /\ TxnInv' /\ txn'[w] = t
        /\ \A v \in Editors \cup Posters : v # w => txn'[v] = txn[v]
    BY <1>1, SetTxn DEF IInv
  <1>3. \A v \in Editors : txn'[v] = txn[v]
    BY <1>1, <1>2
  <1>4. ASSUME NEW p \in Posters, At(p, "commit")'
        PROVE  /\ {txn'[p].debit, txn'[p].credit} \subseteq DOMAIN chart'
               /\ \A v \in Editors : At(v, "delete")' =>
                    txn'[v].request.account \notin {txn'[p].debit, txn'[p].credit}
    <2>1. CASE p = w
      BY <1>2, <1>3, <1>4, <2>1 DEF At, Deleting
    <2>2. CASE p # w
      BY <1>2, <1>3, <1>4, <2>2 DEF IInv, HeldRows, At
    <2>3. QED
      BY <2>1, <2>2
  <1>5. QED
    BY <1>2, <1>4 DEF IInv, HeldRows

(* A posting resolves its accounts when it begins.                       *)
LEMMA SubmitPostingKeepsIInv ==
    ASSUME IInv, NEW w \in Posters, NEW p \in Postings, SubmitPosting(w, p)
    PROVE  IInv'
  <1> DEFINE t == [pc |-> "insert", debit |-> Resolve(p.debit), credit |-> Resolve(p.credit),
                   date |-> p.date, amount |-> p.amount]
  <1>1. Set(w, t) /\ UNCHANGED <<entries, chart, mapping>>
    BY DEF SubmitPosting
  <1>2. {Resolve(p.debit), Resolve(p.credit)} \subseteq Accounts
    BY DEF SubmitPosting, TakesPostings, Exists, IInv, TypeOK
  <1>3. t \in PosterTxn /\ t.pc = "insert"
    BY <1>2, ChartAssumption DEF PosterTxn
  <1> HIDE DEF t
  <1>4. TypeOK' /\ entries' \in Seq(Entry)
    BY <1>1 DEF IInv, TypeOK
  <1>5. QED
    BY <1>1, <1>3, <1>4, PosterKeepsIInv

(* A posting that fails keeps the invariant.                             *)
LEMMA EndPostingKeepsIInv ==
    ASSUME IInv, NEW w \in Posters, Fail(w)
    PROVE  IInv'
  <1>1. TypeOK' /\ entries' \in Seq(Entry)
    BY DEF IInv, TypeOK, Fail
  <1>2. QED
    BY <1>1, PosterKeepsIInv DEF Fail

(* The foreign keys hold the accounts an open entry refers to.           *)
LEMMA InsertKeepsIInv ==
    ASSUME IInv, NEW w \in Posters, InsertLines(w)
    PROVE  IInv'
  <1> DEFINE t == [txn[w] EXCEPT !.pc = "commit"]
  <1>1. CASE Fail(w)
    BY <1>1, EndPostingKeepsIInv
  <1>2. CASE /\ {txn[w].debit, txn[w].credit} \subseteq DOMAIN chart
             /\ \A x \in {txn[w].debit, txn[w].credit} : Deleting(x) = {}
             /\ Proceed(w, "commit")
    <2>1. txn[w] \in PosterTxn
      BY DEF InsertLines, At, IInv, TxnInv
    <2>2. t \in PosterTxn /\ t.debit = txn[w].debit /\ t.credit = txn[w].credit
      BY <2>1 DEF PosterTxn
    <2>3. Set(w, t) /\ UNCHANGED <<entries, chart, mapping>>
      BY <1>2 DEF Proceed
    <2> HIDE DEF t
    <2>4. TypeOK' /\ entries' \in Seq(Entry)
      BY <2>3 DEF IInv, TypeOK
    <2>5. QED
      BY <1>2, <2>2, <2>3, <2>4, PosterKeepsIInv
  <1>3. QED
    BY <1>1, <1>2 DEF InsertLines

(* The accounts of the new entry are held, so they exist.                  *)
LEMMA CommitKeepsIInv ==
    ASSUME IInv, NEW w \in Posters, CommitEntry(w)
    PROVE  IInv'
  <1> DEFINE x == [debit |-> txn[w].debit, credit |-> txn[w].credit,
                   date |-> txn[w].date, amount |-> txn[w].amount]
  <1>1. txn[w] \in PosterTxn /\ {txn[w].debit, txn[w].credit} \subseteq DOMAIN chart
    BY DEF CommitEntry, At, IInv, TxnInv, HeldRows
  <1>2. x \in Entry /\ {x.debit, x.credit} \subseteq DOMAIN chart
    BY <1>1 DEF PosterTxn, Entry
  <1>3. entries' = Append(entries, x) /\ Set(w, Idle) /\ UNCHANGED <<chart, mapping>>
    BY DEF CommitEntry
  <1> HIDE DEF x
  <1>4. /\ entries' \in Seq(Entry)
        /\ \A e \in DOMAIN entries' : \/ e \in DOMAIN entries /\ entries'[e] = entries[e]
                                      \/ entries'[e] = x
    BY <1>2, <1>3, EntriesGrow DEF IInv
  <1>5. TypeOK'
    BY <1>2, <1>3, <1>4 DEF IInv, TypeOK
  <1>6. QED
    BY <1>3, <1>4, <1>5, PosterKeepsIInv

-----------------------------------------------------------------------------
(* Theorems *)

LEMMA NextKeepsIInv == IInv /\ [Next]_vars => IInv'
  <1>1. ASSUME IInv, NEW w \in Editors, NEW r \in Requests, Submit(w, r) PROVE IInv'
    BY <1>1, SubmitKeepsIInv
  <1>2. ASSUME IInv, NEW w \in Editors, Write(w) \/ LockAccount(w) \/ DeleteAccount(w) PROVE IInv'
    BY <1>2, WriteKeepsIInv, LockKeepsIInv, DeleteKeepsIInv
  <1>3. ASSUME IInv, NEW w \in Posters, NEW p \in Postings, SubmitPosting(w, p) PROVE IInv'
    BY <1>3, SubmitPostingKeepsIInv
  <1>4. ASSUME IInv, NEW w \in Posters, InsertLines(w) \/ CommitEntry(w) PROVE IInv'
    BY <1>4, InsertKeepsIInv, CommitKeepsIInv
  <1>5. ASSUME IInv, NEW w \in Editors \cup Posters, Rollback(w) PROVE IInv'
    BY <1>5, FailKeepsIInv, EndPostingKeepsIInv DEF Rollback
  <1>6. ASSUME IInv, UNCHANGED vars PROVE IInv'
    BY <1>6 DEF vars, IInv, TypeOK, TxnInv, HeldRows, At
  <1>7. QED
    BY <1>1, <1>2, <1>3, <1>4, <1>5, <1>6 DEF Next

(* The invariant holds in every state.                                   *)
LEMMA Invariance == Spec => []IInv
  BY Initially, NextKeepsIInv, PTL DEF Spec

(* Whatever an entry, a mapping or an account refers to exists, whoever
   posts, maps, moves and deletes at the same time (delete, usageOf).      *)
THEOREM NothingUsedIsDeleted == Spec => []TypeOK
  <1>1. IInv => TypeOK
    BY DEF IInv
  <1>2. QED
    BY <1>1, Invariance, PTL

-----------------------------------------------------------------------------
(* One editor at a time *)

Alone == \A v, w \in Editors : v = w

(* A mapping is usable, and stays so under the request that was checked and
   is about to be written.                                                 *)
MappedInv ==
    /\ MappingsStayUsable
    /\ \A w \in Editors : At(w, "write") =>
         /\ txn[w].request.op = "map" =>
              MayMap(txn[w].request.key, txn[w].request.account)
         /\ txn[w].request.op = "make_group" =>
              \A k \in MappingKeys : mapping[k] # txn[w].request.account

(* What is not about to be written again keeps the mappings as they are.   *)
LEMMA UnchangedKeepsMapped ==
    ASSUME MappedInv, UNCHANGED <<chart, mapping>>,
           \A w \in Editors : At(w, "write")' => txn'[w] = txn[w]
    PROVE  MappedInv'
  <1>1. MappingsStayUsable'
    BY DEF MappedInv, MappingsStayUsable
  <1>2. ASSUME NEW w \in Editors, At(w, "write")'
        PROVE  /\ txn'[w].request.op = "map" =>
                    MayMap(txn[w].request.key, txn[w].request.account)'
               /\ txn'[w].request.op = "make_group" =>
                    \A k \in MappingKeys : mapping'[k] # txn'[w].request.account
    BY <1>2 DEF MappedInv, At, MayMap
  <1>3. QED
    BY <1>1, <1>2 DEF MappedInv

(* A request that begins was checked against the mappings.               *)
LEMMA SubmitKeepsMapped ==
    ASSUME IInv, MappedInv, NEW w \in Editors, NEW r \in Requests, Submit(w, r)
    PROVE  MappedInv'
  <1>1. PICK t \in {[pc |-> "lock", request |-> r], [pc |-> "write", request |-> r]} : Set(w, t)
    BY DEF Submit
  <1>2. t.pc = "write" => Allowed(r)
    <2>1. CASE r.op = "delete" /\ Set(w, [pc |-> "lock", request |-> r])
      <3>1. t = [pc |-> "lock", request |-> r]
        BY <1>1, <2>1 DEF Set, IInv, TxnInv
      <3>2. QED
        BY <3>1
    <2>2. CASE Allowed(r)
      BY <2>2
    <2>3. QED
      BY <2>1, <2>2 DEF Submit
  <1>3. w \notin Posters /\ t \in EditorTxn /\ t.request = r
    BY <1>1, ChartAssumption DEF EditorTxn
  <1>4. txn'[w] = t /\ \A v \in Editors : v # w => txn'[v] = txn[v]
    BY <1>1, <1>3, SetTxn DEF IInv
  <1>5. UNCHANGED <<entries, chart, mapping>>
    BY DEF Submit
  <1>6. MappingsStayUsable'
    BY <1>5 DEF MappedInv, MappingsStayUsable
  <1>7. Allowed(r) =>
          /\ r.op = "map" => MayMap(r.key, r.account)
          /\ r.op = "make_group" => \A k \in MappingKeys : mapping[k] # r.account
    <2>1. r.op = "map" /\ Allowed(r) => MayMap(r.key, r.account)
      BY DEF Allowed
    <2>2. r.op = "make_group" /\ Allowed(r) => UsageOf(r.account) \subseteq {"children"}
      BY DEF Allowed
    <2>3. ASSUME UsageOf(r.account) \subseteq {"children"}, NEW k \in MappingKeys,
                 mapping[k] = r.account
          PROVE  FALSE
      <3>1. "mappings" \in UsageOf(r.account)
        BY <2>3 DEF UsageOf
      <3>2. QED
        BY <2>3, <3>1
    <2>4. QED
      BY <2>1, <2>2, <2>3
  <1>8. ASSUME NEW v \in Editors, At(v, "write")'
        PROVE  /\ txn'[v].request.op = "map" =>
                    MayMap(txn[v].request.key, txn[v].request.account)'
               /\ txn'[v].request.op = "make_group" =>
                    \A k \in MappingKeys : mapping'[k] # txn'[v].request.account
    <2>1. CASE v = w
      BY <1>2, <1>3, <1>4, <1>5, <1>7, <1>8, <2>1 DEF At, MayMap
    <2>2. CASE v # w
      BY <1>4, <1>5, <1>8, <2>2 DEF MappedInv, At, MayMap
    <2>3. QED
      BY <2>1, <2>2
  <1>9. QED
    BY <1>6, <1>8 DEF MappedInv

(* Nobody else has changed the chart or the mappings since the request was
   checked.                                                                *)
LEMMA WriteKeepsMapped ==
    ASSUME Alone, IInv, MappedInv, NEW w \in Editors, Write(w)
    PROVE  MappedInv'
  <1> DEFINE r == txn[w].request
             a == r.account
  <1>1. w \notin Posters /\ r \in Requests /\ At(w, "write")
    BY ChartAssumption DEF IInv, TxnInv, EditorTxn, Write, At
  <1>2. Set(w, Idle)
    BY DEF Write, Fail
  <1>3. \A v \in Editors : ~At(v, "write")'
    <2>1. txn'[w] = Idle
      BY <1>1, <1>2, SetTxn DEF IInv
    <2>2. QED
      BY <2>1 DEF Alone, At
  <1>4. CASE Fail(w)
    BY <1>3, <1>4, UnchangedKeepsMapped DEF Fail
  <1>5. CASE r.op = "create" <=> ~Exists(a)
    <2> SUFFICES ASSUME ~Fail(w) PROVE MappedInv'
      BY <1>4
    <2>1. \A b \in DOMAIN chart : b # a \/ r.op \notin {"create", "make_group"} =>
            b \in DOMAIN chart' /\ chart'[b].postable = chart[b].postable
      <3> DEFINE row == IF r.op = "create"
                        THEN [parent |-> r.parent, postable |-> r.postable, active |-> TRUE]
                        ELSE chart[a]
                 written == [parent |-> IF r.op = "move" THEN r.parent ELSE row.parent,
                             postable |-> row.postable /\ r.op # "make_group",
                             active |-> r.op = "restart" \/ (row.active /\ r.op # "stop")]
      <3>1. chart' = [b \in DOMAIN chart \cup {a} |-> IF b = a THEN written ELSE chart[b]]
        BY DEF Write
      <3>2. r.op \notin {"create", "make_group"} /\ a \in DOMAIN chart =>
              chart'[a].postable = (chart[a].postable /\ r.op # "make_group")
        BY <3>1
      <3> HIDE DEF written
      <3>3. a \in DOMAIN chart => chart[a].postable \in BOOLEAN
        BY DEF IInv, TypeOK
      <3>4. r.op \notin {"create", "make_group"} /\ a \in DOMAIN chart =>
              chart'[a].postable = chart[a].postable
        BY <3>2, <3>3
      <3>5. \A b \in DOMAIN chart : b \in DOMAIN chart' /\ (b # a => chart'[b] = chart[b])
        BY <3>1
      <3>6. QED
        BY <3>4, <3>5
    <2>2. mapping' = IF r.op = "map" THEN [mapping EXCEPT ![r.key] = a] ELSE mapping
      BY DEF Write
    <2>3. r.op = "map" => r.key \in MappingKeys /\ a \in DOMAIN chart
      BY <1>1, <1>5, ChartAssumption DEF Exists
    <2>4. mapping \in [MappingKeys -> DOMAIN chart \cup {None}]
      BY DEF IInv, TypeOK
    <2>5. ASSUME NEW k \in MappingKeys, mapping'[k] # None
          PROVE  k \in DOMAIN GroupTypeOf <=> ~chart'[mapping'[k]].postable
      <3>1. CASE r.op = "map" /\ k = r.key
        <4>1. mapping'[k] = a /\ chart'[a].postable = chart[a].postable
          BY <2>1, <2>2, <2>3, <2>4, <3>1
        <4>2. MayMap(k, a)
          BY <1>1, <3>1 DEF MappedInv
        <4>3. QED
          BY <4>1, <4>2 DEF MayMap
      <3>2. CASE ~(r.op = "map" /\ k = r.key)
        <4>1. mapping'[k] = mapping[k] /\ mapping[k] \in DOMAIN chart
          BY <2>2, <2>4, <2>5, <3>2
        <4>2. mapping[k] # a \/ r.op \notin {"create", "make_group"}
          BY <1>1, <1>5, <4>1 DEF MappedInv, Exists
        <4>3. chart'[mapping[k]].postable = chart[mapping[k]].postable
          BY <2>1, <4>1, <4>2
        <4>4. QED
          BY <2>5, <4>1, <4>3 DEF MappedInv, MappingsStayUsable
      <3>3. QED
        BY <3>1, <3>2
    <2>6. QED
      BY <1>3, <2>5 DEF MappedInv, MappingsStayUsable
  <1>6. QED
    BY <1>4, <1>5 DEF Write

(* A mapped account is not deleted.                                        *)
LEMMA DeleteKeepsMapped ==
    ASSUME Alone, IInv, MappedInv, NEW w \in Editors, DeleteAccount(w)
    PROVE  MappedInv'
  <1> DEFINE a == txn[w].request.account
  <1>1. w \notin Posters
    BY ChartAssumption
  <1>2. Set(w, Idle)
    BY DEF DeleteAccount, Fail
  <1>3. \A v \in Editors : ~At(v, "write")'
    <2>1. txn'[w] = Idle
      BY <1>1, <1>2, SetTxn DEF IInv
    <2>2. QED
      BY <2>1 DEF Alone, At
  <1>4. CASE Fail(w)
    BY <1>3, <1>4, UnchangedKeepsMapped DEF Fail
  <1>5. CASE /\ UsageOf(a) = {}
             /\ chart' = [b \in DOMAIN chart \ {a} |-> chart[b]]
             /\ UNCHANGED mapping
    <2>1. \A k \in MappingKeys : mapping[k] # a
      BY <1>5 DEF UsageOf
    <2>2. \A k \in MappingKeys : mapping[k] # None =>
            mapping[k] \in DOMAIN chart \ {a} /\ chart'[mapping[k]] = chart[mapping[k]]
      BY <1>5, <2>1 DEF IInv, TypeOK
    <2>3. MappingsStayUsable'
      BY <1>5, <2>2 DEF MappedInv, MappingsStayUsable
    <2>4. QED
      BY <1>3, <2>3 DEF MappedInv
  <1>6. QED
    BY <1>4, <1>5 DEF DeleteAccount

(* Every step keeps every mapping on an account that exists, as long as
   one editor works.                                                     *)
LEMMA NextKeepsMapped ==
    ASSUME Alone, IInv, MappedInv, [Next]_vars
    PROVE  MappedInv'
  <1>1. ASSUME NEW w \in Editors, NEW r \in Requests, Submit(w, r) PROVE MappedInv'
    BY <1>1, SubmitKeepsMapped
  <1>2. ASSUME NEW w \in Editors, Write(w) \/ DeleteAccount(w) PROVE MappedInv'
    BY <1>2, WriteKeepsMapped, DeleteKeepsMapped
  <1>3. ASSUME NEW w \in Editors \cup Posters, NEW t, Set(w, t),
               t # Idle => t.pc # "write", UNCHANGED <<chart, mapping>>
        PROVE  MappedInv'
    <2>1. DOMAIN txn = Editors \cup Posters /\ txn' = [txn EXCEPT ![w] = t]
      BY <1>3 DEF IInv, TxnInv, Set
    <2>2. \A v \in Editors : At(v, "write")' => txn'[v] = txn[v]
      BY <1>3, <2>1 DEF At
    <2>3. QED
      BY <1>3, <2>2, UnchangedKeepsMapped
  <1>4. ASSUME NEW w \in Editors \cup Posters, Fail(w) PROVE MappedInv'
    BY <1>3, <1>4 DEF Fail
  <1>5. ASSUME NEW w \in Editors, LockAccount(w) PROVE MappedInv'
    <2>1. CASE Proceed(w, "delete")
      <3>1. txn[w] \in EditorTxn
        BY <1>5 DEF LockAccount, At, IInv, TxnInv
      <3>2. [txn[w] EXCEPT !.pc = "delete"].pc = "delete"
        BY <3>1 DEF EditorTxn
      <3>3. QED
        BY <1>3, <2>1, <3>2 DEF Proceed
    <2>2. QED
      BY <1>4, <1>5, <2>1 DEF LockAccount
  <1>6. ASSUME NEW w \in Posters, NEW p \in Postings, SubmitPosting(w, p) PROVE MappedInv'
    BY <1>3, <1>6 DEF SubmitPosting
  <1>7. ASSUME NEW w \in Posters, InsertLines(w) \/ CommitEntry(w) PROVE MappedInv'
    <2>1. CASE Proceed(w, "commit") /\ At(w, "insert")
      <3>1. txn[w] \in PosterTxn
        BY <2>1 DEF At, IInv, TxnInv
      <3>2. [txn[w] EXCEPT !.pc = "commit"].pc = "commit"
        BY <3>1 DEF PosterTxn
      <3>3. QED
        BY <1>3, <2>1, <3>2 DEF Proceed
    <2>2. CASE CommitEntry(w)
      BY <1>3, <2>2 DEF CommitEntry
    <2>3. QED
      BY <1>4, <1>7, <2>1, <2>2 DEF InsertLines
  <1>8. CASE UNCHANGED vars
    BY <1>8, UnchangedKeepsMapped DEF vars
  <1>9. QED
    BY <1>1, <1>2, <1>4, <1>5, <1>6, <1>7, <1>8 DEF Next, Rollback

(* With one editor at a time, automatic postings find an account that takes
   postings and group keys a group, whatever is made a group, mapped or
   deleted (makeGroup, set, delete).                                       *)
THEOREM MappingsUsable ==
    ASSUME Alone
    PROVE  Spec => []MappingsStayUsable
  <1>1. Init => MappedInv
    BY DEF Init, MappedInv, MappingsStayUsable, At
  <1>2. IInv /\ MappedInv /\ [Next]_vars => MappedInv'
    BY NextKeepsMapped
  <1>3. MappedInv => MappingsStayUsable
    BY DEF MappedInv
  <1>4. QED
    BY <1>1, <1>2, <1>3, Invariance, PTL DEF Spec

-----------------------------------------------------------------------------
(* Sums over the accounts and over the lines *)

On(g, S) == SumFunction([a \in S |-> g[a]])

(* The sum over some of the accounts, ...                                  *)
LEMMA OnType ==
    ASSUME NEW g \in [Accounts -> Int], NEW S \in SUBSET Accounts
    PROVE  On(g, S) \in Int
  <1>1. IsFiniteSet(S)
    BY ReportsAssumption, FS_Subset
  <1>2. PICK f : f = [a \in S |-> g[a]]
    OBVIOUS
  <1>3. f \in [S -> Int]
    BY <1>2
  <1>4. SumFunction(f) \in Int
    BY <1>1, <1>3, SumInt
  <1>5. QED
    BY <1>2, <1>4 DEF On

(* ... and over those of two kinds.                                        *)
LEMMA OnBoth ==
    ASSUME NEW g \in [Accounts -> Int], NEW S \in SUBSET Accounts, NEW T \in SUBSET Accounts,
           S \cap T = {}
    PROVE  On(g, S \cup T) = On(g, S) + On(g, T)
  <1>1. IsFiniteSet(S) /\ IsFiniteSet(T)
    BY ReportsAssumption, FS_Subset
  <1>2. PICK e, f, h : /\ e = [a \in S |-> g[a]] /\ f = [a \in T |-> g[a]]
                       /\ h = [a \in S \cup T |-> g[a]]
    OBVIOUS
  <1>3. /\ e \in [S -> Int] /\ f \in [T -> Int] /\ h \in [S \cup T -> Int]
        /\ (\A x \in S : h[x] = e[x]) /\ (\A x \in T : h[x] = f[x])
    BY <1>2
  <1>4. SumFunction(h) = SumFunction(e) + SumFunction(f)
    <2>1. Joins(S, T, e, f, h)
      BY <1>1, <1>3 DEF Joins
    <2>2. QED
      BY <2>1, SumUnion
  <1>5. QED
    BY <1>2, <1>4 DEF On

Posted(D) == {e \in DOMAIN entries : entries[e].date \in D}
OnDebit(a, D) == {e \in DOMAIN entries : entries[e].debit = a /\ entries[e].date \in D}
OnCredit(a, D) == {e \in DOMAIN entries : entries[e].credit = a /\ entries[e].date \in D}

(* What is posted.                                                         *)
LEMMA EntryFields ==
    ASSUME entries \in Seq(Entry)
    PROVE  /\ IsFiniteSet(DOMAIN entries)
           /\ DOMAIN entries \subseteq Nat
           /\ \A e \in DOMAIN entries :
                /\ entries[e].debit \in Accounts /\ entries[e].credit \in Accounts
                /\ entries[e].date \in Dates /\ Amount(e) \in Nat \ {0}
  <1>1. DOMAIN entries = 1 .. Len(entries) /\ Len(entries) \in Nat
    OBVIOUS
  <1>2. IsFiniteSet(DOMAIN entries)
    BY <1>1, FS_Interval
  <1>3. \A e \in DOMAIN entries : entries[e] \in Entry
    OBVIOUS
  <1>4. QED
    BY <1>1, <1>2, <1>3 DEF Entry, Amount

(* What is debited and credited to an account is a number.                 *)
LEMMA SidesType ==
    ASSUME entries \in Seq(Entry), NEW a, NEW D
    PROVE  Debits(a, D) \in Int /\ Credits(a, D) \in Int /\ Net(a, D) \in Int
  <1>1. PICK S, T : S = OnDebit(a, D) /\ T = OnCredit(a, D)
    OBVIOUS
  <1>2. PICK f, g : f = [e \in S |-> Amount(e)] /\ g = [e \in T |-> Amount(e)]
    OBVIOUS
  <1>3. S \subseteq DOMAIN entries /\ T \subseteq DOMAIN entries
    BY <1>1 DEF OnDebit, OnCredit
  <1>4. IsFiniteSet(S) /\ IsFiniteSet(T)
    BY <1>3, EntryFields, FS_Subset
  <1>5. f \in [S -> Int] /\ g \in [T -> Int]
    BY <1>2, <1>3, EntryFields
  <1>6. Debits(a, D) = SumFunction(f) /\ Credits(a, D) = SumFunction(g)
    BY <1>1, <1>2 DEF Debits, Credits, Total, OnDebit, OnCredit
  <1>7. Debits(a, D) \in Int /\ Credits(a, D) \in Int
    BY <1>4, <1>5, <1>6, SumInt
  <1>8. QED
    BY <1>7 DEF Net

(* Each entry is debited to one of the accounts and credited to one.       *)
LEMMA SidesTotal ==
    ASSUME entries \in Seq(Entry), NEW D, NEW T, IsFiniteSet(T),
           \A e \in DOMAIN entries : entries[e].debit \in T /\ entries[e].credit \in T
    PROVE  /\ SumFunction([a \in T |-> Debits(a, D)]) = SumFunction([e \in Posted(D) |-> Amount(e)])
           /\ SumFunction([a \in T |-> Credits(a, D)]) = SumFunction([e \in Posted(D) |-> Amount(e)])
  <1>1. PICK S : S = Posted(D)
    OBVIOUS
  <1>2. PICK f : f = [e \in S |-> Amount(e)]
    OBVIOUS
  <1>3. /\ IsFiniteSet(S) /\ f \in [S -> Int] /\ S \subseteq DOMAIN entries
        /\ \A e \in DOMAIN entries : e \in S <=> entries[e].date \in D
    <2>1. S \subseteq DOMAIN entries /\ \A e \in DOMAIN entries : e \in S <=> entries[e].date \in D
      BY <1>1 DEF Posted
    <2>2. IsFiniteSet(S)
      BY <2>1, EntryFields, FS_Subset
    <2>3. f \in [S -> Int]
      BY <1>2, <2>1, EntryFields
    <2>4. QED
      BY <2>1, <2>2, <2>3
  <1>4. SumFunction([a \in T |-> Debits(a, D)]) = SumFunction(f)
    <2>1. PICK key, part, g : /\ key = [e \in S |-> entries[e].debit]
                              /\ part = [a \in T |-> [e \in OnDebit(a, D) |-> Amount(e)]]
                              /\ g = [a \in T |-> Debits(a, D)]
      OBVIOUS
    <2>2. key \in [S -> T]
      BY <1>3, <2>1
    <2>3. g \in [T -> Int]
      BY <2>1, SidesType
    <2>4. ASSUME NEW a \in T
          PROVE  /\ part[a] \in [{e \in S : key[e] = a} -> Int]
                 /\ \A e \in S : key[e] = a => part[a][e] = f[e]
                 /\ g[a] = SumFunction(part[a])
      <3>1. OnDebit(a, D) = {e \in S : key[e] = a}
        BY <1>3, <2>1 DEF OnDebit
      <3>2. part[a] = [e \in OnDebit(a, D) |-> Amount(e)]
        BY <2>1
      <3>3. g[a] = SumFunction(part[a])
        BY <2>1, <3>2 DEF Debits, Total, OnDebit
      <3>4. \A e \in S : Amount(e) \in Int /\ f[e] = Amount(e)
        BY <1>2, <1>3, EntryFields
      <3>5. QED
        BY <3>1, <3>2, <3>3, <3>4
    <2>5. SumsOfParts(S, T, key, f, part, g)
      BY <1>3, <2>2, <2>3, <2>4 DEF SumsOfParts
    <2>6. SumFunction(g) = SumFunction(f)
      BY <2>5, SumGroups
    <2>7. QED
      BY <2>1, <2>6
  <1>5. SumFunction([a \in T |-> Credits(a, D)]) = SumFunction(f)
    <2>1. PICK key, part, g : /\ key = [e \in S |-> entries[e].credit]
                              /\ part = [a \in T |-> [e \in OnCredit(a, D) |-> Amount(e)]]
                              /\ g = [a \in T |-> Credits(a, D)]
      OBVIOUS
    <2>2. key \in [S -> T]
      BY <1>3, <2>1
    <2>3. g \in [T -> Int]
      BY <2>1, SidesType
    <2>4. ASSUME NEW a \in T
          PROVE  /\ part[a] \in [{e \in S : key[e] = a} -> Int]
                 /\ \A e \in S : key[e] = a => part[a][e] = f[e]
                 /\ g[a] = SumFunction(part[a])
      <3>1. OnCredit(a, D) = {e \in S : key[e] = a}
        BY <1>3, <2>1 DEF OnCredit
      <3>2. part[a] = [e \in OnCredit(a, D) |-> Amount(e)]
        BY <2>1
      <3>3. g[a] = SumFunction(part[a])
        BY <2>1, <3>2 DEF Credits, Total, OnCredit
      <3>4. \A e \in S : Amount(e) \in Int /\ f[e] = Amount(e)
        BY <1>2, <1>3, EntryFields
      <3>5. QED
        BY <3>1, <3>2, <3>3, <3>4
    <2>5. SumsOfParts(S, T, key, f, part, g)
      BY <1>3, <2>2, <2>3, <2>4 DEF SumsOfParts
    <2>6. SumFunction(g) = SumFunction(f)
      BY <2>5, SumGroups
    <2>7. QED
      BY <2>1, <2>6
  <1>6. QED
    BY <1>1, <1>2, <1>4, <1>5

(* All accounts together are worth nothing.                                *)
LEMMA NetZero ==
    ASSUME entries \in Seq(Entry), NEW D, NEW g \in [Accounts -> Int],
           \A a \in Accounts : g[a] = Net(a, D)
    PROVE  On(g, Accounts) = 0
  <1>1. PICK d, c : /\ d = [a \in Accounts |-> Debits(a, D)]
                    /\ c = [a \in Accounts |-> Credits(a, D)]
    OBVIOUS
  <1>2. IsFiniteSet(Accounts)
    BY ReportsAssumption
  <1>3. d \in [Accounts -> Int] /\ c \in [Accounts -> Int]
    BY <1>1, SidesType
  <1>4. SumFunction(d) = SumFunction(c)
    BY <1>1, <1>2, EntryFields, SidesTotal
  <1>5. \A a \in Accounts : d[a] = g[a] + c[a]
    <2>1. ASSUME NEW a \in Accounts PROVE d[a] = g[a] + c[a]
      <3>1. g[a] = Debits(a, D) - Credits(a, D)
        BY DEF Net
      <3>2. Debits(a, D) \in Int /\ Credits(a, D) \in Int
        BY SidesType
      <3>3. QED
        BY <1>1, <3>1, <3>2
    <2>2. QED
      BY <2>1
  <1>6. SumFunction(d) = SumFunction(g) + SumFunction(c)
    <2>1. Adds(Accounts, g, c, d)
      BY <1>2, <1>3, <1>5 DEF Adds
    <2>2. QED
      BY <2>1, SumAdds
  <1>7. SumFunction(g) \in Int /\ SumFunction(c) \in Int
    BY <1>2, <1>3, SumInt
  <1>8. SumFunction(g) = 0
    BY <1>4, <1>6, <1>7
  <1>9. [a \in Accounts |-> g[a]] = g
    OBVIOUS
  <1>10. QED
    BY <1>3, <1>8, <1>9 DEF On

(* What happened to an account on some days and on others.                 *)
LEMMA NetSplit ==
    ASSUME entries \in Seq(Entry), NEW a, NEW C, NEW D, NEW B, C \cap D = {}, B = C \cup D
    PROVE  Net(a, B) = Net(a, C) + Net(a, D)
  <1>1. PICK f, g, h : /\ f = [e \in OnDebit(a, C) |-> Amount(e)]
                       /\ g = [e \in OnDebit(a, D) |-> Amount(e)]
                       /\ h = [e \in OnDebit(a, B) |-> Amount(e)]
    OBVIOUS
  <1>2. PICK p, q, r : /\ p = [e \in OnCredit(a, C) |-> Amount(e)]
                       /\ q = [e \in OnCredit(a, D) |-> Amount(e)]
                       /\ r = [e \in OnCredit(a, B) |-> Amount(e)]
    OBVIOUS
  <1>3. \A e \in DOMAIN entries : Amount(e) \in Int
    BY EntryFields
  <1>4. Debits(a, B) = Debits(a, C) + Debits(a, D)
    <2>1. PICK S, T : S = OnDebit(a, C) /\ T = OnDebit(a, D)
      OBVIOUS
    <2>2. /\ S \subseteq DOMAIN entries /\ T \subseteq DOMAIN entries /\ S \cap T = {}
          /\ OnDebit(a, B) = S \cup T
      BY <2>1 DEF OnDebit
    <2>3. IsFiniteSet(S) /\ IsFiniteSet(T)
      BY <2>2, EntryFields, FS_Subset
    <2>4. Joins(S, T, f, g, h)
      BY <1>1, <1>3, <2>1, <2>2, <2>3 DEF Joins
    <2>5. SumFunction(h) = SumFunction(f) + SumFunction(g)
      BY <2>4, SumUnion
    <2>6. QED
      BY <1>1, <2>5 DEF Debits, Total, OnDebit
  <1>5. Credits(a, B) = Credits(a, C) + Credits(a, D)
    <2>1. PICK S, T : S = OnCredit(a, C) /\ T = OnCredit(a, D)
      OBVIOUS
    <2>2. /\ S \subseteq DOMAIN entries /\ T \subseteq DOMAIN entries /\ S \cap T = {}
          /\ OnCredit(a, B) = S \cup T
      BY <2>1 DEF OnCredit
    <2>3. IsFiniteSet(S) /\ IsFiniteSet(T)
      BY <2>2, EntryFields, FS_Subset
    <2>4. Joins(S, T, p, q, r)
      BY <1>2, <1>3, <2>1, <2>2, <2>3 DEF Joins
    <2>5. SumFunction(r) = SumFunction(p) + SumFunction(q)
      BY <2>4, SumUnion
    <2>6. QED
      BY <1>2, <2>5 DEF Credits, Total, OnCredit
  <1>6. /\ Debits(a, C) \in Int /\ Debits(a, D) \in Int
        /\ Credits(a, C) \in Int /\ Credits(a, D) \in Int
    BY SidesType
  <1>7. QED
    BY <1>4, <1>5, <1>6 DEF Net

(* The days of a period follow those before it.                            *)
LEMMA Calendar ==
    ASSUME NEW from \in Dates, NEW to \in Dates, from <= to
    PROVE  Before(from) \cap Within(from, to) = {} /\ UpTo(to) = Before(from) \cup Within(from, to)
  <1>1. Dates \subseteq Nat
    BY ReportsAssumption
  <1>2. \A d \in Dates : d < from => ~(from <= d) /\ d <= to
    BY <1>1
  <1>3. \A d \in Dates : d < from \/ from <= d
    BY <1>1
  <1>4. Before(from) \cap Within(from, to) = {}
    BY <1>2 DEF Before, Within
  <1>5. UpTo(to) = Before(from) \cup Within(from, to)
    BY <1>2, <1>3 DEF Before, Within, UpTo
  <1>6. QED
    BY <1>4, <1>5

-----------------------------------------------------------------------------
(* The statements *)

(* Numbers that add up to nothing balance.                                 *)
LEMMA SidesBalance ==
    ASSUME NEW g \in [Accounts -> Int], On(g, Accounts) = 0
    PROVE  SumFunction([a \in Accounts |-> OnDebitSide(g[a])])
             = SumFunction([a \in Accounts |-> OnDebitSide(-g[a])])
  <1>1. PICK d, c : /\ d = [a \in Accounts |-> OnDebitSide(g[a])]
                    /\ c = [a \in Accounts |-> OnDebitSide(-g[a])]
    OBVIOUS
  <1>2. \A n \in Int : /\ OnDebitSide(n) \in Int /\ OnDebitSide(-n) \in Int
                       /\ OnDebitSide(n) = n + OnDebitSide(-n)
    BY DEF OnDebitSide
  <1>3. IsFiniteSet(Accounts)
    BY ReportsAssumption
  <1>4. d \in [Accounts -> Int] /\ c \in [Accounts -> Int]
    BY <1>1, <1>2
  <1>5. \A a \in Accounts : d[a] = g[a] + c[a]
    BY <1>1, <1>2
  <1>6. SumFunction(d) = SumFunction(g) + SumFunction(c)
    <2>1. Adds(Accounts, g, c, d)
      BY <1>3, <1>4, <1>5 DEF Adds
    <2>2. QED
      BY <2>1, SumAdds
  <1>7. SumFunction(c) \in Int
    BY <1>3, <1>4, SumInt
  <1>8. SumFunction(g) = 0
    <2>1. [a \in Accounts |-> g[a]] = g
      OBVIOUS
    <2>2. QED
      BY <2>1 DEF On
  <1>9. QED
    BY <1>1, <1>6, <1>7, <1>8

(* The trial balance of a period balances.                                 *)
LEMMA TrialBalance ==
    ASSUME entries \in Seq(Entry), NEW from \in Dates, NEW to \in Dates, from <= to
    PROVE  TrialBalanceBalances(from, to)
  <1>1. PICK g, h, k : /\ g = [a \in Accounts |-> Net(a, Before(from))]
                       /\ h = [a \in Accounts |-> Net(a, UpTo(to))]
                       /\ k = [a \in Accounts |-> Closing(a, from, to)]
    OBVIOUS
  <1>2. /\ g \in [Accounts -> Int] /\ On(g, Accounts) = 0
        /\ h \in [Accounts -> Int] /\ On(h, Accounts) = 0
    <2>1. /\ g \in [Accounts -> Int] /\ h \in [Accounts -> Int]
          /\ \A a \in Accounts : g[a] = Net(a, Before(from)) /\ h[a] = Net(a, UpTo(to))
      BY <1>1, SidesType
    <2>2. QED
      BY <2>1, NetZero
  <1>3. h = k
    <2>1. \A a \in Accounts : Net(a, UpTo(to)) = Closing(a, from, to)
      BY Calendar, NetSplit DEF Closing
    <2>2. QED
      BY <1>1, <2>1
  <1>4. SumFunction([a \in Accounts |-> OnDebitSide(Net(a, Before(from)))])
          = SumFunction([a \in Accounts |-> OnDebitSide(-Net(a, Before(from)))])
    <2>1. SumFunction([a \in Accounts |-> OnDebitSide(g[a])])
            = SumFunction([a \in Accounts |-> OnDebitSide(-g[a])])
      BY <1>2, SidesBalance
    <2>2. \A a \in Accounts : g[a] = Net(a, Before(from))
      BY <1>1
    <2>3. QED
      BY <2>1, <2>2
  <1>5. SumFunction([a \in Accounts |-> OnDebitSide(Closing(a, from, to))])
          = SumFunction([a \in Accounts |-> OnDebitSide(-Closing(a, from, to))])
    <2>1. SumFunction([a \in Accounts |-> OnDebitSide(k[a])])
            = SumFunction([a \in Accounts |-> OnDebitSide(-k[a])])
      BY <1>2, <1>3, SidesBalance
    <2>2. \A a \in Accounts : k[a] = Closing(a, from, to)
      BY <1>1
    <2>3. QED
      BY <2>1, <2>2
  <1>6. SumFunction([a \in Accounts |-> Debits(a, Within(from, to))])
          = SumFunction([a \in Accounts |-> Credits(a, Within(from, to))])
    <2>1. IsFiniteSet(Accounts)
      BY ReportsAssumption
    <2>2. QED
      BY <2>1, EntryFields, SidesTotal
  <1>7. QED
    BY <1>4, <1>5, <1>6 DEF TrialBalanceBalances, Total

(* What the statements add up, in terms of one function.                   *)
LEMMA OnSide ==
    ASSUME NEW D, NEW S \in SUBSET Accounts, NEW g \in [Accounts -> Int],
           \A a \in Accounts : g[a] = Net(a, D)
    PROVE  /\ SumFunction([a \in S |-> Net(a, D)]) = On(g, S)
           /\ SumFunction([a \in S |-> -Net(a, D)]) = -On(g, S)
  <1>1. [a \in S |-> Net(a, D)] = [a \in S |-> g[a]]
    OBVIOUS
  <1>2. [a \in S |-> -Net(a, D)] = [a \in S |-> -g[a]]
    OBVIOUS
  <1>3. PICK e, f, h : /\ e = [a \in S |-> g[a]] /\ f = [a \in S |-> -g[a]]
                       /\ h = [a \in S |-> 0]
    OBVIOUS
  <1>4. IsFiniteSet(S)
    BY ReportsAssumption, FS_Subset
  <1>5. \A n \in Int : -n \in Int /\ 0 = n + (-n)
    OBVIOUS
  <1>6. e \in [S -> Int] /\ f \in [S -> Int] /\ h \in [S -> Int] /\ \A a \in S : h[a] = 0
    BY <1>3, <1>5
  <1>7. \A a \in S : h[a] = e[a] + f[a]
    BY <1>3, <1>5
  <1>8. SumFunction(h) = SumFunction(e) + SumFunction(f)
    <2>1. Adds(S, e, f, h)
      BY <1>4, <1>6, <1>7 DEF Adds
    <2>2. QED
      BY <2>1, SumAdds
  <1>9. SumFunction(h) = 0
    BY <1>4, <1>6, SumZero
  <1>10. SumFunction(e) \in Int /\ SumFunction(f) \in Int
    BY <1>4, <1>6, SumInt
  <1>11. SumFunction(f) = -SumFunction(e)
    BY <1>8, <1>9, <1>10
  <1>12. QED
    BY <1>1, <1>2, <1>3, <1>11 DEF On

Assets == OfType({"ASSET"})
Debts == OfType({"LIABILITY", "EQUITY"})
Revenue == OfType({"REVENUE"})
Expense == OfType({"EXPENSE"})

(* Every account is of one type.                                           *)
LEMMA ByType ==
    ASSUME NEW g \in [Accounts -> Int]
    PROVE  /\ On(g, Accounts) = On(g, Assets) + On(g, Debts) + On(g, Revenue) + On(g, Expense)
           /\ On(g, Assets) \in Int /\ On(g, Debts) \in Int
           /\ On(g, Revenue) \in Int /\ On(g, Expense) \in Int
  <1>1. \A a \in Accounts : TypeOf[a] \in AccountTypes
    BY ReportsAssumption
  <1>2. /\ Assets \in SUBSET Accounts /\ Debts \in SUBSET Accounts
        /\ Revenue \in SUBSET Accounts /\ Expense \in SUBSET Accounts
    BY DEF Assets, Debts, Revenue, Expense, OfType
  <1>3. Accounts = ((Assets \cup Debts) \cup Revenue) \cup Expense
    BY <1>1 DEF Assets, Debts, Revenue, Expense, OfType, AccountTypes
  <1>4. /\ Assets \cap Debts = {} /\ (Assets \cup Debts) \cap Revenue = {}
        /\ ((Assets \cup Debts) \cup Revenue) \cap Expense = {}
    BY DEF Assets, Debts, Revenue, Expense, OfType
  <1>5. On(g, Assets \cup Debts) = On(g, Assets) + On(g, Debts)
    BY <1>2, <1>4, OnBoth
  <1>6. On(g, (Assets \cup Debts) \cup Revenue) = On(g, Assets \cup Debts) + On(g, Revenue)
    BY <1>2, <1>4, OnBoth
  <1>7. On(g, ((Assets \cup Debts) \cup Revenue) \cup Expense)
          = On(g, (Assets \cup Debts) \cup Revenue) + On(g, Expense)
    <2>1. (Assets \cup Debts) \cup Revenue \in SUBSET Accounts
      BY <1>2
    <2>2. QED
      BY <1>2, <1>4, <2>1, OnBoth
  <1>8. /\ On(g, Assets) \in Int /\ On(g, Debts) \in Int
        /\ On(g, Revenue) \in Int /\ On(g, Expense) \in Int
    BY <1>2, OnType
  <1>9. QED
    BY <1>3, <1>5, <1>6, <1>7, <1>8

(* Net income is what revenue and expense accounts hold.                   *)
LEMMA Income ==
    ASSUME NEW D, NEW g \in [Accounts -> Int], \A a \in Accounts : g[a] = Net(a, D)
    PROVE  NetIncome(D) = (-On(g, Revenue)) - On(g, Expense)
  <1>1. Revenue \in SUBSET Accounts /\ Expense \in SUBSET Accounts
    BY DEF Revenue, Expense, OfType
  <1>2. /\ SumFunction([a \in Revenue |-> -Net(a, D)]) = -On(g, Revenue)
        /\ SumFunction([a \in Expense |-> Net(a, D)]) = On(g, Expense)
    BY <1>1, OnSide
  <1>3. NetIncome(D) = SumFunction([a \in Revenue |-> -Net(a, D)])
                         - SumFunction([a \in Expense |-> Net(a, D)])
    BY DEF NetIncome, Total, Revenue, Expense
  <1>4. QED
    BY <1>2, <1>3

(* The balance sheet balances.                                             *)
LEMMA BalanceSheet ==
    ASSUME entries \in Seq(Entry)
    PROVE  BalanceSheetBalances
  <1>1. PICK g : g = [a \in Accounts |-> Net(a, Dates)]
    OBVIOUS
  <1>2. g \in [Accounts -> Int] /\ \A a \in Accounts : g[a] = Net(a, Dates)
    BY <1>1, SidesType
  <1>3. On(g, Accounts) = 0
    BY <1>2, NetZero
  <1>4. Assets \in SUBSET Accounts /\ Debts \in SUBSET Accounts
    BY DEF Assets, Debts, OfType
  <1>5. /\ SumFunction([a \in Assets |-> Net(a, Dates)]) = On(g, Assets)
        /\ SumFunction([a \in Debts |-> -Net(a, Dates)]) = -On(g, Debts)
    BY <1>2, <1>4, OnSide
  <1>6. NetIncome(Dates) = (-On(g, Revenue)) - On(g, Expense)
    BY <1>2, Income
  <1>7. On(g, Assets) = (-On(g, Debts)) + ((-On(g, Revenue)) - On(g, Expense))
    <2>1. /\ 0 = On(g, Assets) + On(g, Debts) + On(g, Revenue) + On(g, Expense)
          /\ On(g, Assets) \in Int /\ On(g, Debts) \in Int
          /\ On(g, Revenue) \in Int /\ On(g, Expense) \in Int
      BY <1>2, <1>3, ByType
    <2>2. PICK a, b, c, d : /\ a = On(g, Assets) /\ b = On(g, Debts)
                            /\ c = On(g, Revenue) /\ d = On(g, Expense)
      OBVIOUS
    <2>3. a \in Int /\ b \in Int /\ c \in Int /\ d \in Int /\ 0 = a + b + c + d
      BY <2>1, <2>2
    <2>4. a = (-b) + ((-c) - d)
      BY <2>3
    <2>5. QED
      BY <2>2, <2>4
  <1>8. SumFunction([a \in Assets |-> Net(a, Dates)])
          = SumFunction([a \in Debts |-> -Net(a, Dates)]) + NetIncome(Dates)
    BY <1>5, <1>6, <1>7
  <1>9. QED
    BY <1>8 DEF BalanceSheetBalances, Total, Assets, Debts

(* The sections of the cash-flow statement divide assets and debts.        *)
LEMMA BySection ==
    ASSUME NEW g \in [Accounts -> Int]
    PROVE  /\ On(g, Assets) = On(g, InSection("cash")) + On(g, InSection("current_assets"))
                                + On(g, InSection("fixed_assets"))
           /\ On(g, Debts) = On(g, InSection("current_liabilities"))
                               + On(g, InSection("long_term_liabilities")) + On(g, InSection("equity"))
           /\ \A s : On(g, InSection(s)) \in Int
  <1>1. \A a \in Accounts : TypeOf[a] \in AccountTypes /\ SectionOf[a] \in SectionsOf(TypeOf[a])
    BY ReportsAssumption
  <1>2. \A s : InSection(s) \in SUBSET Accounts
    BY DEF InSection
  <1>3. \A r, s : r # s => InSection(r) \cap InSection(s) = {}
    BY DEF InSection
  <1>4. \A a \in Accounts :
          /\ TypeOf[a] = "ASSET" <=> SectionOf[a] \in {"cash", "current_assets", "fixed_assets"}
          /\ TypeOf[a] \in {"LIABILITY", "EQUITY"} <=>
               SectionOf[a] \in {"current_liabilities", "long_term_liabilities", "equity"}
    BY <1>1 DEF SectionsOf, AccountTypes
  <1>5. Assets = (InSection("cash") \cup InSection("current_assets")) \cup InSection("fixed_assets")
    BY <1>4 DEF Assets, OfType, InSection
  <1>6. Debts = (InSection("current_liabilities") \cup InSection("long_term_liabilities"))
                  \cup InSection("equity")
    BY <1>4 DEF Debts, OfType, InSection
  <1>7. ASSUME NEW r, NEW s, NEW t, r # s, r # t, s # t
        PROVE  On(g, (InSection(r) \cup InSection(s)) \cup InSection(t))
                 = On(g, InSection(r)) + On(g, InSection(s)) + On(g, InSection(t))
    <2>1. PICK R, S, T : R = InSection(r) /\ S = InSection(s) /\ T = InSection(t)
      OBVIOUS
    <2>2. /\ R \in SUBSET Accounts /\ S \in SUBSET Accounts /\ T \in SUBSET Accounts
          /\ R \cup S \in SUBSET Accounts
      BY <1>2, <2>1
    <2>3. R \cap S = {} /\ (R \cup S) \cap T = {}
      BY <1>3, <1>7, <2>1
    <2>4. On(g, R \cup S) = On(g, R) + On(g, S)
      BY <2>2, <2>3, OnBoth
    <2>5. On(g, (R \cup S) \cup T) = On(g, R \cup S) + On(g, T)
      BY <2>2, <2>3, OnBoth
    <2>6. QED
      BY <2>1, <2>4, <2>5
  <1>8. \A s : On(g, InSection(s)) \in Int
    BY <1>2, OnType
  <1>9. On(g, Assets) = On(g, InSection("cash")) + On(g, InSection("current_assets"))
                          + On(g, InSection("fixed_assets"))
    BY <1>5, <1>7
  <1>10. On(g, Debts) = On(g, InSection("current_liabilities"))
                          + On(g, InSection("long_term_liabilities")) + On(g, InSection("equity"))
    BY <1>6, <1>7
  <1>11. QED
    BY <1>8, <1>9, <1>10

(* The cash-flow statement explains the change of cash.                    *)
LEMMA CashFlowStatement ==
    ASSUME entries \in Seq(Entry), NEW from \in Dates, NEW to \in Dates, from <= to
    PROVE  CashFlowBalances(from, to)
  <1>1. PICK g : g = [a \in Accounts |-> Net(a, Within(from, to))]
    OBVIOUS
  <1>2. g \in [Accounts -> Int] /\ \A a \in Accounts : g[a] = Net(a, Within(from, to))
    BY <1>1, SidesType
  <1>3. On(g, Accounts) = 0
    BY <1>2, NetZero
  <1>4. NetIncome(Within(from, to)) = (-On(g, Revenue)) - On(g, Expense)
    BY <1>2, Income
  <1>5. ASSUME NEW s PROVE Change(s, from, to) = On(g, InSection(s))
    <2>1. \A a \in Accounts : Net(a, UpTo(to)) - Net(a, Before(from)) = g[a]
      <3>1. ASSUME NEW a \in Accounts PROVE Net(a, UpTo(to)) - Net(a, Before(from)) = g[a]
        <4>1. Net(a, UpTo(to)) = Net(a, Before(from)) + Net(a, Within(from, to))
          BY Calendar, NetSplit
        <4>2. Net(a, Before(from)) \in Int /\ Net(a, Within(from, to)) \in Int
          BY SidesType
        <4>3. QED
          BY <1>2, <4>1, <4>2
      <3>2. QED
        BY <3>1
    <2>2. [a \in InSection(s) |-> Net(a, UpTo(to)) - Net(a, Before(from))]
            = [a \in InSection(s) |-> g[a]]
      BY <2>1 DEF InSection
    <2>3. QED
      BY <2>2 DEF Change, Total, On
  <1>6. /\ On(g, Accounts) = On(g, Assets) + On(g, Debts) + On(g, Revenue) + On(g, Expense)
        /\ On(g, Revenue) \in Int /\ On(g, Expense) \in Int
    BY <1>2, ByType
  <1>7. /\ On(g, Assets) = On(g, InSection("cash")) + On(g, InSection("current_assets"))
                             + On(g, InSection("fixed_assets"))
        /\ On(g, Debts) = On(g, InSection("current_liabilities"))
                            + On(g, InSection("long_term_liabilities")) + On(g, InSection("equity"))
        /\ \A s : On(g, InSection(s)) \in Int
    BY <1>2, BySection
  <1>8. CashFlow(from, to)
          = ((-On(g, Revenue)) - On(g, Expense))
              - On(g, InSection("current_assets")) - On(g, InSection("current_liabilities"))
              - On(g, InSection("fixed_assets"))
              - On(g, InSection("long_term_liabilities")) - On(g, InSection("equity"))
    BY <1>4, <1>5 DEF CashFlow
  <1>9. CashFlow(from, to) = On(g, InSection("cash"))
    <2>1. PICK ca, fa, cl, ll, eq, re, ex, cash :
            /\ ca = On(g, InSection("current_assets")) /\ fa = On(g, InSection("fixed_assets"))
            /\ cl = On(g, InSection("current_liabilities"))
            /\ ll = On(g, InSection("long_term_liabilities")) /\ eq = On(g, InSection("equity"))
            /\ re = On(g, Revenue) /\ ex = On(g, Expense) /\ cash = On(g, InSection("cash"))
      OBVIOUS
    <2>2. /\ ca \in Int /\ fa \in Int /\ cl \in Int /\ ll \in Int /\ eq \in Int
          /\ re \in Int /\ ex \in Int /\ cash \in Int
      BY <1>6, <1>7, <2>1
    <2>3. 0 = (cash + ca + fa) + (cl + ll + eq) + re + ex
      BY <1>3, <1>6, <1>7, <2>1
    <2>4. CashFlow(from, to) = ((-re) - ex) - ca - cl - fa - ll - eq
      BY <1>8, <2>1
    <2>5. ((-re) - ex) - ca - cl - fa - ll - eq = cash
      BY <2>2, <2>3
    <2>6. QED
      BY <2>1, <2>4, <2>5
  <1>10. QED
    BY <1>5, <1>9 DEF CashFlowBalances

-----------------------------------------------------------------------------
(* The statement of an account *)

(* What comes earlier is put in one line.                                 *)
LEMMA EarlierOrder ==
    ASSUME entries \in Seq(Entry)
    PROVE  /\ \A d \in DOMAIN entries : ~Earlier(d, d)
           /\ \A d, e \in DOMAIN entries : d = e \/ Earlier(d, e) \/ Earlier(e, d)
           /\ \A c, d, e \in DOMAIN entries : Earlier(c, d) /\ Earlier(d, e) => Earlier(c, e)
  <1>1. \A d \in DOMAIN entries : entries[d].date \in Nat /\ d \in Nat
    BY EntryFields, ReportsAssumption
  <1>2. PICK day : day = [d \in DOMAIN entries |-> entries[d].date]
    OBVIOUS
  <1>3. \A d \in DOMAIN entries : day[d] \in Nat /\ d \in Nat
    BY <1>1, <1>2
  <1>4. \A d, e \in DOMAIN entries :
          Earlier(d, e) <=> day[d] < day[e] \/ (day[d] = day[e] /\ d < e)
    BY <1>2 DEF Earlier
  <1>5. QED
    BY <1>3, <1>4

(* The lines up to one line of a statement.                                *)
Until(S, e) == {d \in S : d = e \/ Earlier(d, e)}

(* Their number is its place: a later line has a later place.              *)
LEMMA Places ==
    ASSUME entries \in Seq(Entry), NEW S \in SUBSET DOMAIN entries, NEW e \in S
    PROVE  /\ Cardinality(Until(S, e)) \in 1 .. Cardinality(S)
           /\ \A d \in S : Earlier(d, e) => Cardinality(Until(S, d)) < Cardinality(Until(S, e))
  <1>1. IsFiniteSet(S) /\ Cardinality(S) \in Nat
    BY EntryFields, FS_Subset, FS_CardinalityType
  <1>2. \A d \in S : Until(S, d) \in SUBSET S
    BY DEF Until
  <1>3. \A d \in S : IsFiniteSet(Until(S, d)) /\ Cardinality(Until(S, d)) \in Nat
                     /\ Cardinality(Until(S, d)) <= Cardinality(S)
    BY <1>1, <1>2, FS_Subset, FS_CardinalityType
  <1>4. e \in Until(S, e)
    BY DEF Until
  <1>5. Cardinality(Until(S, e)) # 0
    BY <1>3, <1>4, FS_EmptySet
  <1>6. ASSUME NEW d \in S, Earlier(d, e)
        PROVE  Cardinality(Until(S, d)) < Cardinality(Until(S, e))
    <2>1. PICK D, E : D = Until(S, d) /\ E = Until(S, e)
      OBVIOUS
    <2>2. D \subseteq E
      BY <1>6, <2>1, EarlierOrder DEF Until
    <2>3. e \in E /\ e \notin D
      BY <1>4, <1>6, <2>1, EarlierOrder DEF Until
    <2>4. IsFiniteSet(E) /\ Cardinality(D) \in Nat /\ Cardinality(E) \in Nat
      BY <1>3, <2>1
    <2>5. Cardinality(D) <= Cardinality(E) /\ Cardinality(D) # Cardinality(E)
      <3>1. D \in SUBSET E /\ E # D
        BY <2>2, <2>3
      <3>2. QED
        BY <2>4, <3>1, FS_Subset
    <2>6. QED
      BY <2>1, <2>4, <2>5
  <1>7. QED
    BY <1>1, <1>3, <1>5, <1>6

Sorted(s, S) ==
    /\ s \in [1 .. Cardinality(S) -> S]
    /\ \A i, j \in 1 .. Cardinality(S) : i < j => Earlier(s[i], s[j])

(* Lines can be put in order, and each then has its place.                *)
LEMMA InOrderSorts ==
    ASSUME entries \in Seq(Entry), NEW S \in SUBSET DOMAIN entries
    PROVE  Sorted(InOrder(S), S)
  <1>1. IsFiniteSet(S) /\ Cardinality(S) \in Nat
    BY EntryFields, FS_Subset, FS_CardinalityType
  <1>2. PICK n, N : n = Cardinality(S) /\ N = 1 .. n
    OBVIOUS
  <1>3. IsFiniteSet(N) /\ Cardinality(N) = n
    BY <1>1, <1>2, FS_Interval
  <1>4. PICK place : place = [e \in S |-> Cardinality(Until(S, e))]
    OBVIOUS
  <1>5. /\ place \in [S -> N]
        /\ \A d, e \in S : Earlier(d, e) => place[d] < place[e]
    BY <1>2, <1>4, Places
  <1>6. \A d, e \in S : d = e \/ Earlier(d, e) \/ Earlier(e, d)
    BY EarlierOrder
  <1>7. \A d \in S : place[d] \in Int
    BY <1>2, <1>5
  <1>8. \A d, e \in S : place[d] = place[e] => d = e
    <2>1. ASSUME NEW d \in S, NEW e \in S, place[d] = place[e], d # e PROVE FALSE
      <3>1. place[d] < place[e] \/ place[e] < place[d]
        BY <1>5, <1>6, <2>1
      <3>2. QED
        BY <1>7, <2>1, <3>1
    <2>2. QED
      BY <2>1
  <1>9. place \in Injection(S, N)
    BY <1>5, <1>8 DEF Injection, IsInjective
  <1>10. place \in Surjection(S, N)
    BY <1>1, <1>2, <1>3, <1>9, FS_Injection
  <1>11. \A i \in N : \E e \in S : place[e] = i
    BY <1>10 DEF Surjection
  <1>12. PICK s : s = [i \in N |-> CHOOSE e \in S : place[e] = i]
    OBVIOUS
  <1>13. s \in [N -> S] /\ \A i \in N : place[s[i]] = i
    BY <1>11, <1>12
  <1>14. ASSUME NEW i \in N, NEW j \in N, i < j PROVE Earlier(s[i], s[j])
    <2>1. s[i] \in S /\ s[j] \in S /\ place[s[i]] = i /\ place[s[j]] = j /\ i \in Int /\ j \in Int
      BY <1>2, <1>13
    <2>2. s[i] # s[j] /\ ~Earlier(s[j], s[i])
      BY <1>5, <1>14, <2>1
    <2>3. QED
      BY <1>6, <2>1, <2>2
  <1>15. Sorted(s, S)
    BY <1>2, <1>13, <1>14 DEF Sorted
  <1>16. QED
    BY <1>15 DEF InOrder, Sorted

(* A line is shown once.                                                  *)
LEMMA ShownOnce ==
    ASSUME entries \in Seq(Entry), NEW S \in SUBSET DOMAIN entries, NEW s, Sorted(s, S)
    PROVE  \A e \in S : \E i \in 1 .. Cardinality(S) :
                          {j \in 1 .. Cardinality(S) : s[j] = e} = {i}
  <1>1. IsFiniteSet(S) /\ Cardinality(S) \in Nat
    BY EntryFields, FS_Subset, FS_CardinalityType
  <1>2. PICK N : N = 1 .. Cardinality(S)
    OBVIOUS
  <1>3. IsFiniteSet(N) /\ Cardinality(N) = Cardinality(S)
    BY <1>1, <1>2, FS_Interval
  <1>4. s \in [N -> S] /\ \A i, j \in N : i < j => Earlier(s[i], s[j])
    BY <1>2 DEF Sorted
  <1>5. ASSUME NEW i \in N, NEW j \in N, s[i] = s[j], i # j PROVE FALSE
    <2>1. i < j \/ j < i
      BY <1>2, <1>5
    <2>2. Earlier(s[i], s[j]) \/ Earlier(s[j], s[i])
      BY <1>4, <2>1
    <2>3. s[i] \in DOMAIN entries
      BY <1>4
    <2>4. QED
      BY <1>5, <2>2, <2>3, EarlierOrder
  <1>6. s \in Injection(N, S)
    BY <1>4, <1>5 DEF Injection, IsInjective
  <1>7. s \in Surjection(N, S)
    BY <1>1, <1>3, <1>6, FS_Injection
  <1>8. ASSUME NEW e \in S PROVE \E i \in N : {j \in N : s[j] = e} = {i}
    <2>1. PICK i \in N : s[i] = e
      BY <1>7 DEF Surjection
    <2>2. {j \in N : s[j] = e} = {i}
      BY <1>5, <2>1
    <2>3. QED
      BY <2>2
  <1>9. QED
    BY <1>2, <1>8

(* What the lines of an account say, all together, is what it gained.     *)
LEMMA LinesTotal ==
    ASSUME entries \in Seq(Entry), NEW a, NEW D
    PROVE  /\ IsFiniteSet(LinesOf(a, D)) /\ LinesOf(a, D) \in SUBSET DOMAIN entries
           /\ \A e \in LinesOf(a, D) : Signed(a, e) \in Int
           /\ SumFunction([e \in LinesOf(a, D) |-> Signed(a, e)]) = Net(a, D)
  <1>1. PICK L, S, T : L = LinesOf(a, D) /\ S = OnDebit(a, D) /\ T = OnCredit(a, D)
    OBVIOUS
  <1>2. /\ L \in SUBSET DOMAIN entries /\ S \subseteq L /\ T \subseteq L
        /\ \A e \in L : (e \in S <=> entries[e].debit = a) /\ (e \in T <=> entries[e].credit = a)
    BY <1>1 DEF LinesOf, OnDebit, OnCredit
  <1>3. IsFiniteSet(L)
    BY <1>2, EntryFields, FS_Subset
  <1>4. PICK dr, cr, sg : /\ dr = [e \in L |-> IF e \in S THEN Amount(e) ELSE 0]
                          /\ cr = [e \in L |-> IF e \in T THEN Amount(e) ELSE 0]
                          /\ sg = [e \in L |-> Signed(a, e)]
    OBVIOUS
  <1>5. \A e \in L : Amount(e) \in Int
    BY <1>2, EntryFields
  <1>6. dr \in [L -> Int] /\ cr \in [L -> Int]
    BY <1>4, <1>5
  <1>7. \A e \in L : Signed(a, e) = dr[e] - cr[e]
    BY <1>2, <1>4 DEF Signed
  <1>8. sg \in [L -> Int] /\ \A e \in L : Signed(a, e) \in Int /\ dr[e] = sg[e] + cr[e]
    <2>1. \A e \in L : dr[e] \in Int /\ cr[e] \in Int
      BY <1>6
    <2>2. \A e \in L : Signed(a, e) \in Int /\ dr[e] = Signed(a, e) + cr[e]
      BY <1>7, <2>1
    <2>3. QED
      BY <1>4, <2>2
  <1>9. SumFunction(dr) = SumFunction(sg) + SumFunction(cr)
    <2>1. Adds(L, sg, cr, dr)
      BY <1>3, <1>6, <1>8 DEF Adds
    <2>2. QED
      BY <2>1, SumAdds
  <1>10. SumFunction(dr) = Debits(a, D)
    <2>1. PICK f : f = [e \in S |-> Amount(e)]
      OBVIOUS
    <2>2. f \in [S -> Int] /\ (\A x \in S : dr[x] = f[x]) /\ (\A x \in L \ S : dr[x] = 0)
      BY <1>2, <1>4, <1>5, <2>1
    <2>3. Supports(L, S, dr, f)
      BY <1>2, <1>3, <1>6, <2>2 DEF Supports
    <2>4. SumFunction(dr) = SumFunction(f)
      BY <2>3, SumSupports
    <2>5. QED
      BY <1>1, <2>1, <2>4 DEF Debits, Total, OnDebit
  <1>11. SumFunction(cr) = Credits(a, D)
    <2>1. PICK f : f = [e \in T |-> Amount(e)]
      OBVIOUS
    <2>2. f \in [T -> Int] /\ (\A x \in T : cr[x] = f[x]) /\ (\A x \in L \ T : cr[x] = 0)
      BY <1>2, <1>4, <1>5, <2>1
    <2>3. Supports(L, T, cr, f)
      BY <1>2, <1>3, <1>6, <2>2 DEF Supports
    <2>4. SumFunction(cr) = SumFunction(f)
      BY <2>3, SumSupports
    <2>5. QED
      BY <1>1, <2>1, <2>4 DEF Credits, Total, OnCredit
  <1>12. SumFunction(sg) \in Int /\ Debits(a, D) \in Int /\ Credits(a, D) \in Int
    BY <1>3, <1>8, SumInt, SidesType
  <1>13. SumFunction(sg) = Net(a, D)
    BY <1>9, <1>10, <1>11, <1>12 DEF Net
  <1>14. QED
    BY <1>1, <1>2, <1>3, <1>4, <1>8, <1>13

(* The statement of an account ends where the trial balance says.         *)
LEMMA AccountStatement ==
    ASSUME entries \in Seq(Entry), NEW a \in Accounts,
           NEW from \in Dates, NEW to \in Dates, from <= to
    PROVE  RunningBalance(a, from, to) = Net(a, UpTo(to))
  <1>1. PICK L, n, s, start : /\ L = LinesOf(a, Within(from, to)) /\ n = Cardinality(L)
                              /\ s = InOrder(L) /\ start = Net(a, Before(from))
    OBVIOUS
  <1>2. IsFiniteSet(L) /\ L \in SUBSET DOMAIN entries /\ n \in Nat /\ start \in Int
    BY <1>1, LinesTotal, SidesType, FS_CardinalityType
  <1>3. Sorted(s, L)
    BY <1>1, <1>2, InOrderSorts
  <1>4. s \in [1 .. n -> L] /\ \A e \in L : \E i \in 1 .. n : {j \in 1 .. n : s[j] = e} = {i}
    <2>1. \A e \in L : \E i \in 1 .. Cardinality(L) : {j \in 1 .. Cardinality(L) : s[j] = e} = {i}
      BY <1>2, <1>3, ShownOnce
    <2>2. s \in [1 .. Cardinality(L) -> L]
      BY <1>3 DEF Sorted
    <2>3. QED
      BY <1>1, <2>1, <2>2
  <1>5. PICK f, g : /\ f = [i \in 1 .. n |-> Signed(a, s[i])]
                    /\ g = [e \in L |-> Signed(a, e)]
    OBVIOUS
  <1>6. \A e \in L : Signed(a, e) \in Int
    BY <1>1, LinesTotal
  <1>7. f \in [1 .. n -> Int] /\ g \in [L -> Int] /\ \A i \in 1 .. n : f[i] = g[s[i]]
    BY <1>4, <1>5, <1>6
  <1>8. SumFunction(f) = SumFunction(g)
    <2>1. PICK N : N = 1 .. n
      OBVIOUS
    <2>2. IsFiniteSet(N)
      BY <1>2, <2>1, FS_Interval
    <2>3. /\ s \in [N -> L] /\ \A e \in L : \E i \in N : {j \in N : s[j] = e} = {i}
          /\ f \in [N -> Int] /\ \A i \in N : f[i] = g[s[i]]
      BY <1>4, <1>7, <2>1
    <2>4. Renames(N, L, s, f, g)
      BY <1>2, <1>7, <2>2, <2>3 DEF Renames
    <2>5. QED
      BY <2>4, SumRenamed
  <1>9. SumFunction(g) = Net(a, Within(from, to))
    BY <1>1, <1>5, LinesTotal
  <1>10. PICK r : r = CHOOSE q : q = [k \in 0 .. n |-> IF k = 0 THEN start
                                                       ELSE q[k - 1] + Signed(a, s[k])]
    OBVIOUS
  <1>11. RunningBalance(a, from, to) = r[n]
    BY <1>1, <1>10 DEF RunningBalance
  <1>12. RunsOver(r, n, start, f)
    <2>1. ASSUME NEW q
          PROVE  [k \in 0 .. n |-> IF k = 0 THEN start ELSE q[k - 1] + f[k]]
                   = [k \in 0 .. n |-> IF k = 0 THEN start ELSE q[k - 1] + Signed(a, s[k])]
      <3>1. \A k \in 0 .. n : k # 0 => f[k] = Signed(a, s[k])
        BY <1>5
      <3>2. QED
        BY <3>1
    <2>2. PICK q : RunsOver(q, n, start, f)
      BY <1>2, <1>7, RunExists
    <2>3. q = [k \in 0 .. n |-> IF k = 0 THEN start ELSE q[k - 1] + Signed(a, s[k])]
      BY <2>1, <2>2 DEF RunsOver
    <2>4. r = [k \in 0 .. n |-> IF k = 0 THEN start ELSE r[k - 1] + Signed(a, s[k])]
      BY <1>10, <2>3
    <2>5. QED
      BY <2>1, <2>4 DEF RunsOver
  <1>13. r[n] = start + SumFunction(f)
    BY <1>2, <1>7, <1>12, RunTotal
  <1>14. Net(a, UpTo(to)) = Net(a, Before(from)) + Net(a, Within(from, to))
    BY Calendar, NetSplit
  <1>15. QED
    BY <1>1, <1>8, <1>9, <1>11, <1>13, <1>14

(* The financial statements agree with one another for every period,
   whatever was posted and however the chart was changed, by any number of
   editors and postings at once (compute, computeForPeriod, statement).    *)
THEOREM ReportsAgree == Spec => []StatementsAgree
  <1>1. IInv => StatementsAgree
    BY BalanceSheet, TrialBalance, CashFlowStatement, AccountStatement DEF IInv, StatementsAgree
  <1>2. QED
    BY <1>1, Invariance, PTL

-----------------------------------------------------------------------------
(* The accounts above an account *)

(* The first steps of the walk up from an account.                        *)
Walks(u, a, n) ==
    u = [k \in 0 .. n |->
           IF k = 0 THEN {a}
           ELSE u[k - 1] \cup {chart[b].parent : b \in u[k - 1] \cap DOMAIN chart}]

Parents(S) == {chart[b].parent : b \in S \cap DOMAIN chart}

(* A set that nobody leaves by going up.                                  *)
Closed(S) == \A b \in S \cap DOMAIN chart : chart[b].parent \in S

(* The walk can be taken to any height.                                   *)
LEMMA WalkExists == ASSUME NEW a, NEW n \in Nat PROVE \E u : Walks(u, a, n)
  <1> DEFINE T == {m \in Nat : ~\E u : Walks(u, a, m)}
  <1>1. SUFFICES ASSUME T # {} PROVE FALSE
    OBVIOUS
  <1>2. PICK m \in T : \A k \in T : m <= k
    <2>1. T \subseteq Nat
      OBVIOUS
    <2> HIDE DEF T
    <2>2. QED
      BY <1>1, <2>1, LeastNumber
  <1>3. CASE m = 0
    <2>1. PICK u : u = [k \in 0 .. 0 |-> {a}]
      OBVIOUS
    <2>2. u = [k \in 0 .. 0 |-> IF k = 0 THEN {a} ELSE u[k - 1] \cup Parents(u[k - 1])]
      <3>1. \A k \in 0 .. 0 : k = 0
        OBVIOUS
      <3>2. QED
        BY <2>1, <3>1
    <2>3. Walks(u, a, 0)
      BY <2>2 DEF Walks, Parents
    <2>4. QED
      BY <1>2, <1>3, <2>3
  <1>4. CASE m # 0
    <2>1. m \in Nat /\ m - 1 \in Nat /\ m - 1 \notin T
      BY <1>2, <1>4
    <2>2. PICK v : Walks(v, a, m - 1)
      BY <2>1
    <2>3. PICK u : u = [k \in 0 .. m |-> IF k = 0 THEN {a} ELSE v[k - 1] \cup Parents(v[k - 1])]
      OBVIOUS
    <2>4. v = [k \in 0 .. (m - 1) |-> IF k = 0 THEN {a} ELSE v[k - 1] \cup Parents(v[k - 1])]
      BY <2>2 DEF Walks, Parents
    <2>5. ASSUME NEW k \in 0 .. (m - 1) PROVE k \in 0 .. m /\ u[k] = v[k]
      <3>1. k \in 0 .. m
        BY <2>1
      <3>2. u[k] = IF k = 0 THEN {a} ELSE v[k - 1] \cup Parents(v[k - 1])
        BY <2>3, <3>1
      <3>3. v[k] = IF k = 0 THEN {a} ELSE v[k - 1] \cup Parents(v[k - 1])
        BY <2>4, <2>5
      <3>4. QED
        BY <3>1, <3>2, <3>3
    <2>6. \A k \in 0 .. m : k # 0 => k - 1 \in 0 .. (m - 1)
      BY <2>1
    <2>7. u = [k \in 0 .. m |-> IF k = 0 THEN {a} ELSE u[k - 1] \cup Parents(u[k - 1])]
      BY <2>3, <2>5, <2>6
    <2>8. Walks(u, a, m)
      BY <2>7 DEF Walks, Parents
    <2>9. QED
      BY <1>2, <2>8
  <1>5. QED
    BY <1>3, <1>4

(* Going on once nobody leaves gets nowhere; before that, every step of the
   walk meets another account.                                            *)
LEMMA WalkSteps ==
    ASSUME TypeOK, NEW a \in DOMAIN chart, NEW n \in Nat, NEW u, Walks(u, a, n)
    PROVE  \A k \in 0 .. n :
             /\ a \in u[k] /\ u[k] \subseteq Accounts \cup {None} /\ IsFiniteSet(u[k])
             /\ Closed(u[k]) \/ Cardinality(u[k]) >= k + 1
             /\ \A S : a \in S /\ Closed(S) => u[k] \subseteq S
  <1> DEFINE Fine(k) == /\ a \in u[k] /\ u[k] \subseteq Accounts \cup {None} /\ IsFiniteSet(u[k])
                        /\ Closed(u[k]) \/ Cardinality(u[k]) >= k + 1
                        /\ \A S : a \in S /\ Closed(S) => u[k] \subseteq S
             Bad == {k \in 0 .. n : ~Fine(k)}
  <1>1. /\ u[0] = {a}
        /\ \A k \in 0 .. n : k # 0 => u[k] = u[k - 1] \cup Parents(u[k - 1])
    BY DEF Walks, Parents
  <1>2. SUFFICES ASSUME Bad # {} PROVE FALSE
    OBVIOUS
  <1>3. PICK k \in Bad : \A j \in Bad : k <= j
    <2>1. Bad \subseteq Nat
      OBVIOUS
    <2> HIDE DEF Bad
    <2>2. QED
      BY <1>2, <2>1, LeastNumber
  <1>4. /\ DOMAIN chart \subseteq Accounts
        /\ \A b \in DOMAIN chart : chart[b].parent \in Accounts \cup {None}
    BY DEF TypeOK
  <1>5. IsFiniteSet(Accounts \cup {None})
    BY ReportsAssumption, FS_AddElement
  <1>6. CASE k = 0
    <2>1. IsFiniteSet({a}) /\ Cardinality({a}) = 1
      BY FS_Singleton
    <2>2. Fine(0)
      BY <1>1, <1>4, <2>1
    <2>3. QED
      BY <1>3, <1>6, <2>2
  <1>7. CASE k # 0
    <2>1. k \in Nat /\ k - 1 \in 0 .. n /\ k \in 0 .. n /\ k - 1 \notin Bad
      BY <1>3, <1>7
    <2>2. PICK j, P, Q : j = k - 1 /\ P = u[k - 1] /\ Q = u[k]
      OBVIOUS
    <2>3. /\ a \in P /\ P \subseteq Accounts \cup {None} /\ IsFiniteSet(P)
          /\ Closed(P) \/ Cardinality(P) >= j + 1
          /\ \A S : a \in S /\ Closed(S) => P \subseteq S
      BY <2>1, <2>2
    <2>4. Q = P \cup Parents(P)
      BY <1>1, <1>7, <2>1, <2>2
    <2>5. a \in Q /\ Q \subseteq Accounts \cup {None}
      BY <1>4, <2>3, <2>4 DEF Parents
    <2>6. IsFiniteSet(Q)
      BY <1>5, <2>5, FS_Subset
    <2>7. \A S : a \in S /\ Closed(S) => Q \subseteq S
      BY <2>3, <2>4 DEF Closed, Parents
    <2>8. Closed(Q) \/ Cardinality(Q) >= k + 1
      <3>1. CASE Closed(P)
        <4>1. Q = P
          BY <2>4, <3>1 DEF Closed, Parents
        <4>2. QED
          BY <3>1, <4>1
      <3>2. CASE ~Closed(P)
        <4>1. P \in SUBSET Q /\ P # Q
          BY <2>4, <3>2 DEF Closed, Parents
        <4>2. Cardinality(P) <= Cardinality(Q) /\ Cardinality(P) # Cardinality(Q)
          BY <2>6, <4>1, FS_Subset
        <4>3. Cardinality(P) \in Nat /\ Cardinality(Q) \in Nat
          BY <2>3, <2>6, FS_CardinalityType
        <4>4. Cardinality(P) >= j + 1 /\ j + 1 = k
          BY <2>1, <2>2, <2>3, <3>2
        <4>5. QED
          BY <2>1, <4>2, <4>3, <4>4
      <3>3. QED
        BY <3>1, <3>2
    <2>9. Fine(k)
      BY <2>2, <2>5, <2>6, <2>7, <2>8
    <2>10. QED
      BY <1>3, <2>9
  <1>8. QED
    BY <1>6, <1>7

(* Above: an account, its parent, the parent's and so on, and nobody else. *)
LEMMA AboveClosed ==
    ASSUME TypeOK, NEW a \in DOMAIN chart
    PROVE  /\ a \in Above(a)
           /\ \A b \in Above(a) \cap DOMAIN chart :
                chart[b].parent = None \/ chart[b].parent \in Above(a)
           /\ \A S : a \in S /\ Closed(S) => Above(a) \subseteq S
  <1>1. PICK n : n = Cardinality(Accounts)
    OBVIOUS
  <1>2. n \in Nat /\ IsFiniteSet(Accounts)
    BY <1>1, ReportsAssumption, FS_CardinalityType
  <1>3. PICK u : u = CHOOSE v : v = [k \in 0 .. n |->
                                     IF k = 0 THEN {a}
                                     ELSE v[k - 1] \cup {chart[b].parent : b \in v[k - 1] \cap DOMAIN chart}]
    OBVIOUS
  <1>4. Above(a) = u[n] \ {None}
    BY <1>1, <1>3 DEF Above
  <1>5. Walks(u, a, n)
    <2>1. PICK v : Walks(v, a, n)
      BY <1>2, WalkExists
    <2>2. QED
      BY <1>3, <2>1 DEF Walks
  <1>6. PICK U : U = u[n]
    OBVIOUS
  <1>7. /\ a \in U /\ U \subseteq Accounts \cup {None} /\ IsFiniteSet(U)
        /\ Closed(U) \/ Cardinality(U) >= n + 1
        /\ \A S : a \in S /\ Closed(S) => U \subseteq S
    <2>1. n \in 0 .. n
      BY <1>2
    <2>2. QED
      BY <1>2, <1>5, <1>6, <2>1, WalkSteps
  <1>8. Closed(U)
    <2> SUFFICES ASSUME Cardinality(U) >= n + 1 PROVE Closed(U)
      BY <1>7
    <2>1. PICK A : A = Accounts \cup {None}
      OBVIOUS
    <2>2. IsFiniteSet(A) /\ Cardinality(A) = n + 1
      BY <1>1, <1>2, <2>1, ChartAssumption, FS_AddElement
    <2>3. U \in SUBSET A /\ Cardinality(U) <= Cardinality(A) /\ Cardinality(U) \in Nat
      BY <1>7, <2>1, <2>2, FS_Subset, FS_CardinalityType
    <2>4. Cardinality(U) = Cardinality(A)
      BY <1>2, <2>2, <2>3
    <2>5. U = A
      BY <2>2, <2>3, <2>4, FS_Subset
    <2>6. QED
      BY <2>1, <2>5 DEF Closed, TypeOK
  <1>9. a # None
    BY ChartAssumption DEF TypeOK
  <1>10. a \in Above(a)
    BY <1>4, <1>6, <1>7, <1>9
  <1>11. \A b \in Above(a) \cap DOMAIN chart : chart[b].parent = None \/ chart[b].parent \in Above(a)
    BY <1>4, <1>6, <1>8 DEF Closed
  <1>12. \A S : a \in S /\ Closed(S) => Above(a) \subseteq S
    BY <1>4, <1>6, <1>7
  <1>13. QED
    BY <1>10, <1>11, <1>12

-----------------------------------------------------------------------------
(* The tree *)

(* Going up never comes back: some account of every set has its parent
   outside it.                                                             *)
Forest == \A S \in SUBSET DOMAIN chart : S # {} => \E a \in S : chart[a].parent \notin S

(* There is a way from p to the top that does not meet a.                  *)
Apart(a, p) ==
    \E S : p \in S /\ a \notin S /\ \A b \in S \cap DOMAIN chart : chart[b].parent \in S \cup {None}

(* The chart is a forest, and stays one under the move that was checked and
   is about to be written.                                                 *)
TreeInv ==
    /\ Forest
    /\ \A w \in Editors : At(w, "write") /\ txn[w].request.op = "move" =>
         \/ txn[w].request.parent = None
         \/ Apart(txn[w].request.account, txn[w].request.parent)

(* What is not about to be written again keeps the tree as it is.          *)
LEMMA UnchangedKeepsTree ==
    ASSUME TreeInv, UNCHANGED chart,
           \A w \in Editors : At(w, "write")' => txn'[w] = txn[w]
    PROVE  TreeInv'
  <1>1. Forest'
    BY DEF TreeInv, Forest
  <1>2. ASSUME NEW w \in Editors, At(w, "write")', txn'[w].request.op = "move"
        PROVE  \/ txn'[w].request.parent = None
               \/ Apart(txn[w].request.account, txn[w].request.parent)'
    BY <1>2 DEF TreeInv, At, Apart
  <1>3. QED
    BY <1>1, <1>2 DEF TreeInv

(* A move that begins has looked at all accounts above the new parent.     *)
LEMMA SubmitKeepsTree ==
    ASSUME IInv, TreeInv, NEW w \in Editors, NEW r \in Requests, Submit(w, r)
    PROVE  TreeInv'
  <1>1. PICK t \in {[pc |-> "lock", request |-> r], [pc |-> "write", request |-> r]} : Set(w, t)
    BY DEF Submit
  <1>2. t.pc = "write" => Allowed(r)
    <2>1. CASE r.op = "delete" /\ Set(w, [pc |-> "lock", request |-> r])
      <3>1. t = [pc |-> "lock", request |-> r]
        BY <1>1, <2>1 DEF Set, IInv, TxnInv
      <3>2. QED
        BY <3>1
    <2>2. CASE Allowed(r)
      BY <2>2
    <2>3. QED
      BY <2>1, <2>2 DEF Submit
  <1>3. w \notin Posters /\ t \in EditorTxn /\ t.request = r
    BY <1>1, ChartAssumption DEF EditorTxn
  <1>4. txn'[w] = t /\ \A v \in Editors : v # w => txn'[v] = txn[v]
    BY <1>1, <1>3, SetTxn DEF IInv
  <1>5. UNCHANGED chart
    BY DEF Submit
  <1>6. Forest'
    BY <1>5 DEF TreeInv, Forest
  <1>7. ASSUME Allowed(r), r.op = "move", r.parent # None PROVE Apart(r.account, r.parent)
    <2>1. MayMove(r.account, r.parent)
      BY <1>7 DEF Allowed
    <2>2. r.parent \in DOMAIN chart /\ r.account \notin Above(r.parent)
      BY <1>7, <2>1 DEF MayMove, IsGroup, Exists
    <2>3. PICK p, S : p = r.parent /\ S = Above(r.parent)
      OBVIOUS
    <2>4. /\ p \in S
          /\ \A b \in S \cap DOMAIN chart : chart[b].parent = None \/ chart[b].parent \in S
      BY <2>2, <2>3, AboveClosed DEF IInv
    <2>5. QED
      BY <2>2, <2>3, <2>4 DEF Apart
  <1>8. ASSUME NEW v \in Editors, At(v, "write")', txn'[v].request.op = "move"
        PROVE  \/ txn'[v].request.parent = None
               \/ Apart(txn[v].request.account, txn[v].request.parent)'
    <2>1. CASE v = w
      <3>1. Allowed(r) /\ r.op = "move"
        BY <1>2, <1>3, <1>4, <1>8, <2>1 DEF At
      <3>2. r.parent = None \/ Apart(r.account, r.parent)
        BY <1>7, <3>1
      <3>3. txn'[v].request = r
        BY <1>3, <1>4, <2>1
      <3>4. QED
        BY <1>5, <3>2, <3>3 DEF Apart
    <2>2. CASE v # w
      BY <1>4, <1>5, <1>8, <2>2 DEF TreeInv, At, Apart
    <2>3. QED
      BY <2>1, <2>2
  <1>9. QED
    BY <1>6, <1>8 DEF TreeInv

(* A new account closes no circle (create).                                *)
LEMMA ForestGrows ==
    ASSUME TypeOK, Forest, NEW a, NEW p, a \notin DOMAIN chart, p \in DOMAIN chart \cup {None},
           a # None, DOMAIN chart' = DOMAIN chart \cup {a}, chart'[a].parent = p,
           \A b \in DOMAIN chart : chart'[b].parent = chart[b].parent
    PROVE  Forest'
  <1>1. SUFFICES ASSUME NEW S \in SUBSET DOMAIN chart', S # {}, \A b \in S : chart'[b].parent \in S
                 PROVE  FALSE
    BY DEF Forest
  <1>2. PICK T : T = S \ {a}
    OBVIOUS
  <1>3. T \in SUBSET DOMAIN chart
    BY <1>2
  <1>4. T # {}
    BY <1>1, <1>2
  <1>5. \A b \in T : chart[b].parent \in T
    BY <1>1, <1>2, <1>3, ChartAssumption DEF TypeOK
  <1>6. QED
    BY <1>3, <1>4, <1>5 DEF Forest

(* A move closes none: the new parent is apart from what moves (move).     *)
LEMMA ForestMoves ==
    ASSUME TypeOK, Forest, NEW a, NEW p, p = None \/ Apart(a, p),
           DOMAIN chart' = DOMAIN chart, chart'[a].parent = p,
           \A b \in DOMAIN chart : b # a => chart'[b].parent = chart[b].parent
    PROVE  Forest'
  <1>1. SUFFICES ASSUME NEW S \in SUBSET DOMAIN chart', S # {}, \A b \in S : chart'[b].parent \in S
                 PROVE  FALSE
    BY DEF Forest
  <1>2. None \notin S
    BY ChartAssumption DEF TypeOK
  <1>3. CASE a \notin S
    BY <1>1, <1>3 DEF Forest
  <1>4. CASE a \in S
    <2>1. p \in S
      BY <1>1, <1>4
    <2>2. PICK W : p \in W /\ a \notin W
                   /\ \A b \in W \cap DOMAIN chart : chart[b].parent \in W \cup {None}
      BY <1>2, <2>1 DEF Apart
    <2>3. PICK T : T = S \cap W
      OBVIOUS
    <2>4. T \in SUBSET DOMAIN chart /\ T # {} /\ \A b \in T : chart[b].parent \in T
      BY <1>1, <1>2, <2>1, <2>2, <2>3
    <2>5. QED
      BY <2>4 DEF Forest
  <1>5. QED
    BY <1>3, <1>4

(* An account that is gone closes none (delete).                           *)
LEMMA ForestShrinks ==
    ASSUME Forest, DOMAIN chart' \subseteq DOMAIN chart,
           \A b \in DOMAIN chart' : chart'[b].parent = chart[b].parent
    PROVE  Forest'
  BY DEF Forest

(* The chart has not changed since the move was checked, so it stays a
   forest.                                                                 *)
LEMMA WriteKeepsTree ==
    ASSUME Alone, IInv, TreeInv, NEW w \in Editors, Write(w)
    PROVE  TreeInv'
  <1> DEFINE r == txn[w].request
             a == r.account
  <1>1. w \notin Posters /\ r \in Requests /\ At(w, "write")
    BY ChartAssumption DEF IInv, TxnInv, EditorTxn, Write, At
  <1>2. Set(w, Idle)
    BY DEF Write, Fail
  <1>3. \A v \in Editors : ~At(v, "write")'
    <2>1. txn'[w] = Idle
      BY <1>1, <1>2, SetTxn DEF IInv
    <2>2. QED
      BY <2>1 DEF Alone, At
  <1>4. CASE Fail(w)
    BY <1>3, <1>4, UnchangedKeepsTree DEF Fail
  <1>5. CASE ~Fail(w)
    <2> DEFINE row == IF r.op = "create"
                      THEN [parent |-> r.parent, postable |-> r.postable, active |-> TRUE]
                      ELSE chart[a]
               written == [parent |-> IF r.op = "move" THEN r.parent ELSE row.parent,
                           postable |-> row.postable /\ r.op # "make_group",
                           active |-> r.op = "restart" \/ (row.active /\ r.op # "stop")]
    <2>1. /\ chart' = [b \in DOMAIN chart \cup {a} |-> IF b = a THEN written ELSE chart[b]]
          /\ r.op = "create" <=> a \notin DOMAIN chart
          /\ r.op \in {"create", "move"} => r.parent \in DOMAIN chart \cup {None}
      BY <1>5 DEF Write, Exists
    <2>2. chart'[a].parent = IF r.op \in {"create", "move"} THEN r.parent ELSE chart[a].parent
      <3>1. chart'[a] = written
        BY <2>1
      <3>2. QED
        BY <3>1
    <2> HIDE DEF written, row
    <2>3. /\ DOMAIN chart' = DOMAIN chart \cup {a}
          /\ \A b \in DOMAIN chart : b # a => chart'[b].parent = chart[b].parent
      BY <2>1
    <2>4. TypeOK /\ Forest
      BY DEF IInv, TreeInv
    <2>5. PICK x, p : x = a /\ p = r.parent
      OBVIOUS
    <2>6. x # None
      BY <1>1, <2>5, ChartAssumption
    <2>7. Forest'
      <3>1. CASE r.op = "create"
        <4>1. /\ x \notin DOMAIN chart /\ p \in DOMAIN chart \cup {None}
              /\ DOMAIN chart' = DOMAIN chart \cup {x} /\ chart'[x].parent = p
              /\ \A b \in DOMAIN chart : chart'[b].parent = chart[b].parent
          BY <2>1, <2>2, <2>3, <2>5, <3>1
        <4>2. QED
          BY <2>4, <2>6, <4>1, ForestGrows
      <3>2. CASE r.op = "move"
        <4>1. p = None \/ Apart(x, p)
          BY <1>1, <2>5, <3>2 DEF TreeInv
        <4>2. /\ DOMAIN chart' = DOMAIN chart /\ chart'[x].parent = p
              /\ \A b \in DOMAIN chart : b # x => chart'[b].parent = chart[b].parent
          BY <2>1, <2>2, <2>3, <2>5, <3>2
        <4>3. QED
          BY <2>4, <4>1, <4>2, ForestMoves
      <3>3. CASE r.op \notin {"create", "move"}
        <4>1. /\ DOMAIN chart' \subseteq DOMAIN chart
              /\ \A b \in DOMAIN chart' : chart'[b].parent = chart[b].parent
          BY <2>1, <2>2, <2>3, <3>3
        <4>2. QED
          BY <2>4, <4>1, ForestShrinks
      <3>4. QED
        BY <3>1, <3>2, <3>3
    <2>8. QED
      BY <1>3, <2>7 DEF TreeInv
  <1>6. QED
    BY <1>4, <1>5

(* A deleted account leaves no circle behind.                              *)
LEMMA DeleteKeepsTree ==
    ASSUME Alone, IInv, TreeInv, NEW w \in Editors, DeleteAccount(w)
    PROVE  TreeInv'
  <1> DEFINE a == txn[w].request.account
  <1>1. w \notin Posters
    BY ChartAssumption
  <1>2. Set(w, Idle)
    BY DEF DeleteAccount, Fail
  <1>3. \A v \in Editors : ~At(v, "write")'
    <2>1. txn'[w] = Idle
      BY <1>1, <1>2, SetTxn DEF IInv
    <2>2. QED
      BY <2>1 DEF Alone, At
  <1>4. CASE Fail(w)
    BY <1>3, <1>4, UnchangedKeepsTree DEF Fail
  <1>5. CASE chart' = [b \in DOMAIN chart \ {a} |-> chart[b]]
    <2>1. /\ DOMAIN chart' \subseteq DOMAIN chart
          /\ \A b \in DOMAIN chart' : chart'[b].parent = chart[b].parent
      BY <1>5
    <2>2. Forest'
      BY <2>1, ForestShrinks DEF TreeInv
    <2>3. QED
      BY <1>3, <2>2 DEF TreeInv
  <1>6. QED
    BY <1>4, <1>5 DEF DeleteAccount

(* Every step keeps the chart a forest, as long as one editor works.       *)
LEMMA NextKeepsTree ==
    ASSUME Alone, IInv, TreeInv, [Next]_vars
    PROVE  TreeInv'
  <1>1. ASSUME NEW w \in Editors, NEW r \in Requests, Submit(w, r) PROVE TreeInv'
    BY <1>1, SubmitKeepsTree
  <1>2. ASSUME NEW w \in Editors, Write(w) \/ DeleteAccount(w) PROVE TreeInv'
    BY <1>2, WriteKeepsTree, DeleteKeepsTree
  <1>3. ASSUME NEW w \in Editors \cup Posters, NEW t, Set(w, t),
               t # Idle => t.pc # "write", UNCHANGED chart
        PROVE  TreeInv'
    <2>1. DOMAIN txn = Editors \cup Posters /\ txn' = [txn EXCEPT ![w] = t]
      BY <1>3 DEF IInv, TxnInv, Set
    <2>2. \A v \in Editors : At(v, "write")' => txn'[v] = txn[v]
      BY <1>3, <2>1 DEF At
    <2>3. QED
      BY <1>3, <2>2, UnchangedKeepsTree
  <1>4. ASSUME NEW w \in Editors \cup Posters, Fail(w) PROVE TreeInv'
    BY <1>3, <1>4 DEF Fail
  <1>5. ASSUME NEW w \in Editors, LockAccount(w) PROVE TreeInv'
    <2>1. CASE Proceed(w, "delete")
      <3>1. txn[w] \in EditorTxn
        BY <1>5 DEF LockAccount, At, IInv, TxnInv
      <3>2. [txn[w] EXCEPT !.pc = "delete"].pc = "delete"
        BY <3>1 DEF EditorTxn
      <3>3. QED
        BY <1>3, <2>1, <3>2 DEF Proceed
    <2>2. QED
      BY <1>4, <1>5, <2>1 DEF LockAccount
  <1>6. ASSUME NEW w \in Posters, NEW p \in Postings, SubmitPosting(w, p) PROVE TreeInv'
    BY <1>3, <1>6 DEF SubmitPosting
  <1>7. ASSUME NEW w \in Posters, InsertLines(w) \/ CommitEntry(w) PROVE TreeInv'
    <2>1. CASE Proceed(w, "commit") /\ At(w, "insert")
      <3>1. txn[w] \in PosterTxn
        BY <2>1 DEF At, IInv, TxnInv
      <3>2. [txn[w] EXCEPT !.pc = "commit"].pc = "commit"
        BY <3>1 DEF PosterTxn
      <3>3. QED
        BY <1>3, <2>1, <3>2 DEF Proceed
    <2>2. CASE CommitEntry(w)
      BY <1>3, <2>2 DEF CommitEntry
    <2>3. QED
      BY <1>4, <1>7, <2>1, <2>2 DEF InsertLines
  <1>8. CASE UNCHANGED vars
    BY <1>8, UnchangedKeepsTree DEF vars
  <1>9. QED
    BY <1>1, <1>2, <1>4, <1>5, <1>6, <1>7, <1>8 DEF Next, Rollback

-----------------------------------------------------------------------------
(* Totals *)

Tops == {a \in DOMAIN chart : chart[a].parent = None}

(* Every account is below exactly one account at the top: the walk up ends
   there, and two ends would need two ways up.                             *)
LEMMA OneTop ==
    ASSUME TypeOK, Forest, NEW b \in DOMAIN chart
    PROVE  \E t \in Tops : Above(b) \cap Tops = {t}
  <1>0. None \notin DOMAIN chart
    BY ChartAssumption DEF TypeOK
  <1>1. ASSUME NEW x \in DOMAIN chart
        PROVE  /\ x \in Above(x)
               /\ \A y \in Above(x) \cap DOMAIN chart :
                    chart[y].parent = None \/ chart[y].parent \in Above(x)
               /\ \A S : x \in S /\ Closed(S) => Above(x) \subseteq S
    BY <1>1, AboveClosed
  <1>2. PICK U : U = Above(b)
    OBVIOUS
  <1>3. PICK t \in U \cap DOMAIN chart : chart[t].parent \notin U \cap DOMAIN chart
    <2>1. U \cap DOMAIN chart # {}
      BY <1>1, <1>2
    <2>2. QED
      BY <2>1 DEF Forest
  <1>4. t \in Tops
    BY <1>1, <1>2, <1>3 DEF Tops, TypeOK
  <1>5. ASSUME NEW s \in Tops, s \in U, s # t PROVE FALSE
    <2>1. PICK S : S = {x \in U \cap DOMAIN chart : s \in Above(x) /\ t \in Above(x)}
      OBVIOUS
    <2>2. b \in S
      BY <1>1, <1>2, <1>3, <1>5, <2>1
    <2>3. S \in SUBSET DOMAIN chart
      BY <2>1
    <2>4. PICK x \in S : chart[x].parent \notin S
      BY <2>2, <2>3 DEF Forest
    <2>5. x \in U \cap DOMAIN chart /\ s \in Above(x) /\ t \in Above(x)
      BY <2>1, <2>4
    <2>6. CASE chart[x].parent = None
      <3>1. PICK R : R = {x, None}
        OBVIOUS
      <3>2. Closed(R)
        BY <1>0, <2>6, <3>1 DEF Closed
      <3>3. Above(x) \subseteq R
        BY <1>1, <2>5, <3>1, <3>2
      <3>4. s # None /\ t # None
        BY <1>0, <1>3, <1>5 DEF Tops
      <3>5. QED
        BY <1>5, <2>5, <3>1, <3>3, <3>4
    <2>7. CASE chart[x].parent # None
      <3>1. PICK p : p = chart[x].parent
        OBVIOUS
      <3>2. p \in U /\ p \in DOMAIN chart
        BY <1>1, <1>2, <2>5, <2>7, <3>1 DEF TypeOK
      <3>3. PICK R : R = Above(p) \cup {x, None}
        OBVIOUS
      <3>4. Closed(R)
        BY <1>0, <1>1, <3>1, <3>2, <3>3 DEF Closed
      <3>5. Above(x) \subseteq R
        BY <1>1, <2>5, <3>3, <3>4
      <3>6. s # None /\ t # None /\ s # x /\ t # x
        BY <1>0, <1>3, <1>4, <1>5, <2>7 DEF Tops
      <3>7. s \in Above(p) /\ t \in Above(p)
        BY <2>5, <3>3, <3>5, <3>6
      <3>8. QED
        BY <2>1, <2>4, <3>1, <3>2, <3>7
    <2>8. QED
      BY <2>6, <2>7
  <1>6. Above(b) \cap Tops = {t}
    BY <1>2, <1>3, <1>4, <1>5
  <1>7. QED
    BY <1>4, <1>6

(* What the accounts have is what the accounts at the top have, with all
   below them.                                                             *)
LEMMA TopsTotal ==
    ASSUME TypeOK, Forest, NEW f \in [DOMAIN chart -> Int]
    PROVE  SumFunction([t \in Tops |-> SumFunction([b \in Below(t) |-> f[b]])]) = SumFunction(f)
  <1>1. PICK C, T : C = DOMAIN chart /\ T = Tops
    OBVIOUS
  <1>2. IsFiniteSet(C) /\ IsFiniteSet(T)
    <2>1. C \in SUBSET Accounts /\ T \in SUBSET Accounts
      BY <1>1 DEF TypeOK, Tops
    <2>2. QED
      BY <2>1, ReportsAssumption, FS_Subset
  <1>3. PICK key : key = [b \in C |-> CHOOSE t \in T : Above(b) \cap T = {t}]
    OBVIOUS
  <1>4. key \in [C -> T] /\ \A b \in C : Above(b) \cap T = {key[b]}
    BY <1>1, <1>3, OneTop
  <1>5. \A t \in T : Below(t) = {b \in C : key[b] = t}
    BY <1>1, <1>4 DEF Below
  <1>6. PICK part, g : /\ part = [t \in T |-> [b \in Below(t) |-> f[b]]]
                       /\ g = [t \in T |-> SumFunction(part[t])]
    OBVIOUS
  <1>7. ASSUME NEW t \in T
        PROVE  /\ part[t] \in [{b \in C : key[b] = t} -> Int]
               /\ \A b \in C : key[b] = t => part[t][b] = f[b]
               /\ g[t] = SumFunction(part[t]) /\ g[t] \in Int
    <2>1. PICK B, q : B = {b \in C : key[b] = t} /\ q = part[t]
      OBVIOUS
    <2>2. q = [b \in B |-> f[b]] /\ \A b \in B : f[b] \in Int
      BY <1>1, <1>5, <1>6, <2>1
    <2>3. q \in [B -> Int] /\ \A b \in B : q[b] = f[b]
      BY <2>2
    <2>4. IsFiniteSet(B)
      BY <1>2, <2>1, FS_Subset
    <2>5. SumFunction(q) \in Int
      BY <2>3, <2>4, SumInt
    <2>6. QED
      BY <1>6, <2>1, <2>3, <2>5
  <1>8. g \in [T -> Int]
    BY <1>6, <1>7
  <1>9. SumsOfParts(C, T, key, f, part, g)
    BY <1>1, <1>2, <1>4, <1>7, <1>8 DEF SumsOfParts
  <1>10. SumFunction(g) = SumFunction(f)
    BY <1>9, SumGroups
  <1>11. g = [t \in T |-> SumFunction([b \in Below(t) |-> f[b]])]
    BY <1>6
  <1>12. QED
    BY <1>1, <1>10, <1>11

(* Every posted amount reaches the top once, on each side.                 *)
LEMMA TopsHaveAll ==
    ASSUME IInv, Forest
    PROVE  TotalsReachTheTop
  <1>1. TypeOK /\ entries \in Seq(Entry)
    BY DEF IInv
  <1>2. PICK C : C = DOMAIN chart
    OBVIOUS
  <1>3. IsFiniteSet(C)
    BY <1>1, <1>2, ReportsAssumption, FS_Subset DEF TypeOK
  <1>4. \A e \in DOMAIN entries : entries[e].debit \in C /\ entries[e].credit \in C
    BY <1>1, <1>2 DEF TypeOK
  <1>5. Posted(Dates) = DOMAIN entries
    BY <1>1, EntryFields DEF Posted
  <1>6. PICK posted : posted = SumFunction([e \in DOMAIN entries |-> Amount(e)])
    OBVIOUS
  <1>7. PICK d, c : d = [a \in C |-> Debits(a, Dates)] /\ c = [a \in C |-> Credits(a, Dates)]
    OBVIOUS
  <1>8. SumFunction(d) = posted /\ SumFunction(c) = posted
    BY <1>1, <1>3, <1>4, <1>5, <1>6, <1>7, SidesTotal
  <1>9. d \in [C -> Int] /\ c \in [C -> Int]
    BY <1>1, <1>7, SidesType
  <1>10. /\ SumFunction([t \in Tops |-> SumFunction([b \in Below(t) |-> d[b]])]) = posted
         /\ SumFunction([t \in Tops |-> SumFunction([b \in Below(t) |-> c[b]])]) = posted
    BY <1>1, <1>2, <1>8, <1>9, TopsTotal
  <1>11. \A t : /\ [b \in Below(t) |-> d[b]] = [b \in Below(t) |-> Debits(b, Dates)]
                /\ [b \in Below(t) |-> c[b]] = [b \in Below(t) |-> Credits(b, Dates)]
    <2>1. \A t : Below(t) \subseteq C
      BY <1>2 DEF Below
    <2>2. QED
      BY <1>7, <2>1
  <1>12. /\ SumFunction([t \in Tops |-> SumFunction([b \in Below(t) |-> Debits(b, Dates)])]) = posted
         /\ SumFunction([t \in Tops |-> SumFunction([b \in Below(t) |-> Credits(b, Dates)])]) = posted
    BY <1>10, <1>11
  <1>13. QED
    BY <1>6, <1>12 DEF TotalsReachTheTop, Total, RolledUp, Tops

(* With one editor at a time, every posted amount is in the totals of
   exactly one top-level account, whatever is created, moved, made a group
   or deleted beside any number of postings (move, rollUpBalances).        *)
THEOREM TotalsComplete ==
    ASSUME Alone
    PROVE  Spec => []TotalsReachTheTop
  <1>1. Init => TreeInv
    <2>1. SUFFICES ASSUME Init PROVE TreeInv
      OBVIOUS
    <2>2. \A w \in Editors : ~At(w, "write")
      BY <2>1 DEF Init, At
    <2>3. DOMAIN chart = DOMAIN Template /\ \A a \in DOMAIN chart : chart[a].parent = Template[a].parent
      BY <2>1 DEF Init
    <2>4. Forest
      BY <2>3, ChartAssumption DEF Forest
    <2>5. QED
      BY <2>2, <2>4 DEF TreeInv
  <1>2. IInv /\ TreeInv /\ [Next]_vars => TreeInv'
    BY NextKeepsTree
  <1>3. IInv /\ TreeInv => TotalsReachTheTop
    BY TopsHaveAll DEF TreeInv
  <1>4. QED
    BY <1>1, <1>2, <1>3, Invariance, PTL DEF Spec
=============================================================================
