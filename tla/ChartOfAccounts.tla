--------------------------- MODULE ChartOfAccounts ---------------------------
(***************************************************************************)
(* The chart of accounts (chart-of-accounts.service.ts), the mapping of    *)
(* automatic postings to accounts (account-mapping.service.ts) and the     *)
(* roll-up of balances (account-balances.util.ts), while entries are       *)
(* posted.                                                                 *)
(*                                                                         *)
(* An editor's request reads what it checks, outside any transaction, and  *)
(* then writes one row; only a deletion locks the row first.  The reads of *)
(* one request are one step.  A posting reads its accounts, inserts its    *)
(* lines (each holds its account's row against deletion) and commits.      *)
(***************************************************************************)
EXTENDS Reports

CONSTANTS
    Template,       \* the accounts there are at first: parent and postable
    MappingKeys,    \* kinds of automatic postings
    GroupTypeOf,    \* for the keys that map a group: its type
    Editors,        \* concurrent requests on the chart
    Posters,        \* concurrent postings
    Requests,       \* what editors may ask for
    Postings,       \* entries to post: an account or a mapping key on each side
    None,           \* no parent, no account
    Idle,           \* no request
    MaxEntries      \* bound on posted entries

ASSUME ChartAssumption ==
    /\ DOMAIN Template \subseteq Accounts
    /\ \A a \in DOMAIN Template :
         /\ Template[a].parent \in DOMAIN Template \cup {None}
         /\ Template[a].postable \in BOOLEAN
    /\ \A S \in SUBSET DOMAIN Template :         \* listed parents first: no circle
         S # {} => \E a \in S : Template[a].parent \notin S
    /\ None \notin Accounts
    /\ DOMAIN GroupTypeOf \subseteq MappingKeys
    /\ MaxEntries \in Nat /\ Editors \cap Posters = {}
    /\ \A r \in Requests :
         /\ r.account \in Accounts
         /\ r.op \in {"create", "move", "stop", "restart", "delete", "make_group", "map"}
         /\ r.op = "create" => r.postable \in BOOLEAN
         /\ r.op \in {"create", "move"} => r.parent \in Accounts \cup {None}
         /\ r.op = "stop" => r.acknowledged \in BOOLEAN
         /\ r.op = "map" => r.key \in MappingKeys
    /\ \A p \in Postings : /\ {p.debit, p.credit} \subseteq Accounts \cup MappingKeys
                           /\ p.date \in Dates /\ p.amount \in Nat \ {0}

VARIABLES
    chart,          \* existing accounts: parent, is_postable, is_active
    mapping,        \* the account of each kind of automatic posting
    txn             \* requests and postings on their way

vars == <<entries, chart, mapping, txn>>

Exists(a) == a \in DOMAIN chart
Children(a) == {b \in DOMAIN chart : chart[b].parent = a}

Init ==
    /\ entries = << >>
    /\ chart = [a \in DOMAIN Template |-> [parent |-> Template[a].parent, active |-> TRUE,
                                           postable |-> Template[a].postable]]
    /\ mapping = [k \in MappingKeys |-> None]
    /\ txn = [w \in Editors \cup Posters |-> Idle]

At(w, step) == txn[w] # Idle /\ txn[w].pc = step
Set(w, t) == txn' = [txn EXCEPT ![w] = t]
Proceed(w, next) == Set(w, [txn[w] EXCEPT !.pc = next]) /\ UNCHANGED <<entries, chart, mapping>>
Fail(w) == Set(w, Idle) /\ UNCHANGED <<entries, chart, mapping>>

(* Who holds the row of an account: postings not committed, or a deletion. *)
Inserting(a) == {w \in Posters : At(w, "commit") /\ a \in {txn[w].debit, txn[w].credit}}
Deleting(a) == {w \in Editors : At(w, "delete") /\ txn[w].request.account = a}

-----------------------------------------------------------------------------
(* What refers to an account *)

\* Mutant of UsageOf: the accounts below are forgotten.
UsageOfItself(a) ==
    {"lines" : e \in {e \in DOMAIN entries : a \in {entries[e].debit, entries[e].credit}}}
      \cup {"mappings" : k \in {k \in MappingKeys : mapping[k] = a}}

\* Mutant of UsageOf: the mappings are forgotten.
UsageInTheBooks(a) ==
    {"lines" : e \in {e \in DOMAIN entries : a \in {entries[e].debit, entries[e].credit}}}
      \cup {"children" : b \in Children(a)}

(* usageOf, and the foreign keys that refuse to delete what is referred to. *)
UsageOf(a) ==
    {"lines" : e \in {e \in DOMAIN entries : a \in {entries[e].debit, entries[e].credit}}}
      \cup {"mappings" : k \in {k \in MappingKeys : mapping[k] = a}}
      \cup {"children" : b \in Children(a)}

-----------------------------------------------------------------------------
(* The tree *)

(* The accounts met on the way up from a, itself included; the walk ends at
   the top, at an account that is gone or at one already seen.             *)
Above(a) ==
    LET up[n \in 0 .. Cardinality(Accounts)] ==
          IF n = 0 THEN {a}
          ELSE up[n - 1] \cup {chart[b].parent : b \in up[n - 1] \cap DOMAIN chart}
    IN up[Cardinality(Accounts)] \ {None}

Below(a) == {b \in DOMAIN chart : a \in Above(b)}

(* rollUpBalances: an account's own postings and those of all below it.    *)
RolledUp(a, own(_, _)) == Total(Below(a), LAMBDA b : own(b, Dates))

-----------------------------------------------------------------------------
(* Requests on the chart *)

IsGroup(p) == Exists(p) /\ ~chart[p].postable

\* Mutant of MayMove: only the account itself is refused as its new parent.
MayMoveAnywhere(a, p) ==
    p = None \/ (p # a /\ IsGroup(p) /\ TypeOf[p] = TypeOf[a])

(* Under a group of the same type, never under itself or below itself.     *)
MayMove(a, p) ==
    p = None \/ (p # a /\ IsGroup(p) /\ TypeOf[p] = TypeOf[a] /\ a \notin Above(p))

(* Not while an automatic posting depends on it or an account below it is
   active, nor with a balance unless the user acknowledges it.             *)
MayStop(a, acknowledged) ==
    /\ "mappings" \notin UsageOf(a)
    /\ ~\E b \in Children(a) : chart[b].active
    /\ acknowledged \/ Net(a, Dates) = 0

MayRestart(a) == Exists(chart[a].parent) => chart[chart[a].parent].active

(* A key is for a postable account, or for a group of a type.              *)
MayMap(k, a) ==
    IF k \in DOMAIN GroupTypeOf
    THEN ~chart[a].postable /\ TypeOf[a] = GroupTypeOf[k]
    ELSE chart[a].postable

(* What a request other than a deletion checks before it writes.           *)
Allowed(r) ==
    IF r.op = "create"
    THEN ~Exists(r.account) /\ (r.parent = None \/ IsGroup(r.parent))
    ELSE /\ Exists(r.account)
         /\ CASE r.op = "move" -> chart[r.account].parent # r.parent /\ MayMove(r.account, r.parent)
              [] r.op = "stop" -> chart[r.account].active /\ MayStop(r.account, r.acknowledged)
              [] r.op = "restart" -> ~chart[r.account].active /\ MayRestart(r.account)
              [] r.op = "make_group" ->
                   chart[r.account].postable /\ UsageOf(r.account) \subseteq {"children"}
              [] r.op = "map" -> MayMap(r.key, r.account)

(* A request that is turned down changes nothing.  A deletion checks after
   it has locked the account.                                              *)
Submit(w, r) ==
    /\ txn[w] = Idle
    /\ \/ r.op = "delete" /\ Set(w, [pc |-> "lock", request |-> r])
       \/ r.op # "delete" /\ Allowed(r) /\ Set(w, [pc |-> "write", request |-> r])
    /\ UNCHANGED <<entries, chart, mapping>>

(* The one statement that writes.  A row that a deletion holds makes it
   wait; what it refers to must exist (foreign keys), a new code is unique. *)
Write(w) ==
    LET r == txn[w].request
        a == r.account
        row == IF r.op = "create" THEN [parent |-> r.parent, postable |-> r.postable, active |-> TRUE]
               ELSE chart[a]
        refersTo == IF r.op \in {"create", "move"} THEN {r.parent} \ {None}
                    ELSE IF r.op = "map" THEN {a} ELSE {}
        written == [parent |-> IF r.op = "move" THEN r.parent ELSE row.parent,
                    postable |-> row.postable /\ r.op # "make_group",
                    active |-> r.op = "restart" \/ (row.active /\ r.op # "stop")]
        writable == /\ refersTo \subseteq DOMAIN chart
                    /\ r.op = "create" <=> ~Exists(a)
    IN
    /\ At(w, "write")
    /\ \A b \in refersTo \cup {a} : Deleting(b) = {}
    /\ \/ /\ writable
          /\ chart' = [b \in DOMAIN chart \cup {a} |-> IF b = a THEN written ELSE chart[b]]
          /\ mapping' = IF r.op = "map" THEN [mapping EXCEPT ![r.key] = a] ELSE mapping
          /\ Set(w, Idle)
          /\ UNCHANGED entries
       \/ ~writable /\ Fail(w)

(* delete: SELECT ... FOR UPDATE waits for postings on the account.        *)
LockAccount(w) ==
    LET a == txn[w].request.account IN
    /\ At(w, "lock")
    /\ \/ Exists(a) /\ Inserting(a) = {} /\ Deleting(a) = {} /\ Proceed(w, "delete")
       \/ ~Exists(a) /\ Fail(w)

DeleteAccount(w) ==
    LET a == txn[w].request.account IN
    /\ At(w, "delete")
    /\ \/ /\ UsageOf(a) = {}
          /\ chart' = [b \in DOMAIN chart \ {a} |-> chart[b]]
          /\ Set(w, Idle)
          /\ UNCHANGED <<entries, mapping>>
       \/ UsageOf(a) # {} /\ Fail(w)

-----------------------------------------------------------------------------
(* Postings *)

(* resolve: the account of a kind of automatic posting.                    *)
Resolve(x) == IF x \in MappingKeys THEN mapping[x] ELSE x

TakesPostings(a) == Exists(a) /\ chart[a].postable /\ chart[a].active

Room == Len(entries) + Cardinality({w \in Posters : txn[w] # Idle}) < MaxEntries

(* The engine reads the accounts of the lines.                             *)
SubmitPosting(w, p) ==
    LET debit == Resolve(p.debit)
        credit == Resolve(p.credit)
    IN
    /\ txn[w] = Idle /\ Room
    /\ TakesPostings(debit) /\ TakesPostings(credit)
    /\ Set(w, [pc |-> "insert", debit |-> debit, credit |-> credit,
               date |-> p.date, amount |-> p.amount])
    /\ UNCHANGED <<entries, chart, mapping>>

InsertLines(w) ==
    LET used == {txn[w].debit, txn[w].credit} IN
    /\ At(w, "insert")
    /\ \A a \in used : Deleting(a) = {}
    /\ \/ used \subseteq DOMAIN chart /\ Proceed(w, "commit")
       \/ ~(used \subseteq DOMAIN chart) /\ Fail(w)

CommitEntry(w) ==
    LET t == txn[w] IN
    /\ At(w, "commit")
    /\ entries' = Append(entries, [debit |-> t.debit, credit |-> t.credit,
                                   date |-> t.date, amount |-> t.amount])
    /\ Set(w, Idle)
    /\ UNCHANGED <<chart, mapping>>

(* An error in another step, a timeout or a crash before COMMIT.           *)
Rollback(w) == txn[w] # Idle /\ Fail(w)

Next ==
    \/ \E w \in Editors : \/ \E r \in Requests : Submit(w, r)
                          \/ Write(w) \/ LockAccount(w) \/ DeleteAccount(w)
    \/ \E w \in Posters : \/ \E p \in Postings : SubmitPosting(w, p)
                          \/ InsertLines(w) \/ CommitEntry(w)
    \/ \E w \in Editors \cup Posters : Rollback(w)

Spec == Init /\ [][Next]_vars

-----------------------------------------------------------------------------
(* What the chart must guarantee *)

(* Every variable holds a value of its kind, and whatever an entry, a
   mapping or an account refers to exists: a used account is never deleted,
   whoever posts, maps or moves at the same time (delete).                 *)
TypeOK ==
    /\ DOMAIN chart \subseteq Accounts
    /\ \A a \in DOMAIN chart : /\ chart[a].parent \in DOMAIN chart \cup {None}
                               /\ chart[a].postable \in BOOLEAN /\ chart[a].active \in BOOLEAN
    /\ mapping \in [MappingKeys -> DOMAIN chart \cup {None}]
    /\ \A e \in DOMAIN entries : {entries[e].debit, entries[e].credit} \subseteq DOMAIN chart

(* Every posted amount is in the totals of exactly one top-level account:
   moves, deletions and new groups never cut a branch off or close a circle
   (move, rollUpBalances).  Holds with one editor at a time.               *)
TotalsReachTheTop ==
    LET posted == Total(DOMAIN entries, Amount)
        top == {a \in DOMAIN chart : chart[a].parent = None}
    IN /\ Total(top, LAMBDA a : RolledUp(a, Debits)) = posted
       /\ Total(top, LAMBDA a : RolledUp(a, Credits)) = posted

(* An automatic posting finds an account that may take it and a group key a
   group, although mapped accounts may be made groups, stopped or deleted
   later (makeGroup, setActive, set).  Holds with one editor at a time.    *)
MappingsStayUsable ==
    \A k \in MappingKeys : mapping[k] # None =>
        (k \in DOMAIN GroupTypeOf <=> ~chart[mapping[k]].postable)

(* The statements agree for every period, whatever was posted, moved or
   stopped: the trial balance, the balance sheet and the cash-flow
   statement balance, and an account's running balance ends where the trial
   balance says (compute, computeForPeriod, statement).                    *)
StatementsAgree ==
    /\ BalanceSheetBalances
    /\ \A from, to \in Dates : from <= to =>
         /\ TrialBalanceBalances(from, to)
         /\ CashFlowBalances(from, to)
         /\ \A a \in Accounts : RunningBalance(a, from, to) = Net(a, UpTo(to))
=============================================================================
