------------------------------- MODULE Posting -------------------------------
(***************************************************************************)
(* The accounting engine (postEntry, reverseEntry), the document numbering *)
(* service and the ledger constraints of the database, as the statements   *)
(* of concurrent READ COMMITTED transactions.                              *)
(*                                                                         *)
(* A worker is one request: it submits a command, runs its statements one  *)
(* by one and commits, or fails and rolls everything back.  What it wrote  *)
(* but did not commit is its `draft`; `ledger`, `lastNumber` and           *)
(* `periodStatus` are the committed rows.  Row locks and uncommitted index *)
(* entries are seen in the workers' program counters: a worker at "insert" *)
(* or "commit" holds its series row, one at "commit" holds its key.        *)
(***************************************************************************)
EXTENDS Ledger

CONSTANTS
    Workers,        \* concurrent requests
    NoDraft,        \* the draft of an idle worker
    MaxEntries      \* bound: no request that adds an entry beyond this many

ASSUME PostingAssumption ==
    /\ MaxEntries \in Nat
    /\ NoDraft \notin Entry

VARIABLES
    ledger,         \* committed journal entries, by id
    lastNumber,     \* committed last_number of every series; 0: no row yet
    periodStatus,   \* status of every fiscal period
    pc,             \* the statement a worker is about to execute
    draft,          \* the entry a worker's transaction is building
    result,         \* the entry id a worker is about to answer with
    answers         \* history: every answer a client received

vars == <<ledger, lastNumber, periodStatus, pc, draft, result, answers>>
database == <<ledger, lastNumber, periodStatus>>

PCs == {"idle", "lookup", "check", "find", "number", "create", "insert",
        "commit", "reply"}
InTransaction == PCs \ {"idle", "reply"}
Answer == [key : Keys \cup {NoKey}, docType : DocTypes, entry : Nat, number : Nat]

(* Mutant of Holders: the series row is read without FOR UPDATE.           *)
NoRowLock(s) == {}

(* The workers whose open transaction has locked, or inserted, series s.   *)
Holders(s) == {w \in Workers : pc[w] \in {"insert", "commit"} /\ SeriesOf(draft[w]) = s}

(* Mutant of Inserters: (company, idempotency key) is not a unique index.   *)
NoUniqueKey(k) == {}

(* The workers whose open transaction has inserted an entry with key k.    *)
Inserters(k) == {w \in Workers : pc[w] = "commit" /\ draft[w].key = k}

Posted(k) == {i \in DOMAIN ledger : k # NoKey /\ ledger[i].key = k}

(* Room for one more entry besides those already on their way.             *)
Room == Len(ledger) + Cardinality({w \in Workers : pc[w] # "idle"}) < MaxEntries

Init ==
    /\ ledger = << >>
    /\ lastNumber = [s \in SeriesKeys |-> 0]
    /\ periodStatus = [p \in Periods |-> "OPEN"]
    /\ pc = [w \in Workers |-> "idle"]
    /\ draft = [w \in Workers |-> NoDraft]
    /\ result = [w \in Workers |-> 0]
    /\ answers = {}

GoTo(w, next) == pc' = [pc EXCEPT ![w] = next]

(* Mutant of Fail: the number was drawn outside the transaction.           *)
FailBurningNumber(w) ==
    /\ GoTo(w, "idle")
    /\ draft' = [draft EXCEPT ![w] = NoDraft]
    /\ lastNumber' = IF draft[w].number = 0 THEN lastNumber
                     ELSE [lastNumber EXCEPT ![SeriesOf(draft[w])] = draft[w].number]
    /\ UNCHANGED <<ledger, periodStatus, result, answers>>

(* The transaction is rolled back: nothing it wrote remains.               *)
Fail(w) ==
    /\ GoTo(w, "idle")
    /\ draft' = [draft EXCEPT ![w] = NoDraft]
    /\ UNCHANGED <<database, result, answers>>

-----------------------------------------------------------------------------
(* postEntry *)

DraftOf(c) ==
    [key |-> c.key, docType |-> c.docType, period |-> c.period,
     lines |-> [i \in DOMAIN c.lines |-> StoredLine(c.lines[i], c.rate)],
     reversalOf |-> 0, number |-> 0]

SubmitPosting(w, c) ==
    /\ pc[w] = "idle"
    /\ ValidShape(c.lines)
    /\ Room \/ Posted(c.key) # {}
    /\ GoTo(w, "lookup")
    /\ draft' = [draft EXCEPT ![w] = DraftOf(c)]
    /\ UNCHANGED <<database, result, answers>>

(* The replay check: a committed entry with this key is the answer.        *)
LookUpKey(w) ==
    /\ pc[w] = "lookup"
    /\ IF Posted(draft[w].key) = {}
       THEN GoTo(w, "check") /\ UNCHANGED result
       ELSE /\ GoTo(w, "reply")
            /\ \E i \in Posted(draft[w].key) : result' = [result EXCEPT ![w] = i]
    /\ UNCHANGED <<database, draft, answers>>

LinesPostable(lines) == \A i \in DOMAIN lines : lines[i].account \in PostableAccounts

CheckPeriodAndAccounts(w) ==
    /\ pc[w] = "check"
    /\ \/ /\ periodStatus[draft[w].period] = "OPEN"
          /\ LinesPostable(draft[w].lines)
          /\ GoTo(w, "number")
          /\ UNCHANGED <<database, draft, result, answers>>
       \/ /\ periodStatus[draft[w].period] # "OPEN" \/ ~LinesPostable(draft[w].lines)
          /\ Fail(w)

-----------------------------------------------------------------------------
(* reverseEntry *)

SubmitReversal(w, i) ==
    /\ pc[w] = "idle"
    /\ i \in DOMAIN ledger
    /\ Room
    /\ GoTo(w, "find")
    /\ draft' = [draft EXCEPT ![w] =
                   [key |-> NoKey, docType |-> ledger[i].docType,
                    period |-> ledger[i].period, lines |-> Mirror(ledger[i].lines),
                    reversalOf |-> i, number |-> 0]]
    /\ UNCHANGED <<database, result, answers>>

(* findOpenFiscalPeriod(today): today may fall into any period.            *)
FindOpenPeriod(w, p) ==
    /\ pc[w] = "find"
    /\ \/ /\ periodStatus[p] = "OPEN"
          /\ GoTo(w, "number")
          /\ draft' = [draft EXCEPT ![w].period = p]
          /\ UNCHANGED <<database, result, answers>>
       \/ /\ periodStatus[p] # "OPEN"
          /\ Fail(w)

-----------------------------------------------------------------------------
(* numbering.next, the inserts and the end of the transaction *)

(* Mutant of TakeNumberAfter: the number read is used, not the next one.   *)
TakeNumberRead(w, last) ==
    /\ draft' = [draft EXCEPT ![w].number = last]
    /\ GoTo(w, "insert")

(* The number after `last`, drawn in w's transaction.                      *)
TakeNumberAfter(w, last) ==
    /\ draft' = [draft EXCEPT ![w].number = last + 1]
    /\ GoTo(w, "insert")

(* SELECT ... FOR UPDATE waits for the holder of an existing row; without
   a committed row it returns nothing at once.                             *)
LockSeries(w) ==
    LET s == SeriesOf(draft[w]) IN
    /\ pc[w] = "number"
    /\ \/ /\ lastNumber[s] = 0
          /\ GoTo(w, "create")
          /\ UNCHANGED draft
       \/ /\ lastNumber[s] > 0
          /\ Holders(s) = {}
          /\ TakeNumberAfter(w, lastNumber[s])
    /\ UNCHANGED <<database, result, answers>>

(* Mutant of CreateSeries: the unique violation is swallowed.              *)
CreateSeriesOrStay(w) ==
    LET s == SeriesOf(draft[w]) IN
    /\ pc[w] = "create"
    /\ Holders(s) = {} /\ lastNumber[s] = 0
    /\ TakeNumberAfter(w, 0)
    /\ UNCHANGED <<database, result, answers>>

(* INSERT of the series row waits for a concurrent one on the unique index
   and fails when that one commits.                                        *)
CreateSeries(w) ==
    LET s == SeriesOf(draft[w]) IN
    /\ pc[w] = "create"
    /\ Holders(s) = {}
    /\ \/ /\ lastNumber[s] = 0
          /\ TakeNumberAfter(w, 0)
          /\ UNCHANGED <<database, result, answers>>
       \/ /\ lastNumber[s] > 0
          /\ Fail(w)

(* journalEntry.create with its period trigger and its unique key, then the
   lines with their CHECK constraints.                                     *)
InsertEntry(w) ==
    LET d == draft[w]
        open == periodStatus[d.period] = "OPEN"
        unique == Posted(d.key) = {}
        allowed == \A i \in DOMAIN d.lines : LineAllowed(d.lines[i])
    IN
    /\ pc[w] = "insert"
    /\ open => d.key = NoKey \/ Inserters(d.key) = {}
    /\ \/ /\ open /\ unique /\ allowed
          /\ GoTo(w, "commit")
          /\ UNCHANGED <<database, draft, result, answers>>
       \/ /\ ~(open /\ unique /\ allowed)
          /\ Fail(w)

(* COMMIT runs the deferred balance trigger.                               *)
Commit(w) ==
    LET d == draft[w] IN
    /\ pc[w] = "commit"
    /\ \/ /\ Balanced(d.lines)
          /\ ledger' = Append(ledger, d)
          /\ lastNumber' = [lastNumber EXCEPT ![SeriesOf(d)] = d.number]
          /\ result' = [result EXCEPT ![w] = Len(ledger) + 1]
          /\ GoTo(w, "reply")
          /\ UNCHANGED <<periodStatus, draft, answers>>
       \/ /\ ~Balanced(d.lines)
          /\ Fail(w)

(* A caller's later step throws, the transaction times out, or the process
   dies before COMMIT.                                                     *)
Rollback(w) == pc[w] \in InTransaction /\ Fail(w)

Done(w) ==
    /\ pc[w] = "reply"
    /\ GoTo(w, "idle")
    /\ draft' = [draft EXCEPT ![w] = NoDraft]
    /\ result' = [result EXCEPT ![w] = 0]
    /\ UNCHANGED database

Reply(w) ==
    /\ Done(w)
    /\ answers' = answers \cup
         {[key |-> draft[w].key, docType |-> draft[w].docType,
           entry |-> result[w], number |-> ledger[result[w]].number]}

(* The answer of a committed request never reaches its client.             *)
LoseReply(w) == Done(w) /\ UNCHANGED answers

(* Periods are closed and reopened from outside these packages.            *)
ClosePeriod(p) ==
    /\ periodStatus[p] = "OPEN"
    /\ periodStatus' = [periodStatus EXCEPT ![p] = "CLOSED"]
    /\ UNCHANGED <<ledger, lastNumber, pc, draft, result, answers>>

ReopenPeriod(p) ==
    /\ periodStatus[p] = "CLOSED"
    /\ periodStatus' = [periodStatus EXCEPT ![p] = "OPEN"]
    /\ UNCHANGED <<ledger, lastNumber, pc, draft, result, answers>>

-----------------------------------------------------------------------------

Submit(w) == \/ \E c \in Commands : SubmitPosting(w, c)
             \/ \E i \in DOMAIN ledger : SubmitReversal(w, i)

Advance(w) == \/ LookUpKey(w)
              \/ CheckPeriodAndAccounts(w)
              \/ \E p \in Periods : FindOpenPeriod(w, p)
              \/ Commit(w)
              \/ Reply(w)

Next == \/ \E w \in Workers :
             \/ Submit(w) \/ Advance(w) \/ LockSeries(w) \/ CreateSeries(w)
             \/ InsertEntry(w) \/ Rollback(w) \/ LoseReply(w)
        \/ \E p \in Periods : ClosePeriod(p) \/ ReopenPeriod(p)

Spec == Init /\ [][Next]_vars

(* A running transaction goes on; one that waits for a lock is served in
   turn, so it is not overtaken forever.                                   *)
Fairness == \A w \in Workers :
              /\ WF_vars(Advance(w))
              /\ SF_vars(LockSeries(w)) /\ SF_vars(CreateSeries(w))
              /\ SF_vars(InsertEntry(w))

FairSpec == Spec /\ Fairness

-----------------------------------------------------------------------------
(* What the engine must guarantee *)

(* Every variable holds a value of its kind; a posted entry has a number.  *)
TypeOK ==
    /\ ledger \in Seq(Entry)
    /\ \A i \in DOMAIN ledger : ledger[i].number > 0
    /\ lastNumber \in [SeriesKeys -> Nat]
    /\ periodStatus \in [Periods -> {"OPEN", "CLOSED", "LOCKED"}]
    /\ pc \in [Workers -> PCs]
    /\ draft \in [Workers -> Entry \cup {NoDraft}]
    /\ result \in [Workers -> Nat]
    /\ answers \subseteq Answer

(* Document numbers are gapless per type and fiscal year: the entries of a
   series carry exactly the numbers 1 .. last_number, each once, whatever
   was rolled back, raced or replayed (numbering.service.ts, docs/05 8).   *)
GaplessNumbering ==
    /\ \A i \in DOMAIN ledger : ledger[i].number \in 1 .. lastNumber[SeriesOf(ledger[i])]
    /\ \A s \in SeriesKeys : \A n \in 1 .. lastNumber[s] :
         \E i \in DOMAIN ledger : SeriesOf(ledger[i]) = s /\ ledger[i].number = n
    /\ \A i, j \in DOMAIN ledger :
         SeriesOf(ledger[i]) = SeriesOf(ledger[j]) /\ ledger[i].number = ledger[j].number
           => i = j

(* An idempotency key is posted at most once, even when its first use and
   its retries run at the same time (journal_entries unique index).        *)
OneEntryPerKey ==
    \A i, j \in DOMAIN ledger :
      ledger[i].key = ledger[j].key /\ ledger[i].key # NoKey => i = j

(* All answers to one key name the same entry and the same number: "a
   replay returns the original result" (postEntryIn, docs/04 6).           *)
OneAnswerPerKey ==
    \A a, b \in answers :
      a.key = b.key /\ a.key # NoKey => a.entry = b.entry /\ a.number = b.number

(* A reversal takes back exactly what its original did to every account, in
   both currencies (reverseEntry, docs/05 2).                              *)
NetOn(lines, a, plus, minus) ==
    LET on == {i \in DOMAIN lines : lines[i].account = a}
    IN SumFunction([i \in on |-> lines[i][plus] - lines[i][minus]])

ReversalCancels ==
    \A i \in DOMAIN ledger : ledger[i].reversalOf # 0 =>
      LET original == ledger[ledger[i].reversalOf].lines
          reversal == ledger[i].lines
      IN \A a \in Accounts :
           /\ NetOn(original, a, "debit", "credit") + NetOn(reversal, a, "debit", "credit") = 0
           /\ NetOn(original, a, "baseDebit", "baseCredit")
                + NetOn(reversal, a, "baseDebit", "baseCredit") = 0

(* The engine implements the ledger's contract: it only ever appends, one
   acceptable entry at a time (schema.prisma, docs/05 2).                  *)
Contract ==
    INSTANCE LedgerContract WITH
        ledger <- ledger, NoKey <- NoKey, SeriesOf <- SeriesOf,
        Balanced <- Balanced, Mirror <- Mirror
ImplementsContract == Contract!Spec

(* No request hangs: a lock or a unique index it waits for is released, so
   every request that was accepted ends (numbering.service.ts).            *)
RequestsEnd == \A w \in Workers : pc[w] # "idle" ~> pc[w] = "idle"

-----------------------------------------------------------------------------
(* What the documents say and the code does not do *)

(* "No posting into a closed period. Enforced at the database level"
   (docs/05 3): an entry that appears belongs to a period that is open.    *)
PostsOnlyIntoOpenPeriods ==
    [][Len(ledger') > Len(ledger) =>
         periodStatus[ledger'[Len(ledger')].period] = "OPEN"]_vars
=============================================================================
