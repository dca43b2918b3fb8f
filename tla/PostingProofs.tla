--------------------------- MODULE PostingProofs ---------------------------
(***************************************************************************)
(* Theorems of Posting, for any set of workers, keys, accounts, periods    *)
(* and commands.  IInv strengthens the invariants the runs check with what *)
(* a transaction has seen and holds at each of its steps; it is kept by    *)
(* every action, one lemma each, and implies the rest.                     *)
(***************************************************************************)
EXTENDS Posting, SumTheorems

-----------------------------------------------------------------------------
(* The operators of Ledger return values of their kind *)

(* An entry is numbered in one of the series.                             *)
LEMMA SeriesType ==
    ASSUME NEW e \in Entry
    PROVE  SeriesOf(e) \in SeriesKeys
  BY LedgerAssumption DEF Entry, SeriesOf, SeriesKeys

(* Rounding to what is stored gives an integer.                           *)
LEMMA NumericType ==
    ASSUME NEW n \in Int, NEW d \in Nat \ {0}
    PROVE  ToNumeric(n, d) \in Int
  BY DEF ToNumeric

(* A command's line is stored as a line of the ledger.                    *)
LEMMA StoredLineType ==
    ASSUME NEW l \in CommandLine, NEW r \in Rate
    PROVE  StoredLine(l, r) \in Line
  <1>1. /\ l.debit \in Int /\ l.credit \in Int /\ l.account \in Accounts
        /\ r.num \in Nat /\ r.den \in Nat \ {0} /\ Fine \in Nat \ {0}
    BY LedgerAssumption DEF CommandLine, Rate
  <1>2. /\ l.debit * r.num \in Int /\ l.credit * r.num \in Int
        /\ Fine * r.den \in Nat \ {0}
    BY <1>1
  <1>3. QED
    BY <1>1, <1>2, NumericType DEF StoredLine, Line

(* The draft of a command is an entry.                                    *)
LEMMA DraftType ==
    ASSUME NEW c \in Commands
    PROVE  DraftOf(c) \in Entry
  <1>1. c \in Command
    BY LedgerAssumption
  <1>2. DraftOf(c).lines \in Seq(Line)
    <2>1. c.lines \in Seq(CommandLine) /\ c.rate \in Rate
      BY <1>1 DEF Command
    <2>2. \A i \in DOMAIN c.lines : StoredLine(c.lines[i], c.rate) \in Line
      BY <2>1, StoredLineType
    <2>3. QED
      BY <2>1, <2>2 DEF DraftOf
  <1>3. QED
    BY <1>1, <1>2 DEF DraftOf, Entry, Command

(* The lines of a reversal are lines of the ledger.                       *)
LEMMA MirrorType ==
    ASSUME NEW s \in Seq(Line)
    PROVE  Mirror(s) \in Seq(Line)
  <1>1. ASSUME NEW i \in DOMAIN s PROVE MirrorLine(s[i]) \in Line
    <2>1. s[i] \in Line
      OBVIOUS
    <2>2. QED
      BY <2>1 DEF MirrorLine, Line
  <1>2. QED
    BY <1>1 DEF Mirror

-----------------------------------------------------------------------------
(* A worker at "insert" or "commit" holds its series row and drew the next
   number; one at "commit" alone has its key; a draft that reverses mirrors
   a posted entry; the answer about to be given is a posted entry.         *)
Holding(w) == pc[w] \in {"insert", "commit"}

DraftInv == \A w \in Workers : pc[w] # "idle" => draft[w] \in Entry

SeriesInv ==
    /\ \A w \in Workers : Holding(w) => draft[w].number = lastNumber[SeriesOf(draft[w])] + 1
    /\ \A v, w \in Workers :
         Holding(v) /\ Holding(w) /\ SeriesOf(draft[v]) = SeriesOf(draft[w]) => v = w

KeyInv ==
    \A w \in Workers : pc[w] = "commit" /\ draft[w].key # NoKey =>
      /\ Posted(draft[w].key) = {}
      /\ \A v \in Workers : pc[v] = "commit" /\ draft[v].key = draft[w].key => v = w

MirrorInv ==
    \A w \in Workers : pc[w] \in InTransaction /\ draft[w].reversalOf # 0 =>
      /\ draft[w].reversalOf \in DOMAIN ledger
      /\ draft[w].docType = ledger[draft[w].reversalOf].docType
      /\ draft[w].lines = Mirror(ledger[draft[w].reversalOf].lines)

ResultInv ==
    \A w \in Workers : pc[w] = "reply" =>
      /\ result[w] \in DOMAIN ledger
      /\ ledger[result[w]].key = draft[w].key

AnswerInv ==
    \A a \in answers : /\ a.entry \in DOMAIN ledger
                       /\ ledger[a.entry].key = a.key
                       /\ ledger[a.entry].number = a.number

IInv == /\ TypeOK /\ DraftInv
        /\ GaplessNumbering /\ SeriesInv
        /\ OneEntryPerKey /\ KeyInv
        /\ MirrorInv /\ ResultInv /\ AnswerInv

(* The empty ledger without transactions satisfies the invariant.         *)
LEMMA Initially == Init => IInv
  <1>1. SUFFICES ASSUME Init PROVE IInv
    OBVIOUS
  <1>2. TypeOK
    BY <1>1 DEF Init, TypeOK, PCs, Answer
  <1>3. GaplessNumbering
    BY <1>1 DEF Init, GaplessNumbering
  <1>4. QED
    BY <1>1, <1>2, <1>3 DEF Init, IInv, DraftInv, SeriesInv, Holding, OneEntryPerKey,
      KeyInv, MirrorInv, InTransaction, ResultInv, AnswerInv

(* A step of w that leaves the committed rows alone and does not leave w
   holding a lock.                                                         *)
Quiet(w, q, d, r) ==
    /\ pc' = [pc EXCEPT ![w] = q]
    /\ draft' = [draft EXCEPT ![w] = d]
    /\ result' = [result EXCEPT ![w] = r]
    /\ ledger' = ledger /\ lastNumber' = lastNumber /\ periodStatus' = periodStatus
    /\ q \in PCs \ {"insert", "commit"}
    /\ d \in Entry \cup {NoDraft}
    /\ q # "idle" => d \in Entry
    /\ r \in Nat

(* A step that writes nothing but its own draft keeps the invariant.     *)
LEMMA QuietStep ==
    ASSUME IInv, NEW w \in Workers, NEW q, NEW d, NEW r, Quiet(w, q, d, r),
           q \in InTransaction /\ d.reversalOf # 0 =>
             /\ d.reversalOf \in DOMAIN ledger
             /\ d.docType = ledger[d.reversalOf].docType
             /\ d.lines = Mirror(ledger[d.reversalOf].lines),
           q = "reply" => r \in DOMAIN ledger /\ ledger[r].key = d.key,
           answers' \subseteq Answer, AnswerInv'
    PROVE  IInv'
  <1>. USE DEF IInv, Quiet
  <1>1. TypeOK'
    BY DEF TypeOK
  <1>2. DraftInv'
    BY DEF DraftInv, TypeOK
  <1>3. GaplessNumbering' /\ OneEntryPerKey'
    BY DEF GaplessNumbering, OneEntryPerKey
  <1>4. SeriesInv'
    BY DEF SeriesInv, Holding, TypeOK
  <1>5. KeyInv'
    BY DEF KeyInv, TypeOK, Posted
  <1>6. MirrorInv'
    BY DEF MirrorInv, TypeOK
  <1>7. ResultInv'
    BY DEF ResultInv, TypeOK
  <1>8. QED
    BY <1>1, <1>2, <1>3, <1>4, <1>5, <1>6, <1>7

(* A request that fails, before or after it took a number, leaves the
   tables as they were.                                                   *)
LEMMA FailStep ==
    ASSUME IInv, NEW w \in Workers, Fail(w)
    PROVE  IInv'
  <1>1. Quiet(w, "idle", NoDraft, result[w])
    BY DEF IInv, TypeOK, Fail, GoTo, Quiet, PCs, database
  <1>2. answers' \subseteq Answer /\ AnswerInv'
    BY DEF IInv, TypeOK, Fail, AnswerInv, database
  <1>3. QED
    BY <1>1, <1>2, QuietStep DEF InTransaction

(* A new posting request starts with the draft of its command.            *)
LEMMA SubmitPostingStep ==
    ASSUME IInv, NEW w \in Workers, NEW c \in Commands, SubmitPosting(w, c)
    PROVE  IInv'
  <1>1. DraftOf(c) \in Entry /\ DraftOf(c).reversalOf = 0
    BY DraftType DEF DraftOf
  <1>2. Quiet(w, "lookup", DraftOf(c), result[w])
    BY <1>1 DEF IInv, TypeOK, SubmitPosting, GoTo, Quiet, PCs, database
  <1>3. answers' \subseteq Answer /\ AnswerInv'
    BY DEF IInv, TypeOK, SubmitPosting, AnswerInv, database
  <1>4. QED
    BY <1>1, <1>2, <1>3, QuietStep

(* A new reversal mirrors an entry that is posted.                        *)
LEMMA SubmitReversalStep ==
    ASSUME IInv, NEW w \in Workers, NEW i \in DOMAIN ledger, SubmitReversal(w, i)
    PROVE  IInv'
  <1>. DEFINE d == [key |-> NoKey, docType |-> ledger[i].docType,
                    period |-> ledger[i].period, lines |-> Mirror(ledger[i].lines),
                    reversalOf |-> i, number |-> 0]
  <1>1. d \in Entry
    <2>1. ledger[i] \in Entry /\ i \in Nat
      BY DEF IInv, TypeOK
    <2>2. Mirror(ledger[i].lines) \in Seq(Line)
      BY <2>1, MirrorType DEF Entry
    <2>3. QED
      BY <2>1, <2>2 DEF Entry
  <1>2. Quiet(w, "find", d, result[w])
    BY <1>1 DEF IInv, TypeOK, SubmitReversal, GoTo, Quiet, PCs, database
  <1>3. answers' \subseteq Answer /\ AnswerInv'
    BY DEF IInv, TypeOK, SubmitReversal, AnswerInv, database
  <1>4. QED
    BY <1>1, <1>2, <1>3, QuietStep

(* A key that was posted is answered from the ledger, another goes on.    *)
LEMMA LookUpKeyStep ==
    ASSUME IInv, NEW w \in Workers, LookUpKey(w)
    PROVE  IInv'
  <1>1. draft[w] \in Entry /\ draft' = [draft EXCEPT ![w] = draft[w]]
    BY DEF IInv, TypeOK, DraftInv, LookUpKey
  <1>2. answers' \subseteq Answer /\ AnswerInv'
    BY DEF IInv, TypeOK, LookUpKey, AnswerInv, database
  <1>3. PICK q \in {"check", "reply"}, r \in Nat :
          /\ Quiet(w, q, draft[w], r)
          /\ q = "reply" => r \in DOMAIN ledger /\ ledger[r].key = draft[w].key
    <2>1. CASE Posted(draft[w].key) = {}
      <3>1. Quiet(w, "check", draft[w], result[w])
        BY <1>1, <2>1 DEF IInv, TypeOK, LookUpKey, GoTo, Quiet, PCs, database
      <3>2. QED
        BY <3>1 DEF IInv, TypeOK
    <2>2. CASE Posted(draft[w].key) # {}
      <3>1. PICK i \in Posted(draft[w].key) : result' = [result EXCEPT ![w] = i]
        BY <2>2 DEF LookUpKey
      <3>2. i \in DOMAIN ledger /\ i \in Nat /\ ledger[i].key = draft[w].key
        BY <3>1 DEF Posted, IInv, TypeOK
      <3>3. Quiet(w, "reply", draft[w], i)
        BY <1>1, <2>2, <3>1, <3>2 DEF IInv, TypeOK, LookUpKey, GoTo, Quiet, PCs, database
      <3>4. QED
        BY <3>2, <3>3
    <2>3. QED
      BY <2>1, <2>2
  <1>4. pc[w] \in InTransaction
    BY DEF LookUpKey, InTransaction, PCs
  <1>5. QED
    BY <1>1, <1>2, <1>3, <1>4, QuietStep DEF IInv, MirrorInv

(* Reading the period and the accounts changes nothing but the step.      *)
LEMMA CheckStep ==
    ASSUME IInv, NEW w \in Workers, CheckPeriodAndAccounts(w)
    PROVE  IInv'
  <1>1. CASE Fail(w)
    BY <1>1, FailStep
  <1>2. CASE ~Fail(w)
    <2>1. draft[w] \in Entry /\ pc[w] \in InTransaction
      BY DEF IInv, DraftInv, CheckPeriodAndAccounts, InTransaction, PCs
    <2>2. Quiet(w, "number", draft[w], result[w])
      BY <1>2, <2>1 DEF IInv, TypeOK, CheckPeriodAndAccounts, GoTo, Quiet, PCs, database
    <2>3. answers' \subseteq Answer /\ AnswerInv'
      BY <1>2 DEF IInv, TypeOK, CheckPeriodAndAccounts, AnswerInv, database
    <2>4. QED
      BY <2>1, <2>2, <2>3, QuietStep DEF IInv, MirrorInv
  <1>3. QED
    BY <1>1, <1>2

(* Finding the open period of a reversal only sets it in the request's    *)
(* own draft; without one the request fails.                              *)
LEMMA FindStep ==
    ASSUME IInv, NEW w \in Workers, NEW p \in Periods, FindOpenPeriod(w, p)
    PROVE  IInv'
  <1>1. CASE Fail(w)
    BY <1>1, FailStep
  <1>2. CASE ~Fail(w)
    <2>. DEFINE d == [draft[w] EXCEPT !.period = p]
    <2>1. draft[w] \in Entry /\ pc[w] \in InTransaction
      BY DEF IInv, DraftInv, FindOpenPeriod, InTransaction, PCs
    <2>2. d \in Entry /\ d.reversalOf = draft[w].reversalOf
          /\ d.docType = draft[w].docType /\ d.lines = draft[w].lines
      BY <2>1 DEF Entry
    <2>3. Quiet(w, "number", d, result[w])
      BY <1>2, <2>2 DEF IInv, TypeOK, FindOpenPeriod, GoTo, Quiet, PCs, database
    <2>4. answers' \subseteq Answer /\ AnswerInv'
      BY <1>2 DEF IInv, TypeOK, FindOpenPeriod, AnswerInv, database
    <2>5. QED
      BY <2>1, <2>2, <2>3, <2>4, QuietStep DEF IInv, MirrorInv
  <1>3. QED
    BY <1>1, <1>2

(* Answering, or losing the answer, ends a transaction that has
   committed.                                                             *)
LEMMA DoneStep ==
    ASSUME IInv, NEW w \in Workers, Reply(w) \/ LoseReply(w)
    PROVE  IInv'
  <1>1. Quiet(w, "idle", NoDraft, 0)
    BY DEF IInv, TypeOK, Reply, LoseReply, Done, GoTo, Quiet, PCs, database
  <1>2. answers' \subseteq Answer /\ AnswerInv'
    <2>1. CASE LoseReply(w)
      BY <2>1 DEF IInv, TypeOK, AnswerInv, LoseReply, Done, database
    <2>2. CASE Reply(w)
      <3>. DEFINE a == [key |-> draft[w].key, docType |-> draft[w].docType,
                        entry |-> result[w], number |-> ledger[result[w]].number]
      <3>1. /\ draft[w] \in Entry /\ result[w] \in DOMAIN ledger
            /\ ledger[result[w]].key = draft[w].key /\ ledger[result[w]] \in Entry
        BY <2>2 DEF IInv, DraftInv, ResultInv, TypeOK, Reply, Done
      <3>2. answers' = answers \cup {a} /\ ledger' = ledger
        BY <2>2 DEF Reply, Done, database
      <3>3. a \in Answer
        BY <3>1 DEF Answer, Entry, IInv, TypeOK
      <3>4. QED
        BY <3>1, <3>2, <3>3 DEF IInv, TypeOK, AnswerInv
    <2>3. QED
      BY <2>1, <2>2
  <1>3. QED
    BY <1>1, <1>2, QuietStep DEF InTransaction

(* Nobody holds the series w is after, so the number it takes is the next. *)
LEMMA TakeNumberStep ==
    ASSUME IInv, NEW w \in Workers, pc[w] \in {"number", "create"},
           Holders(SeriesOf(draft[w])) = {},
           TakeNumberAfter(w, lastNumber[SeriesOf(draft[w])]),
           UNCHANGED <<database, result, answers>>
    PROVE  IInv'
  <1>. DEFINE s == SeriesOf(draft[w])
              d == [draft[w] EXCEPT !.number = lastNumber[s] + 1]
  <1>1. draft[w] \in Entry /\ s \in SeriesKeys /\ lastNumber[s] \in Nat
    BY SeriesType DEF IInv, DraftInv, TypeOK
  <1>2. /\ d \in Entry /\ SeriesOf(d) = s /\ d.number = lastNumber[s] + 1
        /\ d.lines = draft[w].lines /\ d.docType = draft[w].docType
        /\ d.reversalOf = draft[w].reversalOf
    BY <1>1 DEF Entry, SeriesOf
  <1>3. /\ pc' = [pc EXCEPT ![w] = "insert"] /\ draft' = [draft EXCEPT ![w] = d]
        /\ ledger' = ledger /\ lastNumber' = lastNumber /\ periodStatus' = periodStatus
        /\ result' = result /\ answers' = answers
    BY DEF TakeNumberAfter, GoTo, database
  <1>4. TypeOK' /\ DraftInv'
    BY <1>2, <1>3 DEF IInv, TypeOK, DraftInv, PCs
  <1>5. SeriesInv'
    <2>1. \A v \in Workers : Holding(v) => SeriesOf(draft[v]) # s
      BY DEF Holders, Holding
    <2>2. \A v \in Workers : v # w => draft'[v] = draft[v] /\ (Holding(v)' <=> Holding(v))
      BY <1>3 DEF IInv, TypeOK, Holding
    <2>3. draft'[w] = d
      BY <1>3 DEF IInv, TypeOK
    <2>. HIDE DEF s, d
    <2>4. \A v \in Workers : Holding(v)' =>
            /\ draft'[v].number = lastNumber[SeriesOf(draft'[v])] + 1
            /\ v # w => Holding(v) /\ draft'[v] = draft[v] /\ SeriesOf(draft'[v]) # s
      BY <1>2, <2>1, <2>2, <2>3 DEF IInv, SeriesInv
    <2>5. SeriesOf(draft'[w]) = s
      BY <1>2, <2>3
    <2>6. \A u, v \in Workers :
            Holding(u)' /\ Holding(v)' /\ SeriesOf(draft'[u]) = SeriesOf(draft'[v]) => u = v
      <3>1. SUFFICES ASSUME NEW u \in Workers, NEW v \in Workers, Holding(u)', Holding(v)',
                            SeriesOf(draft'[u]) = SeriesOf(draft'[v]), u # v
                     PROVE  FALSE
        OBVIOUS
      <3>2. CASE u = w \/ v = w
        BY <2>4, <2>5, <3>1, <3>2
      <3>3. CASE u # w /\ v # w
        BY <2>4, <3>1, <3>3 DEF IInv, SeriesInv
      <3>4. QED
        BY <3>2, <3>3
    <2>7. QED
      BY <1>3, <2>4, <2>6 DEF SeriesInv, SeriesOf
  <1>6. KeyInv' /\ ResultInv'
    BY <1>3 DEF IInv, TypeOK, KeyInv, ResultInv, Posted
  <1>7. MirrorInv'
    BY <1>2, <1>3 DEF IInv, TypeOK, MirrorInv, InTransaction, PCs
  <1>8. GaplessNumbering' /\ OneEntryPerKey' /\ AnswerInv'
    BY <1>3 DEF IInv, GaplessNumbering, OneEntryPerKey, AnswerInv
  <1>9. QED
    BY <1>4, <1>5, <1>6, <1>7, <1>8 DEF IInv

(* Taking the next number under the lock of an existing series row.       *)
LEMMA LockSeriesStep ==
    ASSUME IInv, NEW w \in Workers, LockSeries(w)
    PROVE  IInv'
  <1>1. CASE TakeNumberAfter(w, lastNumber[SeriesOf(draft[w])]) /\ Holders(SeriesOf(draft[w])) = {}
    BY <1>1, TakeNumberStep DEF LockSeries
  <1>2. CASE GoTo(w, "create") /\ UNCHANGED draft
    <2>1. draft[w] \in Entry /\ pc[w] \in InTransaction
      BY DEF IInv, DraftInv, LockSeries, InTransaction, PCs
    <2>2. Quiet(w, "create", draft[w], result[w])
      BY <1>2, <2>1 DEF IInv, TypeOK, LockSeries, GoTo, Quiet, PCs, database
    <2>3. answers' \subseteq Answer /\ AnswerInv'
      BY DEF IInv, TypeOK, LockSeries, AnswerInv, database
    <2>4. QED
      BY <2>1, <2>2, <2>3, QuietStep DEF IInv, MirrorInv
  <1>3. QED
    BY <1>1, <1>2 DEF LockSeries

(* Creating the series row, or losing the race for it.                    *)
LEMMA CreateSeriesStep ==
    ASSUME IInv, NEW w \in Workers, CreateSeries(w)
    PROVE  IInv'
  <1>1. CASE Fail(w)
    BY <1>1, FailStep
  <1>2. CASE ~Fail(w)
    BY <1>2, TakeNumberStep DEF CreateSeries
  <1>3. QED
    BY <1>1, <1>2

(* Inserting the entry, when nobody else holds its key, or failing because *)
(* the key has been posted meanwhile.                                     *)
LEMMA InsertStep ==
    ASSUME IInv, NEW w \in Workers, InsertEntry(w)
    PROVE  IInv'
  <1>1. CASE Fail(w)
    BY <1>1, FailStep
  <1>2. CASE ~Fail(w)
    <2>1. /\ pc[w] = "insert" /\ pc' = [pc EXCEPT ![w] = "commit"]
          /\ Posted(draft[w].key) = {}
          /\ draft[w].key = NoKey \/ Inserters(draft[w].key) = {}
          /\ draft' = draft /\ ledger' = ledger /\ lastNumber' = lastNumber
          /\ periodStatus' = periodStatus /\ result' = result /\ answers' = answers
      BY <1>2 DEF InsertEntry, GoTo, database
    <2>2. TypeOK' /\ DraftInv'
      BY <2>1 DEF IInv, TypeOK, DraftInv, PCs
    <2>3. SeriesInv'
      <3>1. \A v \in Workers : Holding(v)' <=> Holding(v)
        BY <2>1 DEF IInv, TypeOK, Holding
      <3>2. QED
        BY <2>1, <3>1 DEF IInv, SeriesInv
    <2>4. KeyInv'
      <3>1. \A v \in Workers : pc'[v] = "commit" <=> v = w \/ pc[v] = "commit"
        BY <2>1 DEF IInv, TypeOK
      <3>2. draft[w].key # NoKey =>
              \A v \in Workers : pc[v] = "commit" => draft[v].key # draft[w].key
        BY <2>1 DEF Inserters
      <3>3. QED
        BY <2>1, <3>1, <3>2 DEF IInv, KeyInv, Posted
    <2>5. MirrorInv' /\ ResultInv'
      BY <2>1 DEF IInv, TypeOK, MirrorInv, ResultInv, InTransaction, PCs
    <2>6. GaplessNumbering' /\ OneEntryPerKey' /\ AnswerInv'
      BY <2>1 DEF IInv, GaplessNumbering, OneEntryPerKey, AnswerInv
    <2>7. QED
      BY <2>2, <2>3, <2>4, <2>5, <2>6 DEF IInv
  <1>3. QED
    BY <1>1, <1>2

(* Closing and reopening a period touches no transaction and no entry.    *)
LEMMA PeriodStep ==
    ASSUME IInv, NEW p \in Periods, ClosePeriod(p) \/ ReopenPeriod(p)
    PROVE  IInv'
  <1>1. /\ periodStatus' \in [Periods -> {"OPEN", "CLOSED", "LOCKED"}]
        /\ ledger' = ledger /\ lastNumber' = lastNumber /\ pc' = pc /\ draft' = draft
        /\ result' = result /\ answers' = answers
    BY DEF IInv, TypeOK, ClosePeriod, ReopenPeriod
  <1>2. QED
    BY <1>1 DEF IInv, TypeOK, DraftInv, GaplessNumbering, SeriesInv, Holding, OneEntryPerKey,
      KeyInv, Posted, MirrorInv, ResultInv, AnswerInv

(* The entry at the end of the ledger after a commit of w.                 *)
Committing(w) ==
    /\ pc[w] = "commit" /\ Balanced(draft[w].lines)
    /\ ledger' = Append(ledger, draft[w])
    /\ lastNumber' = [lastNumber EXCEPT ![SeriesOf(draft[w])] = draft[w].number]
    /\ result' = [result EXCEPT ![w] = Len(ledger) + 1]
    /\ pc' = [pc EXCEPT ![w] = "reply"]
    /\ periodStatus' = periodStatus /\ draft' = draft /\ answers' = answers

(* A commit posts the draft or fails.                                     *)
LEMMA CommitCases ==
    ASSUME NEW w \in Workers, Commit(w)
    PROVE  Committing(w) \/ Fail(w)
  BY DEF Commit, Committing, GoTo

(* A commit appends one entry and keeps the others.                       *)
LEMMA CommitExtends ==
    ASSUME IInv, NEW w \in Workers, Committing(w)
    PROVE  /\ draft[w] \in Entry /\ SeriesOf(draft[w]) \in SeriesKeys
           /\ lastNumber[SeriesOf(draft[w])] \in Nat
           /\ draft[w].number = lastNumber[SeriesOf(draft[w])] + 1
           /\ ledger' \in Seq(Entry) /\ Len(ledger') = Len(ledger) + 1
           /\ Len(ledger) \in Nat /\ DOMAIN ledger = 1 .. Len(ledger)
           /\ DOMAIN ledger' = 1 .. (Len(ledger) + 1)
           /\ ledger'[Len(ledger) + 1] = draft[w]
           /\ \A i \in DOMAIN ledger : i # Len(ledger) + 1 /\ ledger'[i] = ledger[i]
  <1>1. draft[w] \in Entry /\ ledger \in Seq(Entry)
    BY DEF IInv, TypeOK, DraftInv, Committing
  <1>2. SeriesOf(draft[w]) \in SeriesKeys
    BY <1>1, SeriesType
  <1>3. /\ lastNumber[SeriesOf(draft[w])] \in Nat
        /\ draft[w].number = lastNumber[SeriesOf(draft[w])] + 1
    BY <1>2 DEF IInv, TypeOK, SeriesInv, Holding, Committing
  <1>4. ledger' = Append(ledger, draft[w])
    BY DEF Committing
  <1>5. QED
    BY <1>1, <1>2, <1>3, <1>4

(* A commit keeps the invariant: the entry has the next number of its
   series, a key nobody posted, and balances.                             *)
LEMMA CommitStep ==
    ASSUME IInv, NEW w \in Workers, Committing(w)
    PROVE  IInv'
  <1>. DEFINE e == draft[w]
              s == SeriesOf(e)
              n == Len(ledger) + 1
  <1>1. /\ e \in Entry /\ s \in SeriesKeys /\ lastNumber[s] \in Nat
        /\ e.number = lastNumber[s] + 1
        /\ ledger' \in Seq(Entry) /\ n \in Nat \ {0}
        /\ DOMAIN ledger = 1 .. (n - 1) /\ DOMAIN ledger' = 1 .. n
        /\ ledger'[n] = e
        /\ \A i \in DOMAIN ledger : i # n /\ ledger'[i] = ledger[i]
    BY CommitExtends
  <1>2. \A i \in DOMAIN ledger' : i = n \/ i \in DOMAIN ledger
    BY <1>1
  <1>3. /\ lastNumber' = [lastNumber EXCEPT ![s] = e.number]
        /\ lastNumber' \in [SeriesKeys -> Nat] /\ lastNumber'[s] = e.number
        /\ \A t \in SeriesKeys \ {s} : lastNumber'[t] = lastNumber[t]
    BY <1>1 DEF IInv, TypeOK, Committing
  <1>4. /\ pc[w] = "commit" /\ pc' = [pc EXCEPT ![w] = "reply"]
        /\ result' = [result EXCEPT ![w] = n]
        /\ draft' = draft /\ answers' = answers /\ periodStatus' = periodStatus
    BY DEF Committing
  <1>. HIDE DEF e, s, n
  <1>5. TypeOK'
    <2>1. \A i \in DOMAIN ledger' : ledger'[i].number > 0
      BY <1>1, <1>2 DEF IInv, TypeOK
    <2>2. /\ pc' \in [Workers -> PCs] /\ result' \in [Workers -> Nat]
          /\ draft' \in [Workers -> Entry \cup {NoDraft}] /\ answers' \subseteq Answer
          /\ periodStatus' \in [Periods -> {"OPEN", "CLOSED", "LOCKED"}]
      BY <1>1, <1>4 DEF IInv, TypeOK, PCs
    <2>3. QED
      BY <1>1, <1>3, <2>1, <2>2 DEF TypeOK
  <1>6. DraftInv'
    BY <1>4 DEF IInv, TypeOK, DraftInv
  <1>7. \A i \in DOMAIN ledger : /\ ledger[i] \in Entry /\ SeriesOf(ledger[i]) \in SeriesKeys
                                 /\ ledger[i].number \in 1 .. lastNumber[SeriesOf(ledger[i])]
    BY SeriesType DEF IInv, TypeOK, GaplessNumbering
  <1>8. GaplessNumbering'
    <2>1. \A i \in DOMAIN ledger' : ledger'[i].number \in 1 .. lastNumber'[SeriesOf(ledger'[i])]
      <3>1. SUFFICES ASSUME NEW i \in DOMAIN ledger'
                     PROVE  ledger'[i].number \in 1 .. lastNumber'[SeriesOf(ledger'[i])]
        OBVIOUS
      <3>2. CASE i = n
        BY <1>1, <1>3, <3>2 DEF s
      <3>3. CASE i \in DOMAIN ledger /\ SeriesOf(ledger[i]) = s
        BY <1>1, <1>3, <1>7, <3>3
      <3>4. CASE i \in DOMAIN ledger /\ SeriesOf(ledger[i]) # s
        BY <1>1, <1>3, <1>7, <3>4
      <3>5. QED
        BY <1>2, <3>2, <3>3, <3>4
    <2>2. \A t \in SeriesKeys : \A m \in 1 .. lastNumber'[t] :
            \E i \in DOMAIN ledger' : SeriesOf(ledger'[i]) = t /\ ledger'[i].number = m
      <3>1. SUFFICES ASSUME NEW t \in SeriesKeys, NEW m \in 1 .. lastNumber'[t]
                     PROVE  \E i \in DOMAIN ledger' :
                              SeriesOf(ledger'[i]) = t /\ ledger'[i].number = m
        OBVIOUS
      <3>2. CASE t = s /\ m = e.number
        BY <1>1, <3>2 DEF s
      <3>3. CASE m \in 1 .. lastNumber[t]
        <4>1. PICK i \in DOMAIN ledger : SeriesOf(ledger[i]) = t /\ ledger[i].number = m
          BY <3>3 DEF IInv, GaplessNumbering
        <4>2. i \in DOMAIN ledger' /\ ledger'[i] = ledger[i]
          BY <1>1, <4>1
        <4>3. QED
          BY <4>1, <4>2
      <3>4. CASE t = s /\ m \notin 1 .. lastNumber[t]
        <4>1. m = e.number
          BY <1>1, <1>3, <3>4
        <4>2. QED
          BY <3>2, <3>4, <4>1
      <3>5. CASE t # s
        <4>1. m \in 1 .. lastNumber[t]
          BY <1>3, <3>5
        <4>2. QED
          BY <3>3, <4>1
      <3>6. QED
        BY <3>3, <3>4, <3>5
    <2>3. \A i, j \in DOMAIN ledger' :
            SeriesOf(ledger'[i]) = SeriesOf(ledger'[j]) /\ ledger'[i].number = ledger'[j].number
              => i = j
      <3>1. SUFFICES ASSUME NEW i \in DOMAIN ledger', NEW j \in DOMAIN ledger', i # j,
                            SeriesOf(ledger'[i]) = SeriesOf(ledger'[j]),
                            ledger'[i].number = ledger'[j].number
                     PROVE  FALSE
        OBVIOUS
      <3>2. \A k \in DOMAIN ledger : SeriesOf(ledger[k]) = s => ledger[k].number # e.number
        BY <1>1, <1>7
      <3>3. CASE i = n \/ j = n
        BY <1>1, <1>2, <3>1, <3>2, <3>3 DEF s
      <3>4. CASE i # n /\ j # n
        BY <1>1, <1>2, <3>1, <3>4 DEF IInv, GaplessNumbering
      <3>5. QED
        BY <3>3, <3>4
    <2>4. QED
      BY <2>1, <2>2, <2>3 DEF GaplessNumbering, SeriesOf
  <1>9. SeriesInv'
    <2>1. \A v \in Workers : Holding(v)' => Holding(v) /\ v # w /\ draft'[v] = draft[v]
      BY <1>4 DEF IInv, TypeOK, Holding
    <2>2. \A v \in Workers : Holding(v)' => SeriesOf(draft[v]) # s /\ SeriesOf(draft[v]) \in SeriesKeys
      <3>1. \A v \in Workers : Holding(v) => draft[v] \in Entry
        BY DEF IInv, DraftInv, Holding
      <3>2. Holding(w)
        BY <1>4 DEF Holding
      <3>3. QED
        BY <2>1, <3>1, <3>2, SeriesType DEF IInv, SeriesInv, s, e
    <2>3. \A v \in Workers : Holding(v)' =>
            draft[v].number = lastNumber'[SeriesOf(draft[v])] + 1
      BY <1>3, <2>1, <2>2 DEF IInv, SeriesInv
    <2>4. QED
      BY <1>4, <2>1, <2>3 DEF IInv, SeriesInv, SeriesOf
  <1>10. OneEntryPerKey'
    <2>1. e.key # NoKey => \A i \in DOMAIN ledger : ledger[i].key # e.key
      BY <1>4 DEF IInv, KeyInv, Posted, e
    <2>2. QED
      BY <1>1, <1>2, <2>1 DEF IInv, OneEntryPerKey
  <1>11. KeyInv'
    <2>1. \A v \in Workers : pc'[v] = "commit" => pc[v] = "commit" /\ v # w
      BY <1>4 DEF IInv, TypeOK
    <2>2. \A v \in Workers : pc'[v] = "commit" /\ draft[v].key # NoKey => draft[v].key # e.key
      BY <1>4, <2>1 DEF IInv, KeyInv, e
    <2>3. \A v \in Workers : pc'[v] = "commit" /\ draft[v].key # NoKey =>
            \A i \in DOMAIN ledger' : ledger'[i].key # draft[v].key
      BY <1>1, <1>2, <2>1, <2>2 DEF IInv, KeyInv, Posted
    <2>4. QED
      BY <1>4, <2>1, <2>3 DEF IInv, KeyInv, Posted
  <1>12. MirrorInv' /\ ResultInv' /\ AnswerInv'
    <2>1. MirrorInv'
      <3>1. \A v \in Workers : pc'[v] \in InTransaction => pc[v] \in InTransaction
        BY <1>4 DEF IInv, TypeOK, InTransaction
      <3>2. QED
        BY <1>1, <1>4, <3>1 DEF IInv, MirrorInv
    <2>2. ResultInv'
      <3>1. SUFFICES ASSUME NEW v \in Workers, pc'[v] = "reply"
                     PROVE  result'[v] \in DOMAIN ledger' /\ ledger'[result'[v]].key = draft'[v].key
        BY DEF ResultInv
      <3>2. CASE v = w
        <4>1. result'[w] = n
          BY <1>4 DEF IInv, TypeOK
        <4>2. QED
          BY <1>1, <1>4, <3>2, <4>1 DEF e
      <3>3. CASE v # w
        <4>1. result'[v] = result[v] /\ pc[v] = "reply"
          BY <1>4, <3>1, <3>3 DEF IInv, TypeOK
        <4>2. result[v] \in DOMAIN ledger /\ ledger[result[v]].key = draft[v].key
          BY <4>1 DEF IInv, ResultInv
        <4>3. result[v] \in DOMAIN ledger' /\ ledger'[result[v]] = ledger[result[v]]
          BY <1>1, <4>2
        <4>4. QED
          BY <1>4, <4>1, <4>2, <4>3
      <3>4. QED
        BY <3>2, <3>3
    <2>3. AnswerInv'
      BY <1>1, <1>4 DEF IInv, AnswerInv
    <2>4. QED
      BY <2>1, <2>2, <2>3
  <1>13. QED
    BY <1>5, <1>6, <1>8, <1>9, <1>10, <1>11, <1>12 DEF IInv

(* Every step keeps the invariant.                                        *)
LEMMA Inductive == IInv /\ [Next]_vars => IInv'
  <1>. SUFFICES ASSUME IInv, [Next]_vars PROVE IInv'
    OBVIOUS
  <1>1. CASE UNCHANGED vars
    <2>1. TypeOK' /\ DraftInv' /\ GaplessNumbering' /\ SeriesInv'
      <3>1. /\ ledger' = ledger /\ lastNumber' = lastNumber /\ periodStatus' = periodStatus
            /\ pc' = pc /\ draft' = draft /\ result' = result /\ answers' = answers
        BY <1>1 DEF vars
      <3>2. TypeOK' /\ DraftInv'
        BY <3>1 DEF IInv, TypeOK, DraftInv
      <3>3. GaplessNumbering'
        BY <3>1 DEF IInv, GaplessNumbering
      <3>4. SeriesInv'
        BY <3>1 DEF IInv, SeriesInv, Holding
      <3>5. QED
        BY <3>2, <3>3, <3>4
    <2>2. OneEntryPerKey' /\ KeyInv'
      BY <1>1 DEF IInv, OneEntryPerKey, KeyInv, Posted, vars
    <2>3. MirrorInv' /\ ResultInv' /\ AnswerInv'
      BY <1>1 DEF IInv, MirrorInv, ResultInv, AnswerInv, vars
    <2>4. QED
      BY <2>1, <2>2, <2>3 DEF IInv
  <1>2. ASSUME NEW w \in Workers, Submit(w) PROVE IInv'
    BY <1>2, SubmitPostingStep, SubmitReversalStep DEF Submit
  <1>3. ASSUME NEW w \in Workers, Commit(w) PROVE IInv'
    BY <1>3, CommitCases, CommitStep, FailStep
  <1>4. ASSUME NEW w \in Workers, Advance(w) PROVE IInv'
    BY <1>3, <1>4, LookUpKeyStep, CheckStep, FindStep, DoneStep DEF Advance
  <1>5. ASSUME NEW w \in Workers,
               LockSeries(w) \/ CreateSeries(w) \/ InsertEntry(w) \/ Rollback(w) \/ LoseReply(w)
        PROVE  IInv'
    BY <1>5, LockSeriesStep, CreateSeriesStep, InsertStep, FailStep, DoneStep DEF Rollback
  <1>6. ASSUME NEW p \in Periods, ClosePeriod(p) \/ ReopenPeriod(p) PROVE IInv'
    BY <1>6, PeriodStep
  <1>7. QED
    BY <1>1, <1>2, <1>4, <1>5, <1>6 DEF Next

(* So it always holds.                                                    *)
LEMMA Invariance == Spec => []IInv
  BY Initially, Inductive, PTL DEF Spec

(* Every variable always holds a value of its kind.                        *)
THEOREM TypeCorrect == Spec => []TypeOK
  <1>1. IInv => TypeOK
    BY DEF IInv
  <1>2. QED
    BY Invariance, <1>1, PTL

(* Document numbers are gapless and unique in every series.                *)
THEOREM NumberingIsGapless == Spec => []GaplessNumbering
  <1>1. IInv => GaplessNumbering
    BY DEF IInv
  <1>2. QED
    BY Invariance, <1>1, PTL

(* An idempotency key is posted at most once.                              *)
THEOREM KeysPostOnce == Spec => []OneEntryPerKey
  <1>1. IInv => OneEntryPerKey
    BY DEF IInv
  <1>2. QED
    BY Invariance, <1>1, PTL

(* All answers to a key name the same entry and number.                    *)
THEOREM ReplaysAnswerAlike == Spec => []OneAnswerPerKey
  <1>1. IInv => OneAnswerPerKey
    BY DEF IInv, OneEntryPerKey, AnswerInv, OneAnswerPerKey
  <1>2. QED
    BY Invariance, <1>1, PTL

-----------------------------------------------------------------------------
(* The engine implements the ledger's contract *)

(* A commit is a post of the contract.                                    *)
LEMMA CommitPosts ==
    ASSUME IInv, NEW w \in Workers, Committing(w)
    PROVE  Contract!Post
  <1>. DEFINE e == draft[w]
              s == SeriesOf(e)
  <1>1. /\ e \in Entry /\ s \in SeriesKeys /\ lastNumber[s] \in Nat
        /\ e.number = lastNumber[s] + 1 /\ Len(ledger') = Len(ledger) + 1
        /\ ledger'[Len(ledger')] = e /\ ledger' = Append(ledger, e)
    BY CommitExtends DEF Committing
  <1>. HIDE DEF e, s
  <1>2. \A n \in Nat : n \in Contract!NumbersUsed(s) <=> n \in 1 .. lastNumber[s]
    <2>1. Contract!NumbersUsed(s) =
            {ledger[i].number : i \in {j \in DOMAIN ledger : SeriesOf(ledger[j]) = s}}
      BY DEF Contract!NumbersUsed
    <2>2. ASSUME NEW i \in DOMAIN ledger, SeriesOf(ledger[i]) = s
          PROVE  ledger[i].number \in 1 .. lastNumber[s]
      BY <2>2 DEF IInv, GaplessNumbering
    <2>3. ASSUME NEW n \in 1 .. lastNumber[s]
          PROVE  \E i \in DOMAIN ledger : SeriesOf(ledger[i]) = s /\ ledger[i].number = n
      BY <1>1, <2>3 DEF IInv, GaplessNumbering
    <2>4. QED
      BY <2>1, <2>2, <2>3
  <1>3. Contract!NextNumber(e)
    <2>1. SeriesOf(e) = s
      BY DEF SeriesOf, s
    <2>2. e.number \in Nat \ {0} /\ e.number \notin 1 .. lastNumber[s]
          /\ \A n \in 1 .. (e.number - 1) : n \in Nat /\ n \in 1 .. lastNumber[s]
      BY <1>1
    <2>3. QED
      BY <1>2, <2>1, <2>2 DEF Contract!NextNumber
  <1>4. Contract!FreshKey(e)
    BY DEF Contract!FreshKey, IInv, KeyInv, Posted, Committing, e
  <1>5. Contract!MirrorsItsOriginal(e)
    <2>1. pc[w] \in InTransaction
      BY DEF Committing, InTransaction, PCs
    <2>2. QED
      BY <2>1 DEF Contract!MirrorsItsOriginal, IInv, MirrorInv, e
  <1>6. Balanced(e.lines)
    BY DEF Committing, e
  <1>7. QED
    BY <1>1, <1>3, <1>4, <1>5, <1>6 DEF Contract!Post, Contract!Acceptable

(* Only a commit changes the ledger.                                       *)
LEMMA StepsOfTheLedger == IInv /\ [Next]_vars => [Contract!Post]_ledger
  <1>. SUFFICES ASSUME IInv, [Next]_vars, ledger' # ledger PROVE Contract!Post
    OBVIOUS
  <1>1. \A w \in Workers : Fail(w) \/ Reply(w) \/ LoseReply(w) => ledger' = ledger
    BY DEF Fail, Reply, LoseReply, Done, database
  <1>2. \A w \in Workers : Submit(w) \/ LookUpKey(w) => ledger' = ledger
    BY DEF Submit, SubmitPosting, SubmitReversal, LookUpKey, database
  <1>3. \A w \in Workers : CheckPeriodAndAccounts(w) \/ LockSeries(w) => ledger' = ledger
    BY <1>1 DEF CheckPeriodAndAccounts, LockSeries, database
  <1>4. \A w \in Workers : \A p \in Periods : FindOpenPeriod(w, p) => ledger' = ledger
    BY <1>1 DEF FindOpenPeriod, database
  <1>5. \A w \in Workers : CreateSeries(w) \/ InsertEntry(w) \/ Rollback(w) => ledger' = ledger
    BY <1>1 DEF CreateSeries, InsertEntry, Rollback, database
  <1>6. \A p \in Periods : ClosePeriod(p) \/ ReopenPeriod(p) => ledger' = ledger
    BY DEF ClosePeriod, ReopenPeriod
  <1>7. UNCHANGED vars => ledger' = ledger
    BY DEF vars
  <1>8. PICK w \in Workers : Commit(w)
    BY <1>1, <1>2, <1>3, <1>4, <1>5, <1>6, <1>7 DEF Next, Advance
  <1>9. QED
    BY <1>1, <1>8, CommitCases, CommitPosts

(* Every behaviour of the engine is one the ledger's contract allows.      *)
THEOREM EngineImplementsContract == Spec => ImplementsContract
  <1>1. Init => Contract!Init
    BY DEF Init, Contract!Init
  <1>2. QED
    BY Invariance, <1>1, StepsOfTheLedger, PTL DEF Spec, ImplementsContract, Contract!Spec

-----------------------------------------------------------------------------
(* Reversals *)

(* A posted reversal mirrors an entry posted before it.                    *)
Mirrored ==
    \A i \in DOMAIN ledger : ledger[i].reversalOf # 0 =>
      /\ ledger[i].reversalOf \in DOMAIN ledger
      /\ ledger[i].lines = Mirror(ledger[ledger[i].reversalOf].lines)

(* The contract only takes reversals that do, and never changes an entry.  *)
LEMMA PostKeepsMirrored ==
    ASSUME TypeOK, TypeOK', Mirrored, Contract!Post
    PROVE  Mirrored'
  <1>1. PICK n : n = Len(ledger')
    OBVIOUS
  <1>2. /\ Len(ledger') = Len(ledger) + 1 /\ Len(ledger) \in Nat
        /\ ledger' = Append(ledger, ledger'[n])
        /\ Contract!MirrorsItsOriginal(ledger'[n])
    BY <1>1 DEF Contract!Post, Contract!Acceptable, TypeOK
  <1>3. /\ DOMAIN ledger = 1 .. Len(ledger) /\ DOMAIN ledger' = 1 .. n
        /\ \A i \in DOMAIN ledger : i \in DOMAIN ledger' /\ ledger'[i] = ledger[i]
        /\ \A i \in DOMAIN ledger' : i = n \/ i \in DOMAIN ledger
    <2>1. ledger \in Seq(Entry) /\ ledger' \in Seq(Entry)
      BY DEF TypeOK
    <2>2. DOMAIN ledger = 1 .. Len(ledger) /\ DOMAIN ledger' = 1 .. n /\ n = Len(ledger) + 1
      BY <1>1, <1>2, <2>1
    <2>3. PICK e : e = ledger'[n]
      OBVIOUS
    <2>4. e \in Entry /\ ledger' = Append(ledger, e)
      BY <1>2, <2>1, <2>2, <2>3
    <2>5. \A i \in DOMAIN ledger : ledger'[i] = ledger[i]
      BY <2>1, <2>4
    <2>6. QED
      BY <1>2, <2>2, <2>5
  <1>4. ASSUME NEW i \in DOMAIN ledger', ledger'[i].reversalOf # 0
        PROVE  /\ ledger'[i].reversalOf \in DOMAIN ledger
               /\ ledger'[i].lines = Mirror(ledger[ledger'[i].reversalOf].lines)
    <2>1. CASE i = n
      BY <1>2, <1>4, <2>1 DEF Contract!MirrorsItsOriginal
    <2>2. CASE i \in DOMAIN ledger
      BY <1>3, <1>4, <2>2 DEF Mirrored
    <2>3. QED
      BY <1>3, <2>1, <2>2
  <1>5. QED
    BY <1>3, <1>4 DEF Mirrored

(* Lines and their mirror are worth nothing together, on every account.    *)
LEMMA MirrorCancels ==
    ASSUME NEW lines \in Seq(Line), NEW a,
           NEW plus \in {"debit", "baseDebit"}, NEW minus \in {"credit", "baseCredit"},
           plus = "debit" <=> minus = "credit"
    PROVE  NetOn(lines, a, plus, minus) + NetOn(Mirror(lines), a, plus, minus) = 0
  <1>1. PICK on, m : /\ on = {i \in DOMAIN lines : lines[i].account = a}
                     /\ m = Mirror(lines)
    OBVIOUS
  <1>2. DOMAIN m = DOMAIN lines /\ \A i \in DOMAIN lines : m[i] = MirrorLine(lines[i])
    BY <1>1 DEF Mirror
  <1>3. on = {i \in DOMAIN m : m[i].account = a}
    BY <1>1, <1>2 DEF MirrorLine
  <1>4. PICK f, g, z : /\ f = [i \in on |-> lines[i][plus] - lines[i][minus]]
                       /\ g = [i \in on |-> m[i][plus] - m[i][minus]]
                       /\ z = [i \in on |-> 0]
    OBVIOUS
  <1>5. IsFiniteSet(on)
    <2>1. Len(lines) \in Nat /\ on \in SUBSET (1 .. Len(lines))
      BY <1>1
    <2>2. IsFiniteSet(1 .. Len(lines))
      BY <2>1, FS_Interval
    <2>3. QED
      BY <2>1, <2>2, FS_Subset
  <1>6. ASSUME NEW i \in on
        PROVE  f[i] \in Int /\ g[i] \in Int /\ z[i] = f[i] + g[i] /\ z[i] = 0
    <2>1. PICK p, q : p = lines[i][plus] /\ q = lines[i][minus]
      OBVIOUS
    <2>2. lines[i] \in Line /\ i \in DOMAIN lines
      BY <1>1
    <2>3. p \in Int /\ q \in Int
      BY <2>1, <2>2 DEF Line
    <2>4. m[i][plus] = q /\ m[i][minus] = p
      BY <1>2, <2>1, <2>2 DEF MirrorLine
    <2>5. f[i] = p - q /\ g[i] = q - p /\ z[i] = 0
      BY <1>4, <2>1, <2>4
    <2>6. QED
      BY <2>3, <2>5
  <1>7. Adds(on, f, g, z)
    BY <1>4, <1>5, <1>6 DEF Adds
  <1>8. SumFunction(z) = SumFunction(f) + SumFunction(g)
    BY <1>7, SumAdds
  <1>9. SumFunction(z) = 0
    BY <1>4, <1>5, SumZero
  <1>10. NetOn(lines, a, plus, minus) = SumFunction(f) /\ NetOn(m, a, plus, minus) = SumFunction(g)
    BY <1>1, <1>3, <1>4 DEF NetOn
  <1>11. QED
    BY <1>1, <1>8, <1>9, <1>10

(* A reversal takes back exactly what its original did to every account, in
   both currencies, whatever else is posted or reversed (reverseEntry).    *)
THEOREM ReversalsCancel == Spec => []ReversalCancels
  <1>1. Init => Mirrored
    BY DEF Init, Mirrored
  <1>2. IInv /\ IInv' /\ Mirrored /\ [Next]_vars => Mirrored'
    <2>1. SUFFICES ASSUME IInv, IInv', Mirrored, [Next]_vars PROVE Mirrored'
      OBVIOUS
    <2>2. CASE ledger' = ledger
      BY <2>1, <2>2 DEF Mirrored
    <2>3. CASE Contract!Post
      BY <2>1, <2>3, PostKeepsMirrored DEF IInv
    <2>4. QED
      BY <2>1, <2>2, <2>3, StepsOfTheLedger
  <1>3. IInv /\ Mirrored => ReversalCancels
    <2>1. SUFFICES ASSUME IInv, Mirrored, NEW i \in DOMAIN ledger, ledger[i].reversalOf # 0,
                          NEW a \in Accounts,
                          NEW original, original = ledger[ledger[i].reversalOf].lines
                   PROVE  /\ NetOn(original, a, "debit", "credit")
                               + NetOn(ledger[i].lines, a, "debit", "credit") = 0
                          /\ NetOn(original, a, "baseDebit", "baseCredit")
                               + NetOn(ledger[i].lines, a, "baseDebit", "baseCredit") = 0
      BY DEF ReversalCancels
    <2>2. original \in Seq(Line) /\ ledger[i].lines = Mirror(original)
      <3>1. ledger[i].reversalOf \in DOMAIN ledger /\ ledger[i].lines = Mirror(original)
        BY <2>1 DEF Mirrored
      <3>2. ledger[ledger[i].reversalOf] \in Entry
        BY <2>1, <3>1 DEF IInv, TypeOK
      <3>3. QED
        BY <2>1, <3>1, <3>2 DEF Entry
    <2>3. QED
      BY <2>2, MirrorCancels
  <1>4. QED
    BY <1>1, <1>2, <1>3, Invariance, PTL DEF Spec
=============================================================================
