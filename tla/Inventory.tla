------------------------------ MODULE Inventory ------------------------------
(***************************************************************************)
(* Goods receipts, stock issues and stock counts (packages/core/src/       *)
(* inventory): each document is one READ COMMITTED transaction that locks  *)
(* a stock row per line, posts through the accounting engine and stores    *)
(* the document.  `stock` .. `counts` are the committed tables; what a     *)
(* transaction wrote and did not commit is in its record `txn[w]`.         *)
(*                                                                         *)
(* The statements of postEntry are modelled one by one in Posting; here    *)
(* the engine is its replay check and its insert.                          *)
(***************************************************************************)
EXTENDS WeightedAverage, Sequences, FiniteSets, SequencesExt

CONSTANTS
    Workers,        \* concurrent requests
    Rows,           \* stock rows: item and warehouse
    Keys,           \* idempotency keys
    CountKeys,      \* those sent with the posting of a count
    RetriedKeys,    \* those a client may send more than once
    Documents,      \* goods receipts and stock issues that may be submitted
    CountSheets,    \* stock counts that may be recorded
    Years,          \* fiscal years
    Idle,           \* the transaction of a worker without one
    MaxPosted,      \* bound on posted documents and counts
    MaxRecorded     \* bound on recorded counts

Types == {"goods_receipt", "stock_issue", "stock_count"}
ReceiptLine == [row : Rows, quantity : Nat, cost : Nat]
IssueLine == [row : Rows, quantity : Nat]
SheetLine == [row : Rows, counted : Nat, costIfNone : Int]    \* negative: not given

ASSUME InventoryAssumption ==
    /\ Documents \subseteq
         [type : {"goods_receipt"}, year : Years, key : Keys, lines : Seq(ReceiptLine)]
           \cup [type : {"stock_issue"}, year : Years, key : Keys, lines : Seq(IssueLine)]
    /\ CountSheets \subseteq [year : Years, lines : Seq(SheetLine)]
    /\ RetriedKeys \subseteq Keys /\ CountKeys \subseteq Keys /\ IsFiniteSet(Rows)
    /\ MaxPosted \in Nat /\ MaxRecorded \in Nat

VARIABLES
    stock,          \* item_warehouse_stock: quantity and value of every row
    moved,          \* sum of the stock movements of every row
    entries,        \* journal entries: key, source, year, number, change of Inventory
    lastNumber,     \* last number of every series: document type and year
    documents,      \* posted goods receipts and stock issues
    counts,         \* stock counts, recorded or posted
    txn             \* the open transactions

tables == <<stock, moved, entries, lastNumber, documents, counts>>
vars == <<tables, txn>>

Begin(type, year, key, lines, count) ==
    [pc |-> "line", type |-> type, year |-> year, key |-> key, lines |-> lines, count |-> count,
     next |-> 1,            \* the line to process
     rows |-> << >>,        \* rows locked so far, as written by this transaction
     up |-> 0, down |-> 0,  \* value added to, taken from Inventory
     moves |-> [r \in Rows |-> 0],
     entry |-> 0,           \* the entry found by the replay check
     number |-> 0]

Active == {w \in Workers : txn[w] # Idle}
At(w, step) == txn[w] # Idle /\ txn[w].pc = step
Set(w, t) == txn' = [txn EXCEPT ![w] = t]

(* Mutant of Fail: the error is caught and the step tried again.            *)
RetryForever(w) == UNCHANGED vars

(* The error leaves the transaction callback: everything is rolled back.   *)
Fail(w) == Set(w, Idle) /\ UNCHANGED tables

(* Mutant of Locked: the rows are read without FOR UPDATE.                 *)
LockedByNobody(r) == {}

(* The transactions that hold the lock of row r, of a type's series, or
   have inserted an entry with key k.                                      *)
Locked(r) == {w \in Active : r \in DOMAIN txn[w].rows}
Numbering(type, year) ==
    {w \in Active : txn[w].type = type /\ txn[w].year = year /\ txn[w].number > 0}
Posting(k) == {w \in Active : txn[w].key = k /\ txn[w].number > 0}
Posted(k) == {i \in DOMAIN entries : entries[i].key = k}

(* A client sends a key again only as a retry.                             *)
MaySend(k) == \/ k \in RetriedKeys
              \/ Posted(k) = {} /\ \A v \in Active : txn[v].key # k

Room == Len(documents) + Cardinality({c \in DOMAIN counts : counts[c].posted})
          + Cardinality(Active) < MaxPosted

Init ==
    /\ stock = [r \in Rows |-> Nothing]
    /\ moved = [r \in Rows |-> 0]
    /\ entries = << >>
    /\ lastNumber = [s \in Types \X Years |-> 0]
    /\ documents = << >>
    /\ counts = << >>
    /\ txn = [w \in Workers |-> Idle]

-----------------------------------------------------------------------------
(* Starting a document *)

Submit(w, d) ==
    /\ txn[w] = Idle /\ Room /\ MaySend(d.key)
    /\ d.lines # << >>
    /\ Set(w, Begin(d.type, d.year, d.key, d.lines, 0))
    /\ UNCHANGED tables

CountIsOpen(c) == ~counts[c].posted

(* stockCount.post reads the count without locking it.                     *)
SubmitPost(w, c, k) ==
    /\ txn[w] = Idle /\ Room /\ MaySend(k)
    /\ CountIsOpen(c)
    /\ Set(w, Begin("stock_count", counts[c].year, k, counts[c].lines, c))
    /\ UNCHANGED tables

-----------------------------------------------------------------------------
(* One line: lock its stock row, apply it, write the row *)

(* The row as this transaction sees it.                                    *)
RowSeenBy(w, r) == IF r \in DOMAIN txn[w].rows THEN txn[w].rows[r] ELSE stock[r]

(* The transaction after it wrote `after` to row r.                        *)
Wrote(t, r, after, up, down, move) ==
    [t EXCEPT !.next = t.next + 1,
              !.rows = [q \in DOMAIN t.rows \cup {r} |-> IF q = r THEN after ELSE t.rows[q]],
              !.up = t.up + up, !.down = t.down + down, !.moves[r] = t.moves[r] + move]

ReceiveLine(w, l, s) ==
    \/ /\ l.quantity > 0
       /\ Set(w, Wrote(txn[w], l.row, Received(s, l.quantity, l.cost),
                       LineValue(l.quantity, l.cost), 0, l.quantity))
       /\ UNCHANGED tables
    \/ l.quantity = 0 /\ Fail(w)

IssueOneLine(w, l, s) ==
    \/ /\ CanIssue(s, l.quantity)
       /\ Set(w, Wrote(txn[w], l.row, AfterIssue(s, l.quantity),
                       0, IssuedValue(s, l.quantity), -l.quantity))
       /\ UNCHANGED tables
    \/ ~CanIssue(s, l.quantity) /\ Fail(w)

AdjustLine(w, l, s) ==
    LET v == VarianceValue(s, l.counted, l.cost) IN
    /\ Set(w, Wrote(txn[w], l.row, Counted(s, l.counted, l.cost),
                    AtLeastZero(v), AtLeastZero(-v), Variance(s, l.counted)))
    /\ UNCHANGED tables

Line(w) ==
    /\ At(w, "line") /\ txn[w].next <= Len(txn[w].lines)
    /\ LET l == txn[w].lines[txn[w].next]
           s == RowSeenBy(w, l.row)
       IN /\ Locked(l.row) \subseteq {w}
          /\ \/ txn[w].type = "goods_receipt" /\ ReceiveLine(w, l, s)
             \/ txn[w].type = "stock_issue" /\ IssueOneLine(w, l, s)
             \/ txn[w].type = "stock_count" /\ AdjustLine(w, l, s)

-----------------------------------------------------------------------------
(* postEntry in the document's transaction *)

NothingVaried(t) == t.type = "stock_count" /\ t.up = 0 /\ t.down = 0

(* validateShape turns a document without value down; then the key is
   looked up.  A count without variance is not posted at all.              *)
LookUpKey(w) ==
    LET t == txn[w] IN
    /\ At(w, "line") /\ t.next > Len(t.lines)
    /\ \/ /\ NothingVaried(t)
          /\ Set(w, [t EXCEPT !.pc = "store"])
          /\ UNCHANGED tables
       \/ /\ ~NothingVaried(t) /\ t.up = 0 /\ t.down = 0
          /\ Fail(w)
       \/ /\ t.up > 0 \/ t.down > 0
          /\ \/ /\ Posted(t.key) = {}
                /\ Set(w, [t EXCEPT !.pc = "post"])
             \/ \E i \in Posted(t.key) : Set(w, [t EXCEPT !.pc = "store", !.entry = i])
          /\ UNCHANGED tables

(* numbering.next under the series' row lock, then journalEntry.create
   under the unique index on the key.                                      *)
PostEntry(w) ==
    LET t == txn[w] IN
    /\ At(w, "post")
    /\ Numbering(t.type, t.year) = {} /\ Posting(t.key) = {}
    /\ \/ /\ Posted(t.key) = {}
          /\ Set(w, [t EXCEPT !.pc = "store", !.number = lastNumber[<<t.type, t.year>>] + 1])
          /\ UNCHANGED tables
       \/ Posted(t.key) # {} /\ Fail(w)

-----------------------------------------------------------------------------
(* Storing the document and COMMIT *)

(* Mutant of NewEntry: gains and losses are netted the wrong way round.    *)
SwappedEntry(t) == [key |-> t.key, type |-> t.type, year |-> t.year, count |-> t.count,
                    number |-> t.number, inventory |-> t.down - t.up]

NewEntry(t) == [key |-> t.key, type |-> t.type, year |-> t.year, count |-> t.count,
                number |-> t.number, inventory |-> t.up - t.down]

(* The stock rows, the entry and its number, as every document commits them. *)
CommitStock(t) ==
    stock' = [r \in Rows |-> IF r \in DOMAIN t.rows THEN t.rows[r] ELSE stock[r]]

CommitEntry(t) ==
    IF t.number = 0 THEN UNCHANGED <<entries, lastNumber>>
    ELSE /\ entries' = Append(entries, NewEntry(t))
         /\ lastNumber' = [lastNumber EXCEPT ![<<t.type, t.year>>] = t.number]

(* The movements of a document that has an entry.                          *)
CommitMovements(t) ==
    moved' = IF NothingVaried(t) THEN moved ELSE [r \in Rows |-> moved[r] + t.moves[r]]

DocumentNumber(t) == IF t.number > 0 THEN t.number ELSE entries[t.entry].number

(* Mutant of NumberTaken: (company, number) is not a unique index.         *)
NeverTaken(t) == FALSE

NumberTaken(t) == \E i \in DOMAIN documents :
                    documents[i].type = t.type /\ documents[i].number = DocumentNumber(t)

(* A receipt or an issue is numbered like its entry; (company, number) is
   unique.                                                                 *)
StoreDocument(w, type) ==
    LET t == txn[w] IN
    /\ At(w, "store") /\ t.type = type
    /\ \/ /\ ~NumberTaken(t)
          /\ CommitStock(t) /\ CommitEntry(t) /\ CommitMovements(t)
          /\ documents' = Append(documents,
               [type |-> t.type, year |-> t.year, number |-> DocumentNumber(t),
                value |-> t.up - t.down,
                entry |-> IF t.number > 0 THEN Len(entries) + 1 ELSE t.entry])
          /\ Set(w, Idle)
          /\ UNCHANGED counts
       \/ NumberTaken(t) /\ Fail(w)

StoreReceipt(w) == StoreDocument(w, "goods_receipt")
StoreIssue(w) == StoreDocument(w, "stock_issue")

StoreCount(w) ==
    LET t == txn[w] IN
    /\ At(w, "store") /\ t.type = "stock_count"
    /\ CommitStock(t) /\ CommitEntry(t) /\ CommitMovements(t)
    /\ counts' = [counts EXCEPT ![t.count].posted = TRUE]
    /\ Set(w, Idle)
    /\ UNCHANGED documents

(* stockCount.record: the books are read without a lock; the count's number
   comes from the series its journal entry will draw from as well.         *)
RecordCount(sheet) ==
    LET number == lastNumber[<<"stock_count", sheet.year>>] + 1 IN
    /\ Len(counts) < MaxRecorded
    /\ Numbering("stock_count", sheet.year) = {}
    /\ \A i \in DOMAIN sheet.lines :
         stock[sheet.lines[i].row].quantity = 0 => sheet.lines[i].costIfNone >= 0
    /\ \A c \in DOMAIN counts : counts[c].number # number
    /\ counts' = Append(counts,
         [posted |-> FALSE, year |-> sheet.year, number |-> number,
          lines |-> [i \in DOMAIN sheet.lines |->
            LET l == sheet.lines[i] IN
            [row |-> l.row, counted |-> l.counted,
             cost |-> IF stock[l.row].quantity > 0 THEN AverageUnitCost(stock[l.row])
                      ELSE l.costIfNone]]])
    /\ lastNumber' = [lastNumber EXCEPT ![<<"stock_count", sheet.year>>] = number]
    /\ UNCHANGED <<stock, moved, entries, documents, txn>>

-----------------------------------------------------------------------------
(* Waiting and failing *)

(* The worker that w waits for: the holder of the next row or of the series. *)
WaitsFor(w) ==
    IF At(w, "line") /\ txn[w].next <= Len(txn[w].lines)
    THEN Locked(txn[w].lines[txn[w].next].row) \ {w}
    ELSE IF At(w, "post") THEN (Numbering(txn[w].type, txn[w].year) \cup Posting(txn[w].key)) \ {w}
    ELSE {}

(* w is on a smallest circle of transactions that wait for each other.     *)
Circle(S) == S # {} /\ \A v \in S : WaitsFor(v) \cap S # {}
Deadlocked(w) ==
    \E S \in SUBSET Workers :
      /\ w \in S /\ Circle(S)
      /\ \A T \in SUBSET S : Circle(T) => T = S

(* PostgreSQL ends one of the transactions on such a circle.               *)
BreakDeadlock(w) == Deadlocked(w) /\ Fail(w)

(* An error in another step, a timeout or a crash before COMMIT.           *)
Rollback(w) == txn[w] # Idle /\ Fail(w)

Store(w) == StoreReceipt(w) \/ StoreIssue(w) \/ StoreCount(w)
Advance(w) == Line(w) \/ LookUpKey(w) \/ PostEntry(w) \/ Store(w)

Next ==
    \/ \E w \in Workers :
         \/ \E d \in Documents : Submit(w, d)
         \/ \E c \in DOMAIN counts, k \in CountKeys : SubmitPost(w, c, k)
         \/ Advance(w) \/ BreakDeadlock(w) \/ Rollback(w)
    \/ \E sheet \in CountSheets : RecordCount(sheet)

Spec == Init /\ [][Next]_vars

(* A transaction goes on; one that waits for a lock is served in turn; the
   deadlock detector runs.                                                 *)
FairSpec == /\ Spec
            /\ \A w \in Workers : /\ SF_vars(Line(w)) /\ SF_vars(PostEntry(w))
                                  /\ WF_vars(Advance(w)) /\ WF_vars(BreakDeadlock(w))

-----------------------------------------------------------------------------
(* What the stock documents must guarantee *)

(* Every variable holds a value of its kind; in particular there is never a
   negative quantity or value on hand (docs/01 A3, no negative stock).     *)
TypeOK ==
    /\ stock \in [Rows -> State]
    /\ moved \in [Rows -> Int]
    /\ \A i \in DOMAIN entries : entries[i] \in
         [key : Keys, type : Types, year : Years, count : Nat,
          number : Nat \ {0}, inventory : Int]
    /\ lastNumber \in [Types \X Years -> Nat]
    /\ \A i \in DOMAIN documents : documents[i] \in
         [type : Types, year : Years, number : Nat \ {0}, value : Int, entry : DOMAIN entries]
    /\ \A w \in Active : DOMAIN txn[w].rows \subseteq Rows

(* The value of all stock equals the balance of the Inventory control
   account (docs/05 7), whatever documents ran at the same time.           *)
SubledgerMatchesControl ==
    SumFunction([r \in Rows |-> stock[r].value])
      = SumFunction([i \in DOMAIN entries |-> entries[i].inventory])

(* The stock movements of a row add up to the quantity on hand: no update of
   a stock row is lost between two documents (lockStockRow).               *)
MovementsExplainStock == \A r \in Rows : moved[r] = stock[r].quantity

(* "No residual value is ever left behind with no quantity left to hold it"
   (applyIssue), across several lines and documents.                       *)
NoValueWithoutStock == \A r \in Rows : stock[r].quantity = 0 => stock[r].value = 0

(* Documents and entries of receipts and issues correspond one to one: a
   document carries its entry's type, number and value (docs/05 7).        *)
DocumentsHaveTheirEntry ==
    /\ \A i \in DOMAIN documents :
         LET d == documents[i]
             e == entries[d.entry]
         IN /\ e.type = d.type /\ e.year = d.year
            /\ e.number = d.number /\ e.inventory = d.value
    /\ \A e \in DOMAIN entries : entries[e].type # "stock_count" =>
         \E i \in DOMAIN documents : documents[i].entry = e
    /\ \A i, j \in DOMAIN documents : documents[i].entry = documents[j].entry => i = j

(* No document hangs, although stock rows are locked in the order of the
   lines and two documents may lock them crosswise.                        *)
DocumentsEnd == \A w \in Workers : txn[w] # Idle ~> txn[w] = Idle

-----------------------------------------------------------------------------
(* What comments and documents say and the code does not do *)

(* "Unique constraint on (tenant, document type, fiscal year, number)": a
   document is turned down only for a number taken in its own year.        *)
NumbersArePerYear ==
    \A w \in Workers : At(w, "store") /\ txn[w].type # "stock_count" /\ NumberTaken(txn[w]) =>
      \E i \in DOMAIN documents :
        /\ documents[i].type = txn[w].type /\ documents[i].year = txn[w].year
        /\ documents[i].number = DocumentNumber(txn[w])
=============================================================================
