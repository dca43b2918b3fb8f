# Markaz: a TLA+ model of the ERP's core

This directory holds TLA+ specifications of the server side of Markaz, the TLC configurations that
check them on small instances, and proofs for TLAPS. Everything is translated from the TypeScript and
SQL under `src/`; paths below are relative to it. `PROJECT.json` maps every definition to the lines it
models and lists the runs, the findings, the hazards and the theorems.

| Module | Models | Checked by |
|---|---|---|
| `Ledger` | journal lines and entries, balance, rounding, mirroring, number series | through `Posting` |
| `LedgerContract` | what the ledger promises: an abstract specification | refinement in `posting_mixed`, theorem |
| `Posting` | `postEntry`, `reverseEntry`, `numbering.next`, triggers and unique indexes, statement by statement | `posting_mixed`, `posting_race`, `posting_closed_period` |
| `PostingProofs` | theorems of `Posting` | TLAPS |
| `WeightedAverage` | the arithmetic of stock valuation | through the three modules below |
| `Inventory` | goods receipts, stock issues, stock counts | `inventory`, `inventory_new_year` |
| `InventoryProofs` | theorems of `Inventory` | TLAPS |
| `OpenItems` | what an open-item account promises: an abstract specification | refinements in `receivables` and `payroll` |
| `Receivables` | quotations, sales orders, sales invoices, credit and debit notes, customer receipts, ageing, statements | `receivables`, `receivables_replay` |
| `ReceivablesProofs` | theorems of `Receivables` | TLAPS |
| `Purchasing` | purchase requests, orders and approvals, receipts and returns of ordered goods, supplier invoices, debit notes and payments | `purchasing` |
| `PurchasingProofs` | theorems of `Purchasing` | TLAPS |
| `Payroll` | salary advances, repayments, payroll runs, end of service, payments of salaries, social insurance and gratuities | `payroll`, `payroll_leaver` |
| `PayrollProofs` | theorems of `Payroll` | TLAPS |
| `Reports` | trial balance, balance sheet, cash flow, statement of an account | through `ChartOfAccounts` |
| `ChartOfAccounts` | the tree of accounts and the account mappings, edited while entries are posted | `chart` |
| `ChartProofs` | theorems of `ChartOfAccounts` | TLAPS |
| `Outbox` | outbox, relay, job queue with retries and dead letters, crashing processes | `outbox` |
| `OutboxProofs` | theorems of `Outbox` | TLAPS |
| `SumTheorems` | sums over finite sets, used by the proofs about documents, statements and reversals | TLAPS |
| `MC...` | the small instances: workers, keys, documents | |

## 1. The system

Markaz is a pnpm monorepo. `packages/core` holds the domain services, `packages/db` the Prisma schema
with its migrations (CHECK constraints, triggers, unique indexes), `apps/api` the NestJS HTTP API and a
worker process with three job queues, `apps/web` the React client.

Several API processes serve requests concurrently against one PostgreSQL database. Every document is
created by **one request = one Prisma interactive transaction at READ COMMITTED**, with a time limit of
five seconds. A transaction sees at each statement what is committed at that moment, so whatever a
service reads without a lock may be changed before it writes. Nothing else is shared: there are no
in-memory caches that matter, and the services call each other only inside the caller's transaction.

Every posting request carries an `Idempotency-Key` header. The key is stored with the journal entry, where
`(company, key)` is unique; documents do not store it.

### Components

| Component | State | Operations | Interacts with | What makes it hard | What makes it correct |
|---|---|---|---|---|---|
| Accounting engine | journal entries and lines (insert only) | `postEntry`, `reverseEntry` | called by every document service, in its transaction; calls numbering | replays that race, periods that close, rounding of base amounts | every entry balances; a key posts once and is answered alike; a reversal cancels its original |
| Numbering | one row per series (type, fiscal year) | `next` | engine, `allocateDocumentNumber`, stock counts | row lock; the first number of a series; rollback | numbers are gapless and unique |
| Fiscal periods | period status | none in these packages: closed in the database | read by every posting | read, then closed before the commit | nothing is posted into a closed period |
| Inventory documents | stock rows (quantity, value), movements, receipts, issues, counts | create; record and post of counts | engine, numbering, mappings | several row locks in the order of the lines; retries; averages that do not divide | sub-ledger equals control account; movements explain stock; no value without quantity |
| Sales | quotations, orders with counters, invoices, notes | create, close and convert quotations; create and cancel orders; invoices and notes | stock rows, engine, numbering, party row | order status read without lock; goods shared between customers | orders tell what was invoiced; a quotation becomes one order; goods leave once |
| Payments, ageing, statements | payments and allocations; the reports are computed | create; report as of a date | invoices and notes of both sides, engine | what an invoice owes is computed, never stored; posted documents cannot be locked | never settled beyond what is owed; ageing, statements and ledger agree |
| Purchasing | requests, orders with counters and approvals, receipts, returns, invoices, notes | create, accept, reject; create, decide, cancel; receive, return, invoice, note | stock rows, engine, numbering, approvals | three lock disciplines (order, order lines, none) over the same counters | GRNI is what awaits invoices; what was checked under a lock holds until the commit; decisions stand |
| Chart of accounts, account mappings, statements | account tree, mappings; the statements are computed | create, move, stop, restart, group, delete, map | engine and documents read accounts and mappings | checks outside the writing transaction | nothing in use is deleted; totals reach the top; mappings stay usable; statements agree |
| Payroll and HR | employees and their accounts, advances with deductions and repayments, runs, settlements, payments | grant, repay, run, settle, pay | engine, advisory locks | a settlement reads advances without the lock the others take | nobody is deducted or paid twice; leavers owe nothing |
| Outbox, queues, notifications | outbox messages, BullMQ jobs | write, relay, process, retry, dead-letter | Redis | marked as relayed before it is enqueued | what is committed is delivered |
| Authentication, identity, permissions | users, refresh tokens, failed attempts | login, refresh, logout | every request | read-then-write without a lock | a refresh token is used once |
| Audit log | events (insert only) | log | written after the commit of every document | crash between commit and insert | every document has its event |
| Master data, attachments, licensing, dashboard, exports, setup | single rows | CRUD and reads | external storage, licence server | little | |
| Web client, compliance and print-agent packages | none beyond the server's | | | | the last two are stubs |

`PROJECT.json` gives each component its sources and its status: modelled, partly, or not, with the reason.

## 2. How the code became the models

**A worker is a request.** `txn[w]` (in `Posting`: `pc`, `draft`, `result`) is its open transaction: the
statement it is at, what it was asked for, what it read and still uses, what it wrote. All other variables
are committed tables. A transaction's writes go into the tables in its last action, which is the COMMIT; a
failing guard, an exception of the code, is `Fail`, which forgets the transaction. `Rollback` may end any
open transaction at any step: an error in a step that is not modelled (a missing mapping, an inactive
warehouse, a closed period), a timeout, a deadlock victim or a crash of the process. `LoseReply` in
`Posting`, and retried keys elsewhere, stand for answers that are lost after a commit.

**Locks are seen in the program counters.** `Holders(series)`, `Inserters(key)`, `Locked(row)` and the like are
the sets of workers whose open transaction holds a row lock or an uncommitted unique key; an action that
needs one has "nobody else holds it" as a guard. A SELECT ... FOR UPDATE of a row that does not exist yet locks
nothing; this is why `CreateSeries` is a step of its own with a race of its own.

**Granularity.** One action per statement that another transaction can come before. Statements that read
only constants, or rows the transaction has locked, are joined with the next one. `Posting` takes the
engine apart; the document modules treat the engine as one step (`PostEntry`) that holds series and key from
the insert until the commit. `Posting` shows that this summary is all a caller can see: an appended entry that
is acceptable, or a failure.

**Data.** Amounts are small integers in the smallest unit (four decimals). Rounding is modelled where it
happens: `ToNumeric` is the cast to NUMERIC(19,4), `AverageUnitCost` the rounded average, `LineValue` the worth of one line of a
document. `Unit` is how many of the smallest units make one: 10000 in the code, 2 in the runs, so that a quantity times a price may
have to be rounded. Taxes, currencies
outside the engine, texts and account mappings are left out; the amounts of a document are gross.

### Posting

`lookup` → `check` → `number` → `create` → `insert` → `commit` → `reply` are the statements of `postEntryIn`,
`numbering.next` and the database's part; `find` is the beginning of `reverseEntry`. `InsertEntry` contains the
period trigger and the unique key, `Commit` the deferred balance trigger. `ClosePeriod` and `ReopenPeriod` come from
outside. `Commands` are arbitrary; the instance has some that are unbalanced, that leave a residual when
converted, that are finer than what is stored, and that name an account nobody may post to.

### Inventory

`Line` locks the stock row of one line and applies it (a row may occur on several lines); `LookUpKey` and `PostEntry`
are the engine; `StoreDocument` and `StoreCount` store the document and commit. A receipt or an issue takes its entry's
number. A count is recorded first (`RecordCount`, its own number, unit costs fixed) and posted later. `WaitsFor`,
`Circle` and `BreakDeadlock` are PostgreSQL's deadlock detector, which the code relies on because rows are
locked in the order of the lines.

### Receivables

`LockCustomer` locks the customer's row and makes the checks of the document at hand: `Claimable` for the order lines
of an invoice, `WithinInvoice` for notes, `Payable` for the allocations of a receipt. `TakeGoods` locks the stock
row; `StoreInvoice` and its siblings store the document, for an invoice with the order's counters and status.
`Outstanding`, `Ageing`, `Statement` and `LedgerBalance` are the reports, as functions of the documents and entries and of
a date. A conversion (`StartConversion`, `MakeOrder`) locks the quotation and then the customer; the other operations
on quotations and orders are single steps, each of which locks one row, looks and writes.

### Purchasing

`LockOrder` is the beginning of receipts and returns, `LockLines` of invoices, `LockSupplier` of payments, `CheckNote` of
debit notes, `LockRequest` of new orders. The counters that a receipt or a return writes are computed from what it read
under the order's lock (`seen`), while invoices change the lines without it. `Worth` rounds each line on its own, at receipt, return and
invoice; `Worthless` is an entry without amounts, which the engine refuses. `Backstop` is the CHECK constraint on the lines, `MoveIsSound` adds
the unique number of a receipt or return, and `RefuseMove` is what happens when one of them fails. `IssueGoods` moves the average between a receipt and its return.
`Approval` says whether a new order waits for approval. `Outstanding` and `Ageing` are the payables side of the reports.

### Payroll

Every document is inserted and never changed; `Remaining`, `Unpaid` and `GosiOutstanding` compute what is still owed.
`wanted` is the set of advisory locks a transaction has still to take, `held` those it has; a run takes its employees' locks
one by one in the order of their ids (`NextLocks`). `ReadRoster` reads the active employees *before* the transaction,
`ReadEmployee` and `ReadOwed` are the two reads of a settlement. `Storable` is the unique indexes and the check on net pay.
What the wage formulas compute is a constant of each employee.

### Chart of accounts and reports

An editor's request reads what it checks (`Submit`, with `Allowed`) and then writes one row (`Write`), because the services
check outside the writing transaction; only a deletion locks the row first (`LockAccount`, `DeleteAccount`). A posting reads its
accounts, inserts its lines, each of which holds its account's row through the foreign key, and commits. `Reports` defines the
statements over the posted entries.

### Outbox

`Claim` is the relay's UPDATE, committed by itself; `Enqueue` adds one job for a claimed row, still held in the memory of
the process. `TakeJob`, `Send`, `Complete`, `FailAttempt` and `EndDelay` are an attempt at a job. `Stall` gives back the job of a
process that died and counts it; a job that stalled more often than `MaxStalls` (BullMQ's `maxStalledCount`, which
`create-monitored-worker.ts:39` leaves at its default of 1) fails the next time it is taken, whatever its attempts. `AddDeadLetter` is the add that the
listener of a failed job does not wait for. `Crash` forgets what a process holds. No service writes outbox messages yet: the
model takes `writeOutboxMessage` as it is and lets any message be written at any time.

### The abstract specifications

`LedgerContract` knows one variable, the ledger, and one action: append one entry that balances, has a fresh key and
the next number of its series, and mirrors its original if it is a reversal. `Posting` implements it with the
identity as the mapping: drafts, locks, replies and retries are stutters. TLC checks this as property
`ImplementsContract`, and `EngineImplementsContract` proves it.

`OpenItems` knows what every item is worth and what was settled of it. An item is opened, its worth is changed by a note, or
some items are settled by at most what was open. `Receivables` implements it with invoices as items and receipts
as settlements (`SettlesOnlyWhatIsOpen`); `Payroll` with advances as items, settled by repayments and by payroll runs
(`RecoversAdvancesOnce`). In both, the worth and the settled part are computed from the documents, which is what the code does.

## 3. What the runs check

All runs with expectation "pass" explore their instance completely.

| Run | Instance | Shows |
|---|---|---|
| `posting_mixed` | 2 requests, 7 kinds of commands, 2 document types, 2 periods of 2 years, 3 entries | reversals cancel; the engine implements the contract, so that what is posted balances although stored amounts are rounded |
| `posting_race` | 2 requests for one series and one key, 1 period, 3 entries, fair | gapless numbers, one entry and one answer per key, every request ends |
| `inventory` | 2 requests, 2 rows, 3 receipts of several lines or costs, 1 empty receipt, 2 issues, all retried, 1 of 2 counts, 5 posted documents, fair | stock, movements, entries and documents agree; every document ends |
| `receivables` | 2 requests, 2 customers, 1 quotation that two orders could be made from, 1 order of 2 lines, 1 stock row, 8 kinds of documents, 5 posted | nothing is settled, converted or invoiced twice; ageing, statements and ledger agree |
| `purchasing` | 2 requests, 2 orders of 3 lines (one is rounded, one worth nothing), 1 purchase request, 12 submissions, 3 retried keys, 5 documents | accounts (GRNI but for its roundings, inventory, payables), counters and statuses agree; invoices are not overpaid; what was checked under a lock holds until the commit; decisions stand |
| `payroll` | 2 requests, 2 employees, 2 months, 13 requests, 3 retried keys, 5 documents | advances are recovered once, nobody is paid twice, accounts agree with the documents, no circle of advisory locks |
| `chart` | 1 editor with 14 requests beside 1 posting, 5 accounts, 2 mapping keys, 2 dates, 2 entries | nothing in use is deleted, totals reach the top, mappings stay usable, statements agree |
| `outbox` | 3 messages, 2 malformed, 2 processes, batches of 2, 2 attempts, 1 stall, 2 crashes, fair | one job per message, bounded mails, nothing vanishes except from the memory of a crashed process or as a job that stalled too often, every message ends |

The other runs show that something the repository says does not hold; see section 6.

**Why these bounds.** Most races here are between two transactions about one row, one key or one document; a third one
can only wait in the same queue, and what two committed transactions leave behind a third one reads in the committed tables.
The bounds on posted documents (`MaxEntries`, `MaxPosted`, `MaxRecorded`) let every kind of document precede and follow every
other and leave room for a replay: the longest stories need an order, two receipts, an invoice and a return; an invoice, a note of
each kind and two receipts; or an advance, two runs and their payments. In `outbox` three messages fill one batch and begin a
second, and two crashes are what it takes to exceed the one stall BullMQ allows. In `purchasing` a piece of one line is worth one and a
half of the smallest amount and booked as two, two pieces are worth three: received one by one and invoiced together they leave one on GRNI. `Room` counts open transactions too, so no request starts that could exceed the bound. The theorems of section 5
hold without any of these bounds; what they assume instead is said there.

**Restrictions that matter.**
- *Keys.* In `inventory` each key belongs to documents of one type: a key that is used for a receipt and then for
  an issue lets stock leave without an entry, and no run covers it. In `receivables` no
  key is sent again, because a replay breaks the ageing (`receivables_replay`). In `purchasing` receipts, returns and
  invoices are sent again, debit notes and payments are not, for the same reason; in `payroll` runs and the payments that a unique index
  protects are sent again, advances, repayments and payments of social insurance are not.
- *Costs.* In `inventory` the goods that are counted have one steady cost and those that move at changing
  costs are not counted, because a count floors the stock value at zero and posts the unfloored value
  (`weighted-average.util.ts:114`): three units worth 20 that are counted to zero post 20.0001.
- *Dates.* All documents of `receivables` and `purchasing` have one date, because a receipt dated before the invoice it settles makes
  ageing and ledger disagree between the two dates (`aging.service.ts:83`).
- *Editors.* `chart` has one editor. Two can move two groups below each other, or map an account that the other makes a group.
- *Codes.* `ReportsAssumption` ties an account's section in the cash-flow statement to its type; the code takes it from the
  account's code, which nothing ties to the type.
- *Leavers.* In `payroll` two settlements of one employee are not submitted together: nothing in the code keeps both from being stored.

**Mutants.** Each property of a passing run has a mutant in the module, named in a comment: a lock that is not
taken, a unique index that is missing, a row marked too late, a counter that is not compared. TLC
finds the property violated under each, so no property holds by the shape of the model.

## 4. Fairness

`posting_race`, `inventory` and `outbox` check liveness.
- Weak fairness of the steps that wait for nobody: a running transaction executes its next statement or is ended by its
  timeout (then it is over, which is what the property asks for).
- Strong fairness of steps that wait for a lock or a unique key (`LockSeries`, `CreateSeries`, `InsertEntry`; in `Inventory`
  `Line` and `PostEntry`): PostgreSQL grants a lock in the order of the queue, so a waiting transaction is not overtaken
  forever although the lock is taken again and again.
- Weak fairness of the deadlock detector.
- In `Outbox`, weak fairness of all work taken together: the relay is scheduled every ten seconds (`worker.ts`), BullMQ hands out waiting
  jobs, ends delays and takes back the jobs of dead processes. One conjunct is enough, because every step of the work
  brings some message further and there are only finitely many; no process, message or kind of step is assumed to be preferred.
- Nothing is assumed about clients, rollbacks, lost answers, periods, crashes or whether a mail succeeds.

`DocumentsEnd` and `RequestsEnd` then say that no lock is held by a transaction that waits for its own victim and that no
branch of the code leaves a transaction without a next step; `EveryMessageEnds` that a written message is mailed, becomes a dead
letter, was in the memory of a process that died, or is given up by BullMQ after too many stalls.

## 5. What is proved

### The engine (`PostingProofs`)

For every set of workers, keys, accounts, periods, document types and commands, and any bound:

- `TypeCorrect`: `Spec => []TypeOK`
- `NumberingIsGapless`: `Spec => []GaplessNumbering`
- `KeysPostOnce`: `Spec => []OneEntryPerKey`
- `ReplaysAnswerAlike`: `Spec => []OneAnswerPerKey`
- `EngineImplementsContract`: `Spec => ImplementsContract`
- `ReversalsCancel`: `Spec => []ReversalCancels`

*Assumptions:* `LedgerAssumption` and `PostingAssumption` (the constants are of their kinds, the key that stands for none is no
key, the draft that stands for none is no entry). TLC evaluates them in the runs of `MCPosting`.

*Argument.* None of the invariants is inductive alone: that the numbers stay gapless after a commit depends on
what the committing transaction has seen and holds. `IInv` adds this for every open transaction:
- `DraftInv`: what a transaction builds is an entry;
- `SeriesInv`: a transaction that holds a series drew the number after the committed one, and nobody else holds that series;
- `KeyInv`: a transaction that inserted its key is the only one, and nobody posted it;
- `MirrorInv`: what a reversal builds mirrors a posted entry;
- `ResultInv`, `AnswerInv`: what is answered is a posted entry with that key and number.

`Initially` and `Inductive` establish it, with one lemma per action (`QuietStep` covers those that change nothing but one
worker's own state). `CommitStep` is the heart. For the refinement, `CommitPosts` shows that the entry a commit appends is
acceptable to the contract, and `StepsOfTheLedger` that no other step touches the ledger.
Every reversal the contract accepts mirrors its original line by line (`PostKeepsMirrored`), and what a line and its mirror do to an
account adds up to nothing (`MirrorCancels`).

### The chart of accounts (`ChartProofs`)

- `NothingUsedIsDeleted`: `Spec => []TypeOK`, for any number of editors and postings at once. `TypeOK` contains that what an
  entry, a mapping or an account refers to exists.
- `MappingsUsable`: `Spec => []MappingsStayUsable` if there is one editor (`Alone`), beside any number of postings.
- `ReportsAgree`: `Spec => []StatementsAgree`, for any number of editors and postings, any chart, codes and periods.
- `TotalsComplete`: `Spec => []TotalsReachTheTop` if there is one editor, beside any number of postings. With two it is false: each
  may move a group below the other's, because `move` walks up the tree outside its transaction (see the hazards).

*Assumptions:* `ReportsAssumption` and `ChartAssumption`. *Argument.* The lines of a posting that has not committed are invisible to
`usageOf`. `HeldRows` says what makes up for that: the accounts of such a posting exist and no deletion has locked them.
`MappedInv` adds that a request still to be written was checked against the mappings as they are, which only holds while nobody else
edits.

The statements agree because an entry is a debit and a credit of one amount, so all accounts together are worth nothing, and because
every account is of one type and in one section: the accounts divide into the parts the balance sheet and the cash-flow statement add
up (`SumGroups`). The lines of an account statement, each at the place `ORDER BY` gives it, add up in that order to what they add up
to as a set (`Places`, `SumRenamed`, `RunTotal`).

Totals reach the top because the chart is a forest: every set of accounts has one whose parent is outside (`Forest`). The template is
one because it lists parents before their children (`seed.ts` refuses any other). A move keeps it one because the new parent
was found apart from what moves, and `TreeInv` says that this is still so when the move is written. In a forest every account is
below exactly one top-level account.

### The outbox (`OutboxProofs`)

- `TypeCorrect`: `Spec => []TypeOK`
- `NoSecondJob`: `Spec => []OneJobPerMessage`
- `BoundedMails`: `Spec => []MailsAreBounded`
- `NothingIsForgotten`: `Spec => []NothingVanishes`

for any number of messages, processes, attempts, stalls and crashes and any batch. *Assumption:* `OutboxAssumption`. *Argument.* `IInv` adds
`HeldInv` (one process works on a job, and a mail that is out was counted), `DispatchInv` (a dispatched message is claimed,
a job, or lost), `JobsInv` (a completed job was mailed, a failed one is or becomes a dead letter or stalled too often, any other has
attempts left), `StallsInv` (a job stalls at most once for each crash) and `MailsInv` (mails of a message are bounded by the attempts made, the crashes, and the attempt under way).
The bound of `MailsAreBounded` follows from `MailsInv` and `JobsInv`: a mail beyond the attempts already made and the crashes is the one of the
attempt under way or completed, and that attempt is one of the `Attempts`. What `NothingIsForgotten` excepts is exact: a message in the
memory of a process that died (`lost`), and a job that failed below its attempts with more stalls than BullMQ allows, which needs as
many crashes (`GivenUp`).

### Sums (`SumTheorems`)

Most of what the documents promise compares sums: what was invoiced, settled, moved, posted. So do the statements and the reversals. `SumFunction` folds over a finite set
of any size, and the library has no theorem about it. `SumTheorems` derives what the proofs need from the definition of the
fold: a sum of integers is an integer (`SumInt`), taking in one more element adds its value (`SumExtend`, `SumAppended`), changing one
value changes the sum by the difference (`SumChange`), sums add (`SumPlus`), over disjoint sets and by groups too (`SumUnion`, `SumGroups`), do not depend on
how their terms are named (`SumRenamed`) or in which order they are taken (`RunTotal`), grow with their terms (`SumMonotone`) and bound each
term (`SumBounds`). Where induction over the size of a set is needed, a smallest counterexample is ruled out (`LeastNumber`,
`SubsetInduction`).

### Stock documents (`InventoryProofs`)

- `Types_of_stock`: `Spec => []TypeOK`: among others, no row ever holds less than nothing
- `Documents_have_their_entry`: `Spec => []DocumentsHaveTheirEntry`, if `SafeRetries`
- `Movements_explain_stock`: `Spec /\ []CountsHaveCosts => []MovementsExplainStock`
- `No_value_without_stock`: `Spec /\ []CountsLeaveNothing => []NoValueWithoutStock`
- `Subledger_matches_control`: `Spec /\ []CountsAreCovered => []SubledgerMatchesControl`, if `SafeRetries`

for any rows, documents, lines, counts and workers. *Assumption:* `InventoryAssumption`. *Hypotheses.* They say what the code leaves
open. `SafeRetries`: a key that is sent again belongs to documents of one type and not to a count, because only the unique number of a
receipt or an issue stops the second document. The three conditions on counts are about the step that applies a counted line:
`applyCountAdjustment` floors the value of the row at zero while the entry posts the unfloored difference (`CountsAreCovered`); a count that
finds nothing may leave value behind (`CountsLeaveNothing`); a count whose differences are worth nothing is neither
posted nor are its movements stored (`CountsHaveCosts`: a unit costs at least half the smallest amount). All four hold in the run `inventory`, where the theorems' properties are checked as well.
*Argument.* `IInv` says that every
open transaction has its rows for itself (`RowsApart`), that its lines are those of its document and what it will write is what the
table holds plus its own lines (`Sound`: `LinesFit`, `Answered`, `RowsExplained`), and that every entry a document names exists. On top of
it `DocumentsInv`, `MovesInv`, `EmptyInv` and `ValueInv` each add what the property needs of an open transaction: that its key is not
yet posted or its document will be refused, and that the value it adds to its rows is the amount of its entry.

### Sales, receipts and reports (`ReceivablesProofs`)

- `Types_of_receivables`: `Spec => []TypeOK`
- `Orders_tell_what_happened`: `Spec => []OrdersTellWhatHappened`
- `Statements_match_ageing`: `Spec => []StatementsMatchAgeing`
- `Settles_only_what_is_open`: `Spec => SettlesOnlyWhatIsOpen`, the refinement of `OpenItems`
- `Ageing_ties_to_ledger`, `Sold_goods_leave_the_books`: `Spec => []AgeingTiesToLedger`, `Spec => []SoldGoodsLeaveTheBooks`, if `RetriedKeys = {}`

for any customers, orders, quotations, documents and dates. *Assumption:* `ReceivablesAssumption`. That no key is sent again is needed for
the last two: the run `receivables_replay` is the counterexample. *Argument.* The customer's row lock makes what a transaction checked stay
true: `IInv` says that two transactions of one customer are not both past `LockCustomer`, and that what a transaction claims of an
order, an invoice or an open item is still there when it stores. The sums over documents then change by one document at a
time; `BooksTie` carries the books: one entry per document, with the amounts of that document.

### Purchasing (`PurchasingProofs`)

- `Types_of_purchasing`: `Spec => []TypeOK`
- `Locks_keep_what_was_checked`: `Spec => []LocksKeepWhatWasChecked`
- `One_order_per_request`: `Spec => []OneOrderPerRequest`
- `Decisions_stand`: `Spec => DecisionsStand`
- `Orders_tell_their_progress`: `Spec => []OrdersTellTheirProgress`
- `Invoices_are_paid_once`: `Spec => []PaidAtMostOnce`, the part of `AccountsMatchTheDocuments` that needs no hypothesis
- `Accounts_match_the_documents`: `Spec => []AccountsMatchTheDocuments`, if `SafeRetries`

for any orders, lines, prices, purchase requests, submissions and workers. *Assumption:* `PurchasingAssumption`, among it that every order has a
line (`EMPTY_ORDER`, purchase-order.service.ts:158; an order without one would be fully received when it is made). `SafeRetries` says that a key
that is sent again belongs to receipts, to returns or to invoices with one number: a unique index refuses the second document, while
a debit note or a payment that is sent again would be stored twice and posted once. The run `purchasing` satisfies it.
*Argument.* `IInv` says what a transaction may rely on between its reads and its writes: an order it locked keeps its status and what was
received of it (`MoverSound`), the goods it checked stay (`CheckedGoods`), an order that is being made does not exist and its request
stays accepted (`BuyerSound`), the stock row stays as it found it until the goods are booked (`CostIsDue`), no two invoices have one line
and no two payments the supplier (`Apart`). Invoices take other locks than receipts and returns: a receipt only adds to what an invoice
found, a return waits for the invoice that holds its lines, and an invoice that was quicker than a return makes it fail at the
CHECK constraint, `Backstop` — this is why `CheckedGoods` claims less of a return. `StepCases` then sorts the steps by what they store, and each sum over documents or entries changes by one term:
the counters (`OrdersTellTheirProgress`), what is settled (`PaidAtMostOnce`), what awaits an invoice, what is owed and paid on account
(`AwaitedStep`, `OwedStep`, `OnAccountStep`). What a document books on GRNI differs from its quantities times the order prices by at most
half the smallest amount for each line that was rounded and by nothing for the others (`LineRounding`, `WorthRounding`); these
differences need not cancel, so their bounds add up over the documents (`RoundingsStep`). `BooksTie` carries the books; it needs `KeysSound`, that a key under which something is posted
is that of a document sent with it, so that a repetition finds the number taken.

### Payroll (`PayrollProofs`)

- `Types_of_payroll`: `Spec => []TypeOK`
- `Nobody_is_paid_twice`: `Spec => []NobodyIsPaidTwice`
- `Nobody_waits_in_a_circle`: `Spec => []NobodyWaitsInACircle`
- `Recovers_advances_once`: `Spec => RecoversAdvancesOnce`, the refinement of `OpenItems`
- `Accounts_match_the_documents`: `Spec => []AccountsMatchTheDocuments`, if `SafeRetries`

for any employees, months, requests and rosters. *Assumption:* `PayrollAssumption`. `SafeRetries` says that what is sent again is a run, a payment
of a salary or a payment of a gratuity, which a unique index protects, and that it is sent again as it was. *Argument.*
Advisory locks are exclusive, and who is past its locks holds those of every employee it deducts from: what `Remaining` said
when it was read is still true when the deduction is stored. Nobody waits in a circle because the locks already held are below
those still wanted (`held` and `wanted` in the order of the ids), and nobody wants one while it waits for a key or a series.

### Only model-checked

Liveness: fairness and ENABLED are beyond the prover, so `RequestsEnd`, `DocumentsEnd` and `EveryMessageEnds` stay with TLC. Every
other property of the passing runs is stated by a theorem, some under the hypotheses named above (`Alone`, `SafeRetries`,
`RetriedKeys = {}`, `CountsAreCovered`); in the configurations of section 6 the four
properties named there are refuted.

## 6. Where code and documents disagree

| Run | Property | What happens |
|---|---|---|
| `posting_closed_period` | `PostsOnlyIntoOpenPeriods` | the trigger reads the period at INSERT without a lock; the period may be closed before the COMMIT |
| `inventory_new_year` | `NumbersArePerYear` | receipts, issues and returns start at number 1 every fiscal year, but `(company, number)` is unique without the year |
| `receivables_replay` | `AgeingTiesToLedger` | a document that is sent again is stored again while its entry is not posted again |
| `payroll_leaver` | `LeaversOweNothing` | a settlement reads what is owed without the lock that grants and repayments should share: an advance granted meanwhile stays with a leaver |

`PROJECT.json` quotes the sentences these contradict.

Six listed hazards have no property, because the code leaves them open: a reversal that is requested twice is posted twice; two
requests may post one count twice; two settlements of one employee may both be stored; and three that the run `inventory` keeps out
(section 3): a key used for two types of document, a count at a stale cost, a count whose differences are worth nothing. The following
were met as well; they are outside the runs unless they say otherwise:
- numbers of counts and of their entries come from one series, so the recorded counts have gaps;
- an invoice overwrites the cancellation of its order, whose status it read without a lock (`sales-invoice.service.ts:175`);
- two supplier debit notes of one invoice are checked before either is stored, with no lock (`supplier-invoice.service.ts:439`): the
  model has the race, and no property claims that the notes stay within the invoice;
- GRNI keeps a residue when quantity times price is rounded separately on receipts, returns and invoices
  (`supplier-invoice.util.ts:31`), although booking the variance of a return is meant to leave none (comment at `goods-return.service.ts:253`): the run
  `purchasing` contains it, and `AccountsMatchTheDocuments` bounds it by half the smallest amount per rounded line;
- returns and invoices may deadlock (`supplier-invoice.service.ts:332`); PostgreSQL ends one, as `Rollback` does;
- an account is stopped while one below it is started, each checking the other before its own transaction
  (`chart-of-accounts.service.ts:302`);
- the statements read the ledger in several statements outside a transaction (`balance-sheet.service.ts:95`), the model in one step;
- a job that stalls too often is failed by BullMQ below its number of attempts and gets no dead letter
  (`create-monitored-worker.ts:56`): the run `outbox` contains it, and `NothingVanishes` excepts exactly these jobs;
- an employee's missing accounts are looked up before the lock that creates them (`employee.service.ts:333`);
- audit events are written after the commit (`sales-invoice.service.ts:335`): a failure in between leaves a document without one.

## 7. Not modelled

- *The web client* (`apps/web`, almost half of the lines) and *controllers and DTOs* (`apps/api`, a fifth): they show and validate
  what the services do and keep no state of their own. This is why the map stays well below a third of the repository's
  lines, while it covers the operations of `packages/core` that change what is posted. Inside these services, lists, previews, mappings to
  response types and messages are left out.
- *Several companies*: every query is filtered by company; one company is modelled.
- *Taxes, currencies of documents*: amounts are gross and the accounts are those a property is about.
- *Ageing buckets, the running balance of a party statement, dashboard and exports*: the same amounts, laid out.
- *Master data* (items, warehouses, tax codes, parties, employees and their accounts): single-row writes. That documents refuse inactive
  rows is abstracted into `Rollback`.
- *Audit log*: one insert after the commit that nothing reads back.
- *Authentication, roles, licensing, attachments, rendering*: sessions and permissions are configuration around the core; the rest is
  storage and external services.
- *Compliance and print agent*: stubs.

## 8. Plan

Done: the posting core with its contract; inventory; sales and purchasing with receipts and payments; payroll; chart of
accounts and statements; outbox; proofs for all of them. Next, in this order:

1. A stock sub-ledger as an abstract specification (rows change only by movements, never below zero), implemented by `Inventory`.
2. Employees and their accounts; the audit event as a part of every document.
