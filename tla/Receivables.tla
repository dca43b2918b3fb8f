----------------------------- MODULE Receivables -----------------------------
(***************************************************************************)
(* Quotations, sales orders, sales invoices, credit notes, debit notes and *)
(* customer receipts (packages/core/src/sales, packages/core/src/payments):*)
(* every posted document is one READ COMMITTED transaction that locks the  *)
(* customer, checks the document against what was posted before, takes     *)
(* goods from stock, posts through the accounting engine and stores the    *)
(* document.  The ageing report and the customer statement are computed    *)
(* from the documents.                                                     *)
(*                                                                         *)
(* Posted documents are only ever inserted, so the customer's row is what  *)
(* orders them.  The statements of postEntry are modelled in Posting, the  *)
(* locking of several stock rows in Inventory; here the engine is one      *)
(* step, and there is one stock row.                                       *)
(***************************************************************************)
EXTENDS WeightedAverage, Sequences, FiniteSets, SequencesExt

CONSTANTS
    Workers,        \* concurrent requests
    Customers,
    Quotations,     \* quotations
    QuotedTo,       \* the customer of a quotation
    Orders,         \* sales orders that may be made
    MadeFrom,       \* the quotation an order is made from, or NoQuotation
    NoQuotation,
    OrderLines,     \* their lines
    CustomerOf,     \* the customer of an order
    OrderOf,        \* the order of a line
    Ordered,        \* the quantity of a line
    OpeningStock,   \* what the stock row holds at first
    Days,           \* document dates
    Keys,           \* idempotency keys
    RetriedKeys,    \* those a client may send again after they were posted
    Requests,       \* documents that may be submitted
    Idle,           \* the transaction of a worker without one
    MaxPosted       \* bound on posted documents

Notes == {"sales_credit_note", "sales_debit_note"}
Types == {"sales_invoice", "customer_receipt"} \cup Notes
NoLines == [l \in {} |-> 0]

\* What the requests of each type hold besides type, key, day and amount.  The
\* invoice of a note, and those a receipt settles, each with one of the shares,
\* are chosen when it is submitted.
SoundRequest(r) ==
    /\ r.type = "sales_invoice" =>
         /\ r.customer \in Customers /\ r.goods \in Nat
         /\ DOMAIN r.claims \subseteq OrderLines
         /\ r.claims \in [DOMAIN r.claims -> Nat \ {0}]
    /\ r.type = "customer_receipt" =>
         r.customer \in Customers /\ \A n \in r.shares : n \in Nat \ {0}

ASSUME ReceivablesAssumption ==
    /\ \A r \in Requests :
         /\ r.type \in Types /\ r.key \in Keys /\ r.day \in Days /\ r.amount \in Nat \ {0}
         /\ SoundRequest(r)
    /\ RetriedKeys \subseteq Keys /\ IsFiniteSet(Customers)
    /\ Days \subseteq Nat /\ \E d \in Days : \A e \in Days : e <= d
    /\ QuotedTo \in [Quotations -> Customers] /\ NoQuotation \notin Quotations
    /\ CustomerOf \in [Orders -> Customers]
    /\ \A o \in Orders : MadeFrom[o] # NoQuotation => CustomerOf[o] = QuotedTo[MadeFrom[o]]
    /\ OrderOf \in [OrderLines -> Orders]
    /\ \A o \in Orders : \E l \in OrderLines : OrderOf[l] = o
    /\ \A l \in OrderLines : Ordered[l] \in Nat \ {0}
    /\ OpeningStock \in State /\ MaxPosted \in Nat

VARIABLES
    documents,      \* posted invoices, notes and receipts
    entries,        \* journal entries: key, type, date, change of the accounts
    invoiced,       \* invoiced_quantity of every order line
    status,         \* status of every order, "NONE" before it is made
    quotation,      \* status of every quotation, "CLOSED" when rejected or cancelled
    stock,          \* the stock row
    txn             \* the open transactions

tables == <<documents, entries, invoiced, status, quotation, stock>>
vars == <<tables, txn>>

-----------------------------------------------------------------------------
(* What is owed (payments/outstanding.ts, aging.service.ts, party-statement) *)

Total(S, amount(_)) == SumFunction([x \in S |-> amount(x)])
Amount(i) == documents[i].amount
OfType(type) == {i \in DOMAIN documents : documents[i].type = type}
UpTo(day, S) == {i \in S : documents[i].day <= day}
Invoices == OfType("sales_invoice")
Receipts == OfType("customer_receipt")
Against(type, i) == {n \in OfType(type) : documents[n].of = i}

SettledBy(p) == Total(DOMAIN documents[p].settles, LAMBDA i : documents[p].settles[i])
AllocatedTo(i, day) ==
    LET settling == {p \in UpTo(day, Receipts) : i \in DOMAIN documents[p].settles}
    IN Total(settling, LAMBDA p : documents[p].settles[i])

(* Mutant of Outstanding: debit notes are not counted.                     *)
OutstandingWithoutDebits(i, day) ==
    Amount(i) - AllocatedTo(i, day)
      - Total(UpTo(day, Against("sales_credit_note", i)), Amount)

(* loadOutstanding, side SALES, with the cut-off `day`.                    *)
Outstanding(i, day) ==
    Amount(i) - AllocatedTo(i, day)
      - Total(UpTo(day, Against("sales_credit_note", i)), Amount)
      + Total(UpTo(day, Against("sales_debit_note", i)), Amount)

LastDay == CHOOSE d \in Days : \A e \in Days : e <= d

(* A customer's row of the ageing report: open invoices less what is on
   account.                                                                *)
Ageing(c, day) ==
    LET mine(S) == {i \in UpTo(day, S) : documents[i].customer = c}
    IN Total(mine(Invoices), LAMBDA i : Outstanding(i, day))
         - Total(mine(Receipts), LAMBDA p : Amount(p) - SettledBy(p))

AgeingTotal(day) == Total(Customers, LAMBDA c : Ageing(c, day))

(* The closing balance of a customer's statement.                          *)
Statement(c, day) ==
    LET mine(type) == {i \in UpTo(day, OfType(type)) : documents[i].customer = c}
    IN Total(mine("sales_invoice") \cup mine("sales_debit_note"), Amount)
         - Total(mine("sales_credit_note") \cup mine("customer_receipt"), Amount)

(* The balance of the receivables control account.                         *)
LedgerBalance(day) ==
    Total({e \in DOMAIN entries : entries[e].day <= day}, LAMBDA e : entries[e].receivable)

-----------------------------------------------------------------------------
(* Transactions *)

Active == {w \in Workers : txn[w] # Idle}
At(w, step) == txn[w] # Idle /\ txn[w].pc = step
Set(w, t) == txn' = [txn EXCEPT ![w] = t]
Step(w, next) == Set(w, [txn[w] EXCEPT !.pc = next])
Fail(w) == Set(w, Idle) /\ UNCHANGED tables

Begin(r, customer, of, settles) ==
    [pc |-> "lock", type |-> r.type, key |-> r.key, day |-> r.day, amount |-> r.amount,
     customer |-> customer, of |-> of, settles |-> settles,
     claims |-> IF r.type = "sales_invoice" THEN r.claims ELSE NoLines,
     goods |-> IF r.type = "sales_invoice" THEN r.goods ELSE 0,
     cost |-> 0, taken |-> FALSE,   \* the cost of the goods, once they are taken
     entry |-> 0]                   \* the entry found by the replay check

(* Mutant of Locked: the customer's row is read without FOR UPDATE.        *)
LockedByNobody(c) == {}

(* The transactions that hold a customer's row, the stock row, a type's
   series, or the unique key of an entry they inserted.                    *)
Locked(c) == {w \in Active : txn[w].pc \notin {"lock", "convert"} /\ txn[w].customer = c}

(* Mutant of Taking: the stock row is read without FOR UPDATE.             *)
NobodyTakes == {}

Taking == {w \in Active : txn[w].taken}
Numbering(type) == {w \in Active : At(w, "store") /\ txn[w].entry = 0 /\ txn[w].type = type}
Posting(k) == {w \in Active : At(w, "store") /\ txn[w].entry = 0 /\ txn[w].key = k}
Posted(k) == {e \in DOMAIN entries : entries[e].key = k}

MaySend(k) == \/ k \in RetriedKeys
              \/ Posted(k) = {} /\ \A v \in Active : txn[v].key # k
Room == Len(documents) + Cardinality(Active) < MaxPosted

Init ==
    /\ documents = << >>
    /\ entries = << >>
    /\ invoiced = [l \in OrderLines |-> 0]
    /\ status = [o \in Orders |-> "NONE"]
    /\ quotation = [q \in Quotations |-> "NONE"]
    /\ stock = OpeningStock
    /\ txn = [w \in Workers |-> Idle]

(* Mutant of PartyInvoices: the invoices are not looked up by party.       *)
AllInvoices(c) == Invoices

(* The invoices a receipt of customer c may settle.                        *)
PartyInvoices(c) == {i \in Invoices : documents[i].customer = c}

(* A request arrives: createInvoice, createCreditNote or createDebitNote,
   payment.create.                                                         *)
SubmitInvoice(w, r) ==
    r.type = "sales_invoice" /\ Set(w, Begin(r, r.customer, 0, NoLines))
SubmitNote(w, r) ==
    /\ r.type \in Notes
    /\ \E i \in Invoices : Set(w, Begin(r, documents[i].customer, i, NoLines))
SubmitReceipt(w, r) ==
    /\ r.type = "customer_receipt"
    /\ \E I \in SUBSET Invoices : \E settles \in [I -> r.shares] :
         Set(w, Begin(r, r.customer, 0, settles))

Submit(w, r) ==
    /\ txn[w] = Idle /\ Room /\ MaySend(r.key)
    /\ SubmitInvoice(w, r) \/ SubmitNote(w, r) \/ SubmitReceipt(w, r)
    /\ UNCHANGED tables

-----------------------------------------------------------------------------
(* Quotations and orders: they post nothing *)

(* quotation.create: one transaction under the customer's lock.            *)
CreateQuotation(q) ==
    /\ quotation[q] = "NONE" /\ Locked(QuotedTo[q]) = {}
    /\ quotation' = [quotation EXCEPT ![q] = "OPEN"]
    /\ UNCHANGED <<documents, entries, invoiced, status, stock, txn>>

(* The transactions that hold a quotation's row.                           *)
Converting(q) == {w \in Active : At(w, "convert") /\ txn[w].of = q}

(* lockOpenQuotation succeeds; it fails on any other status.               *)
OpenQuotation(q) == Converting(q) = {} /\ quotation[q] = "OPEN"

(* quotation.reject and quotation.cancel                                   *)
CloseQuotation(q) ==
    /\ OpenQuotation(q)
    /\ quotation' = [quotation EXCEPT ![q] = "CLOSED"]
    /\ UNCHANGED <<documents, entries, invoiced, status, stock, txn>>

(* salesOrder.createFromQuotation locks the quotation, then the customer.  *)
StartConversion(w, q) ==
    /\ txn[w] = Idle /\ OpenQuotation(q)
    /\ Set(w, [pc |-> "convert", type |-> "sales_order", key |-> NoQuotation,
               customer |-> QuotedTo[q], of |-> q, taken |-> FALSE])
    /\ UNCHANGED tables

MakeOrder(w) ==
    /\ At(w, "convert") /\ Locked(txn[w].customer) = {}
    /\ \E o \in Orders :
         /\ status[o] = "NONE" /\ MadeFrom[o] = txn[w].of
         /\ status' = [status EXCEPT ![o] = "OPEN"]
    /\ quotation' = [quotation EXCEPT ![txn[w].of] = "CONVERTED"]
    /\ Set(w, Idle)
    /\ UNCHANGED <<documents, entries, invoiced, stock>>

(* salesOrder.create                                                       *)
CreateOrder(o) ==
    /\ status[o] = "NONE" /\ MadeFrom[o] = NoQuotation
    /\ Locked(CustomerOf[o]) = {}
    /\ status' = [status EXCEPT ![o] = "OPEN"]
    /\ UNCHANGED <<documents, entries, invoiced, quotation, stock, txn>>

(* salesOrder.cancel                                                       *)
CancelOrder(o) ==
    /\ status[o] = "OPEN"
    /\ status' = [status EXCEPT ![o] = "CANCELLED"]
    /\ UNCHANGED <<documents, entries, invoiced, quotation, stock, txn>>

-----------------------------------------------------------------------------
(* Locking the customer and checking the document *)

Claimable(t) ==
    \A l \in DOMAIN t.claims :
      /\ CustomerOf[OrderOf[l]] = t.customer
      /\ status[OrderOf[l]] \notin {"NONE", "CANCELLED", "INVOICED"}
      /\ invoiced[l] + t.claims[l] <= Ordered[l]

(* The notes of one kind never exceed the invoice.                         *)
WithinInvoice(t) == Total(Against(t.type, t.of), Amount) + t.amount <= Amount(t.of)

Payable(t) ==
    /\ DOMAIN t.settles \subseteq PartyInvoices(t.customer)
    /\ \A i \in DOMAIN t.settles : t.settles[i] <= Outstanding(i, LastDay)
    /\ Total(DOMAIN t.settles, LAMBDA i : t.settles[i]) <= t.amount

Acceptable(t) ==
    /\ t.type = "sales_invoice" => Claimable(t)
    /\ t.type \in Notes => WithinInvoice(t)
    /\ t.type = "customer_receipt" => Payable(t)

LockCustomer(w) ==
    /\ At(w, "lock")
    /\ Locked(txn[w].customer) = {}
    /\ \/ /\ Acceptable(txn[w])
          /\ Step(w, IF txn[w].goods > 0 THEN "goods" ELSE "post")
          /\ UNCHANGED tables
       \/ ~Acceptable(txn[w]) /\ Fail(w)

(* The goods leave at weighted-average cost.                               *)
TakeGoods(w) ==
    LET t == txn[w] IN
    /\ At(w, "goods")
    /\ Taking = {}
    /\ \/ /\ CanIssue(stock, t.goods)
          /\ Set(w, [t EXCEPT !.pc = "post", !.taken = TRUE,
                              !.cost = IssuedValue(stock, t.goods)])
          /\ UNCHANGED tables
       \/ ~CanIssue(stock, t.goods) /\ Fail(w)

-----------------------------------------------------------------------------
(* postEntry, the document and COMMIT *)

(* The entry is inserted and holds its series and its key until COMMIT, or
   the key is found: then nothing is posted and the old entry is used.  A
   race lost between look-up and insert ends like any other error.         *)
PostEntry(w) ==
    /\ At(w, "post")
    /\ Numbering(txn[w].type) = {} /\ Posting(txn[w].key) = {}
    /\ \/ Posted(txn[w].key) = {} /\ Step(w, "store")
       \/ \E e \in Posted(txn[w].key) : Set(w, [txn[w] EXCEPT !.pc = "store", !.entry = e])
    /\ UNCHANGED tables

(* The entries: the cost of goods sold leaves Inventory.                   *)
NewEntry(t) ==
    [key |-> t.key, type |-> t.type, day |-> t.day, receivable |-> 0, inventory |-> 0]
InvoiceEntry(t) == [NewEntry(t) EXCEPT !.receivable = t.amount, !.inventory = -t.cost]
CreditNoteEntry(t) == [NewEntry(t) EXCEPT !.receivable = -t.amount]
DebitNoteEntry(t) == [NewEntry(t) EXCEPT !.receivable = t.amount]
ReceiptEntry(t) == [NewEntry(t) EXCEPT !.receivable = -t.amount]

NewDocument(t) ==
    [type |-> t.type, customer |-> t.customer, day |-> t.day, amount |-> t.amount,
     of |-> t.of, settles |-> t.settles, claims |-> t.claims, goods |-> t.goods,
     entry |-> IF t.entry = 0 THEN Len(entries) + 1 ELSE t.entry]

(* Mutant of Progress: one finished line finishes the order.               *)
ProgressByOneLine(o, count) ==
    IF \E l \in OrderLines : OrderOf[l] = o /\ count[l] >= Ordered[l]
    THEN "INVOICED" ELSE "PARTIALLY_INVOICED"

(* The status of an order after an invoice, by the counters of its lines.  *)
Progress(o, count) ==
    IF \A l \in OrderLines : OrderOf[l] = o => count[l] >= Ordered[l]
    THEN "INVOICED" ELSE "PARTIALLY_INVOICED"

CountClaims(t) ==
    /\ invoiced' = [l \in OrderLines |->
                      IF l \in DOMAIN t.claims THEN invoiced[l] + t.claims[l] ELSE invoiced[l]]
    /\ status' = [o \in Orders |->
                    IF \E l \in DOMAIN t.claims : OrderOf[l] = o
                    THEN Progress(o, invoiced') ELSE status[o]]

(* The document is stored; without an entry of its own when the key was
   found.                                                                  *)
Store(w, type, entry(_)) ==
    LET t == txn[w] IN
    /\ At(w, "store") /\ t.type = type
    /\ entries' = IF t.entry = 0 THEN Append(entries, entry(t)) ELSE entries
    /\ documents' = Append(documents, NewDocument(t))
    /\ Set(w, Idle)
    /\ UNCHANGED quotation

StoreInvoice(w) ==
    /\ Store(w, "sales_invoice", InvoiceEntry)
    /\ CountClaims(txn[w])
    /\ stock' = IF txn[w].taken THEN AfterIssue(stock, txn[w].goods) ELSE stock

StoreCreditNote(w) ==
    Store(w, "sales_credit_note", CreditNoteEntry) /\ UNCHANGED <<invoiced, status, stock>>
StoreDebitNote(w) ==
    Store(w, "sales_debit_note", DebitNoteEntry) /\ UNCHANGED <<invoiced, status, stock>>
StoreReceipt(w) ==
    Store(w, "customer_receipt", ReceiptEntry) /\ UNCHANGED <<invoiced, status, stock>>

(* An error in another step, a timeout or a crash before COMMIT.           *)
Rollback(w) == txn[w] # Idle /\ Fail(w)

Advance(w) ==
    \/ LockCustomer(w) \/ TakeGoods(w) \/ PostEntry(w)
    \/ StoreInvoice(w) \/ StoreCreditNote(w) \/ StoreDebitNote(w) \/ StoreReceipt(w)

Next ==
    \/ \E w \in Workers :
         \/ \E r \in Requests : Submit(w, r)
         \/ \E q \in Quotations : StartConversion(w, q)
         \/ MakeOrder(w) \/ Advance(w) \/ Rollback(w)
    \/ \E q \in Quotations : CreateQuotation(q) \/ CloseQuotation(q)
    \/ \E o \in Orders : CreateOrder(o) \/ CancelOrder(o)

Spec == Init /\ [][Next]_vars

-----------------------------------------------------------------------------
(* What the sales documents must guarantee *)

(* Every variable holds a value of its kind; no goods are sold that are not
   there.                                                                  *)
TypeOK ==
    /\ \A i \in DOMAIN documents :
         /\ documents[i].type \in Types /\ documents[i].customer \in Customers
         /\ documents[i].amount > 0 /\ documents[i].of \in 0 .. (i - 1)
         /\ DOMAIN documents[i].settles \subseteq 1 .. (i - 1)
         /\ documents[i].entry \in DOMAIN entries
    /\ invoiced \in [OrderLines -> Nat]
    /\ status \in [Orders -> {"NONE", "OPEN", "PARTIALLY_INVOICED", "INVOICED", "CANCELLED"}]
    /\ quotation \in [Quotations -> {"NONE", "OPEN", "CONVERTED", "CLOSED"}]
    /\ stock \in State

(* "An invoice can never be allocated more than it still owes", although
   nothing but the customer's row orders the documents: invoices are open
   items, notes change what they are worth and receipts settle at most what
   is open (payment.service.ts, lockCustomer, createNote).                 *)
InvoiceWorth(i) == Amount(i) + Total(Against("sales_debit_note", i), Amount)
                     - Total(Against("sales_credit_note", i), Amount)
OpenInvoices ==
    INSTANCE OpenItems WITH worth <- [i \in Invoices |-> InvoiceWorth(i)],
                            settled <- [i \in Invoices |-> AllocatedTo(i, LastDay)]
SettlesOnlyWhatIsOpen == OpenInvoices!Spec

(* The ageing report ties to the receivables control account (docs/14 M6
   gate; aging.service.ts).                                                *)
AgeingTiesToLedger == AgeingTotal(LastDay) = LedgerBalance(LastDay)

(* What the ageing report and the statement say a customer owes is the
   same: nothing is settled across customers.                              *)
StatementsMatchAgeing ==
    \A c \in Customers : Statement(c, LastDay) = Ageing(c, LastDay)

(* The counters and the status of every order tell what its invoices took:
   never more than was ordered, finished only when every line is, and no
   invoice of an order that is cancelled or was never made (createInvoice,
   cancel); a quotation becomes at most one order, and none when it was
   rejected or cancelled meanwhile (createFromQuotation, close).           *)
OrdersTellWhatHappened ==
    /\ \A l \in OrderLines :
         LET claiming == {i \in Invoices : l \in DOMAIN documents[i].claims}
         IN /\ invoiced[l] = Total(claiming, LAMBDA i : documents[i].claims[l])
            /\ invoiced[l] <= Ordered[l]
    /\ \A o \in Orders :
         LET lines == {l \in OrderLines : OrderOf[l] = o} IN
         /\ status[o] = "INVOICED" <=> \A l \in lines : invoiced[l] = Ordered[l]
         /\ status[o] = "PARTIALLY_INVOICED" => \E l \in lines : invoiced[l] > 0
         /\ status[o] \in {"NONE", "OPEN", "CANCELLED"} => \A l \in lines : invoiced[l] = 0
    /\ \A q \in Quotations :
         Cardinality({o \in Orders : MadeFrom[o] = q /\ status[o] # "NONE"})
           = IF quotation[q] = "CONVERTED" THEN 1 ELSE 0

(* Goods and their value leave the stock row and the Inventory account
   together, once per invoice, whoever sells at the same time.             *)
SoldGoodsLeaveTheBooks ==
    /\ OpeningStock.quantity - stock.quantity = Total(Invoices, LAMBDA i : documents[i].goods)
    /\ stock.value - OpeningStock.value
         = Total(DOMAIN entries, LAMBDA e : entries[e].inventory)

=============================================================================
