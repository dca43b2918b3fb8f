----------------------------- MODULE Purchasing -----------------------------
(***************************************************************************)
(* The purchasing cycle (packages/core/src/purchasing): requests to buy,   *)
(* orders and their approval, goods received and returned against an       *)
(* order, the supplier's invoices, debit notes and payments (direction     *)
(* PAYMENT of packages/core/src/payments).  Orders post nothing; a receipt *)
(* credits GRNI at the order price, a return debits it, and an invoice     *)
(* clears it.                                                              *)
(*                                                                         *)
(* Receipts and returns lock their order, invoices lock order lines,       *)
(* payments the supplier, debit notes nothing: only a CHECK of the         *)
(* database stands between a return and an invoice of the same goods.      *)
(* There is one supplier and one stock row; taxes are left out, and a      *)
(* document names an order line once.                                      *)
(***************************************************************************)
EXTENDS WeightedAverage, Sequences, FiniteSets, SequencesExt

CONSTANTS
    Workers,            \* concurrent requests to the server
    PurchaseRequests,   \* internal requests to buy
    NoRequest,          \* what an order without one is made from
    Orders,
    Lines,              \* order lines
    OrderOf,            \* the order of a line
    Ordered,            \* its quantity
    Price,              \* its agreed price
    NeedsApproval,      \* orders worth more than the approval threshold
    OpeningStock,       \* what the stock row holds at first
    Keys,               \* idempotency keys
    RetriedKeys,        \* those a client may send again after they were posted
    Submissions,        \* documents that may be submitted
    Idle,               \* the transaction of a worker without one
    MaxPosted           \* bound on posted documents

NoLines == [l \in {} |-> 0]
Moves == {"goods_receipt", "goods_return"}
Types == Moves \cup {"supplier_invoice", "supplier_debit_note", "supplier_payment", "stock_issue"}

Total(S, amount(_)) == SumFunction([x \in S |-> amount(x)])

(* What the lines of a document are worth, each rounded on its own.        *)
Worth(qty, price) == Total(DOMAIN qty, LAMBDA l : LineValue(qty[l], price[l]))

\* `expense` is the value of invoice lines without an order line; `accepted`
\* says that a difference in price is accepted; `share` is what a payment
\* allocates to one invoice, the rest stays on account.
SoundSubmission(s) ==
    /\ s.key \in Keys /\ s.type \in Types \ {"stock_issue"}
    /\ s.type \in Moves \cup {"supplier_invoice"} =>
         DOMAIN s.qty \subseteq Lines /\ s.qty \in [DOMAIN s.qty -> Nat \ {0}]
    /\ s.type \in Moves =>
         /\ s.order \in Orders /\ s.qty # NoLines
         /\ \A l \in DOMAIN s.qty : OrderOf[l] = s.order
    /\ s.type = "supplier_invoice" =>
         /\ s.price \in [DOMAIN s.qty -> Nat]
         /\ s.expense \in Nat /\ s.accepted \in BOOLEAN
    /\ s.type \in {"supplier_debit_note", "supplier_payment"} => s.amount \in Nat \ {0}
    /\ s.type = "supplier_payment" => s.share \in Nat /\ s.share <= s.amount

ASSUME PurchasingAssumption ==
    /\ IsFiniteSet(Lines)
    /\ OrderOf \in [Lines -> Orders] /\ NeedsApproval \subseteq Orders
    /\ \A o \in Orders : \E l \in Lines : OrderOf[l] = o
    /\ \A l \in Lines : Ordered[l] \in Nat \ {0} /\ Price[l] \in Nat
    /\ NoRequest \notin PurchaseRequests \cup Orders \cup Keys /\ RetriedKeys \subseteq Keys
    /\ \A s \in Submissions : SoundSubmission(s)
    /\ OpeningStock \in State /\ MaxPosted \in Nat

VARIABLES
    requests,       \* status of every purchase request
    orders,         \* status, approval and purchase request of every order
    received,       \* received_quantity of every order line
    invoiced,       \* invoiced_quantity of every order line
    stock,          \* the stock row
    documents,      \* posted receipts, returns, invoices, notes and issues
    entries,        \* journal entries: key, change of the accounts
    txn             \* the open transactions

tables == <<requests, orders, received, invoiced, stock, documents, entries>>
vars == <<tables, txn>>

OrderStatus == {"NONE", "PENDING_APPROVAL", "APPROVED", "REJECTED", "CANCELLED",
                "PARTIALLY_RECEIVED", "RECEIVED"}
Approvals == {"NONE", "PENDING", "APPROVED", "REJECTED"}
LinesOf(o) == {l \in Lines : OrderOf[l] = o}
OfType(type) == {d \in DOMAIN documents : documents[d].type = type}
Amount(d) == documents[d].amount

-----------------------------------------------------------------------------
(* Transactions and their locks *)

Active == {w \in Workers : txn[w] # Idle}
At(w, step) == txn[w] # Idle /\ txn[w].pc = step
Set(w, t) == txn' = [txn EXCEPT ![w] = t]
Fail(w) == Set(w, Idle) /\ UNCHANGED tables
Proceed(w, next) == Set(w, [txn[w] EXCEPT !.pc = next]) /\ UNCHANGED tables

(* Mutant of LockedOrder: the order is read without FOR UPDATE.            *)
OrderOfNobody(o) == {}

(* Mutant of LockedRequest: the request is read without FOR UPDATE.        *)
RequestOfNobody(r) == {}

(* Mutant of LockedLines: evaluate reads the order lines without FOR UPDATE. *)
LinesOfNobody(L) == {}

(* The transactions that hold a purchase request, an order, one of some
   order lines, the supplier's row, the stock row, a type's series or the
   key of an entry.                                                        *)
LockedRequest(r) == {w \in Active : At(w, "place") /\ txn[w].request = r}
LockedOrder(o) == {w \in Active : txn[w].type \in Moves /\ txn[w].pc # "begin" /\ txn[w].order = o}
LockedLines(L) == {w \in Active : /\ txn[w].type = "supplier_invoice" /\ txn[w].pc # "begin"
                                  /\ DOMAIN txn[w].qty \cap L # {}}
Paying == {w \in Active : txn[w].type = "supplier_payment" /\ txn[w].pc # "begin"}
Taking == {w \in Active : txn[w].type \in Moves /\ txn[w].pc \in {"post", "store"}}
Numbering(type) == {w \in Active : At(w, "store") /\ txn[w].entry = 0 /\ txn[w].type = type}
Posting(k) == {w \in Active : At(w, "store") /\ txn[w].entry = 0 /\ txn[w].key = k}
Posted(k) == {e \in DOMAIN entries : entries[e].key = k}

Buying == {w \in Active : txn[w].type = "purchase_order"}
MaySend(k) == \/ k \in RetriedKeys
              \/ Posted(k) = {} /\ \A v \in Active \ Buying : txn[v].key # k
Room == Len(documents) + Cardinality(Active \ Buying) < MaxPosted

Init ==
    /\ requests = [r \in PurchaseRequests |-> "NONE"]
    /\ orders = [o \in Orders |-> [status |-> "NONE", approval |-> "NONE", from |-> NoRequest]]
    /\ received = [l \in Lines |-> 0]
    /\ invoiced = [l \in Lines |-> 0]
    /\ stock = OpeningStock
    /\ documents = << >>
    /\ entries = << >>
    /\ txn = [w \in Workers |-> Idle]

-----------------------------------------------------------------------------
(* Purchase requests and orders *)

(* A request is made; accept and reject lock it, look and write it.        *)
CreateRequest(r) ==
    /\ requests[r] = "NONE"
    /\ requests' = [requests EXCEPT ![r] = "PENDING"]
    /\ UNCHANGED <<orders, received, invoiced, stock, documents, entries, txn>>

Accept(r) ==
    /\ LockedRequest(r) = {} /\ requests[r] = "PENDING"
    /\ requests' = [requests EXCEPT ![r] = "ACCEPTED"]
    /\ UNCHANGED <<orders, received, invoiced, stock, documents, entries, txn>>

Reject(r) ==
    /\ LockedRequest(r) = {} /\ requests[r] \in {"PENDING", "ACCEPTED"}
    /\ requests' = [requests EXCEPT ![r] = "REJECTED"]
    /\ UNCHANGED <<orders, received, invoiced, stock, documents, entries, txn>>

(* create, for purchase request r or for none.                             *)
SubmitOrder(w, o, r) ==
    /\ txn[w] = Idle /\ orders[o].status = "NONE"
    /\ \A v \in Buying : txn[v].order # o
    /\ Set(w, [pc |-> "begin", type |-> "purchase_order", order |-> o, request |-> r])
    /\ UNCHANGED tables

(* Mutant of Buyable: a request may be bought more than once.              *)
NotRejected(r) == r # NoRequest => requests[r] \in {"ACCEPTED", "PROCESSED"}

Buyable(r) == r # NoRequest => requests[r] = "ACCEPTED"

(* The order takes its number, which makes other new orders wait, then the
   lock of its request.                                                    *)
LockRequest(w) ==
    LET t == txn[w] IN
    /\ w \in Buying /\ At(w, "begin")
    /\ \A v \in Workers : ~At(v, "place")
    /\ \/ Buyable(t.request) /\ Proceed(w, "place")
       \/ ~Buyable(t.request) /\ Fail(w)

(* evaluateAndRequest: an order above the threshold asks for approval.     *)
Approval(o) == IF o \in NeedsApproval THEN "PENDING" ELSE "NONE"

PlaceOrder(w) ==
    LET t == txn[w] IN
    /\ At(w, "place")
    /\ orders' = [orders EXCEPT ![t.order] =
                    [status |-> IF Approval(t.order) = "NONE" THEN "APPROVED" ELSE "PENDING_APPROVAL",
                     approval |-> Approval(t.order), from |-> t.request]]
    /\ requests' = [r \in PurchaseRequests |->
                      IF r = t.request THEN "PROCESSED" ELSE requests[r]]
    /\ Set(w, Idle)
    /\ UNCHANGED <<received, invoiced, stock, documents, entries>>

(* approvals.decide refuses an approval that was decided before.  It reads
   the approval without a lock, under the order's.                         *)
Undecided(o) == orders[o].approval = "PENDING"

Decide(o, decision) ==
    /\ LockedOrder(o) = {}
    /\ orders[o].status = "PENDING_APPROVAL" /\ Undecided(o)
    /\ orders' = [orders EXCEPT ![o].status = decision, ![o].approval = decision]
    /\ UNCHANGED <<requests, received, invoiced, stock, documents, entries, txn>>

(* cancel: an approval that is still pending is rejected.                  *)
Cancel(o) ==
    /\ LockedOrder(o) = {}
    /\ \/ orders[o].status = "PENDING_APPROVAL" /\ Undecided(o)
          /\ orders' = [orders EXCEPT ![o].status = "CANCELLED", ![o].approval = "REJECTED"]
       \/ orders[o].status = "APPROVED"
          /\ orders' = [orders EXCEPT ![o].status = "CANCELLED"]
    /\ UNCHANGED <<requests, received, invoiced, stock, documents, entries, txn>>

-----------------------------------------------------------------------------
(* Documents: what they lock and check first *)

Begin(s) ==
    [pc |-> "begin", type |-> s.type, key |-> s.key, order |-> NoRequest,
     qty |-> NoLines, price |-> NoLines, expense |-> 0, accepted |-> FALSE,
     number |-> NoRequest,      \* the supplier's number of an invoice
     amount |-> 0, of |-> 0,    \* a debit note or payment and its invoice
     share |-> 0,               \* what a payment settles of it
     seen |-> received,         \* the counters read with the order
     cost |-> 0,                \* what a receipt or a return moves in stock
     entry |-> 0]               \* the entry found by the replay check

SubmitMove(w, s) ==
    s.type \in Moves /\ Set(w, [Begin(s) EXCEPT !.order = s.order, !.qty = s.qty])
SubmitInvoice(w, s) ==
    /\ s.type = "supplier_invoice"
    /\ Set(w, [Begin(s) EXCEPT
                 !.qty = s.qty, !.price = s.price, !.expense = s.expense,
                 !.accepted = s.accepted, !.number = s.number,
                 !.amount = Worth(s.qty, s.price) + s.expense])
SubmitNote(w, s) ==
    /\ s.type = "supplier_debit_note"
    /\ \E i \in OfType("supplier_invoice") :
         Set(w, [Begin(s) EXCEPT !.amount = s.amount, !.of = i])
SubmitPayment(w, s) ==
    /\ s.type = "supplier_payment"
    /\ \E i \in OfType("supplier_invoice") :
         Set(w, [Begin(s) EXCEPT !.amount = s.amount, !.of = i, !.share = s.share])

Submit(w, s) ==
    /\ txn[w] = Idle /\ Room /\ MaySend(s.key)
    /\ SubmitMove(w, s) \/ SubmitInvoice(w, s) \/ SubmitNote(w, s) \/ SubmitPayment(w, s)
    /\ UNCHANGED tables

(* No more than was received and is not yet invoiced.                       *)
Uninvoiced(t) == \A l \in DOMAIN t.qty : t.qty[l] <= received[l] - invoiced[l]

Receivable(t) ==
    /\ orders[t.order].status \in {"APPROVED", "PARTIALLY_RECEIVED"}
    /\ \A l \in DOMAIN t.qty : received[l] + t.qty[l] <= Ordered[l]

Returnable(t) ==
    /\ orders[t.order].status \in {"PARTIALLY_RECEIVED", "RECEIVED"}
    /\ Uninvoiced(t)

(* receive and goodsReturn.create lock the order and read its lines.       *)
LockOrder(w) ==
    LET t == txn[w]
        sound == IF t.type = "goods_receipt" THEN Receivable(t) ELSE Returnable(t)
    IN
    /\ At(w, "begin") /\ t.type \in Moves
    /\ LockedOrder(t.order) = {}
    /\ \/ /\ sound
          /\ Set(w, [t EXCEPT !.pc = "goods", !.seen = received])
          /\ UNCHANGED tables
       \/ ~sound /\ Fail(w)

Quantity(qty) == Total(DOMAIN qty, LAMBDA l : qty[l])

\* The stock row after the lines of a receipt, whose order does not matter,
\* and after those of a return, one by one.
ReceiveAll(s, qty) ==
    [quantity |-> s.quantity + Quantity(qty), value |-> s.value + Worth(qty, Price)]
ReturnAll(s, qty) == FoldSet(LAMBDA l, state : AfterIssue(state, qty[l]), s, DOMAIN qty)

(* What the goods of a return take from the stock row.                     *)
ReturnedValue(s, qty) == s.value - ReturnAll(s, qty).value

(* lockStockRow: goods come at the order price and return at the weighted
   average.                                                                *)
TakeGoods(w) ==
    LET t == txn[w]
        enough == t.type = "goods_receipt" \/ CanIssue(stock, Quantity(t.qty))
    IN
    /\ At(w, "goods")
    /\ Taking = {}
    /\ \/ /\ enough
          /\ Set(w, [t EXCEPT !.pc = "post",
                       !.cost = IF t.type = "goods_receipt" THEN Worth(t.qty, Price)
                                ELSE ReturnedValue(stock, t.qty)])
          /\ UNCHANGED tables
       \/ ~enough /\ Fail(w)

NumberEntered(number) == \E d \in OfType("supplier_invoice") : documents[d].number = number

(* Whether a line is worth another amount than the order says: a difference
   in price may vanish in the rounding.                                    *)
PriceVaries(t) ==
    \E l \in DOMAIN t.qty : LineValue(t.qty[l], t.price[l]) # LineValue(t.qty[l], Price[l])

(* evaluate and the checks of create: goods that await an invoice, every
   difference in price accepted, something to pay, a new number.           *)
Invoiceable(t) ==
    /\ Uninvoiced(t)
    /\ PriceVaries(t) => t.accepted
    /\ t.amount > 0
    /\ ~NumberEntered(t.number)

LockLines(w) ==
    LET t == txn[w] IN
    /\ At(w, "begin") /\ t.type = "supplier_invoice"
    /\ LockedLines(DOMAIN t.qty) = {}
    /\ \/ Invoiceable(t) /\ Proceed(w, "post")
       \/ ~Invoiceable(t) /\ Fail(w)

NotesOf(i) == {d \in OfType("supplier_debit_note") : documents[d].of = i}

(* createDebitNote reads the notes that were posted before and locks
   nothing.                                                                *)
CheckNote(w) ==
    LET t == txn[w]
        within == Total(NotesOf(t.of), Amount) + t.amount <= Amount(t.of)
    IN
    /\ At(w, "begin") /\ t.type = "supplier_debit_note"
    /\ \/ within /\ Proceed(w, "post")
       \/ ~within /\ Fail(w)

PaymentsOf(i) == {d \in OfType("supplier_payment") : documents[d].of = i}
Settled(i) == Total(PaymentsOf(i), LAMBDA d : documents[d].share)

(* loadOutstanding, side SUPPLIER.                                         *)
Outstanding(i) == Amount(i) - Settled(i) - Total(NotesOf(i), Amount)

(* The ageing report of the supplier: open invoices less what is on account. *)
Ageing ==
    Total(OfType("supplier_invoice"), Outstanding)
      - Total(OfType("supplier_payment"), LAMBDA d : documents[d].amount - documents[d].share)

(* payment.create locks the supplier and checks what the invoice still owes. *)
LockSupplier(w) ==
    LET t == txn[w] IN
    /\ At(w, "begin") /\ t.type = "supplier_payment"
    /\ Paying = {}
    /\ \/ t.share <= Outstanding(t.of) /\ Proceed(w, "post")
       \/ t.share > Outstanding(t.of) /\ Fail(w)

-----------------------------------------------------------------------------
(* postEntry, the document, the counters and COMMIT *)

(* validateShape refuses an entry without amounts: that of a receipt of
   goods that are worth nothing, or of a return that neither GRNI nor the
   stock row notices.                                                      *)
Worthless(t) ==
    /\ t.type \in Moves /\ t.cost = 0
    /\ t.type = "goods_return" => Worth(t.qty, Price) = 0

(* One step stands for the engine, which Posting models: the entry holds
   its series and key until COMMIT, or the key is found and posts nothing. *)
PostEntry(w) ==
    LET t == txn[w] IN
    /\ At(w, "post")
    /\ \/ Worthless(t) /\ Fail(w)
       \/ /\ ~Worthless(t)
          /\ Numbering(t.type) = {} /\ Posting(t.key) = {}
          /\ \/ Posted(t.key) = {} /\ Set(w, [t EXCEPT !.pc = "store"])
             \/ \E e \in Posted(t.key) : Set(w, [t EXCEPT !.pc = "store", !.entry = e])
          /\ UNCHANGED tables

(* Debits count up, credits down.                                          *)
NewEntry(t) == [key |-> t.key, inventory |-> 0, grni |-> 0, payable |-> 0]
ReceiptEntry(t) == [NewEntry(t) EXCEPT !.inventory = t.cost, !.grni = -t.cost]

(* Mutant of ReturnEntry: GRNI is debited with what leaves the stock row.  *)
ReturnAtCost(t) == [NewEntry(t) EXCEPT !.inventory = -t.cost, !.grni = t.cost]

ReturnEntry(t) == [NewEntry(t) EXCEPT !.inventory = -t.cost, !.grni = Worth(t.qty, Price)]
InvoiceEntry(t) == [NewEntry(t) EXCEPT !.grni = Worth(t.qty, Price), !.payable = -t.amount]
NoteEntry(t) == [NewEntry(t) EXCEPT !.payable = t.amount]
PaymentEntry(t) == [NewEntry(t) EXCEPT !.payable = t.amount]

NewDocument(t) ==
    [type |-> t.type, qty |-> t.qty, amount |-> t.amount, of |-> t.of, share |-> t.share,
     number |-> t.number,
     entry |-> IF t.entry = 0 THEN Len(entries) + 1 ELSE t.entry]

(* The number of a receipt or a return is its entry's, and unique.         *)
NumberTaken(t) == \E d \in OfType(t.type) : documents[d].entry = t.entry

(* The checks of purchase_order_lines.                                     *)
Backstop(rec, inv) ==
    \A l \in Lines : 0 <= inv[l] /\ inv[l] <= rec[l] /\ rec[l] <= Ordered[l]

\* The counters of the order as the transaction computes them.
AfterMove(t) ==
    LET moved(l) == IF l \in DOMAIN t.qty THEN t.qty[l] ELSE 0
    IN [l \in LinesOf(t.order) |-> IF t.type = "goods_receipt" THEN t.seen[l] + moved(l)
                                   ELSE t.seen[l] - moved(l)]

Progress(o, rec) ==
    IF \A l \in LinesOf(o) : rec[l] >= Ordered[l] THEN "RECEIVED"
    ELSE IF \E l \in LinesOf(o) : rec[l] > 0 THEN "PARTIALLY_RECEIVED"
    ELSE "APPROVED"

(* The document is stored; without an entry of its own when the key was
   found.                                                                  *)
Store(w, entry(_)) ==
    LET t == txn[w] IN
    /\ entries' = IF t.entry = 0 THEN Append(entries, entry(t)) ELSE entries
    /\ documents' = Append(documents, NewDocument(t))
    /\ Set(w, Idle)

Stores(w, type) == At(w, "store") /\ txn[w].type = type

\* received_quantity of all lines after a receipt or a return
ReceivedAfter(t) ==
    [l \in Lines |-> IF l \in DOMAIN t.qty THEN AfterMove(t)[l] ELSE received[l]]

MoveIsSound(t) == ~NumberTaken(t) /\ Backstop(ReceivedAfter(t), invoiced)

(* The counters and the status of the order; an invoice that holds a line
   makes it wait.                                                          *)
StoreMove(w, entry(_), goods(_, _)) ==
    LET t == txn[w] IN
    /\ LockedLines(DOMAIN t.qty) = {} /\ MoveIsSound(t)
    /\ Store(w, entry)
    /\ stock' = goods(stock, t.qty)
    /\ received' = ReceivedAfter(t)
    /\ orders' = [orders EXCEPT ![t.order].status = Progress(t.order, AfterMove(t))]
    /\ UNCHANGED <<requests, invoiced>>

StoreReceipt(w) == Stores(w, "goods_receipt") /\ StoreMove(w, ReceiptEntry, ReceiveAll)
StoreReturn(w) == Stores(w, "goods_return") /\ StoreMove(w, ReturnEntry, ReturnAll)
RefuseMove(w) ==
    /\ At(w, "store") /\ txn[w].type \in Moves
    /\ LockedLines(DOMAIN txn[w].qty) = {} /\ ~MoveIsSound(txn[w])
    /\ Fail(w)

\* The order an invoice refers to: the only one its lines come from.
Referred(t) == {o \in Orders : DOMAIN t.qty # {} /\ \A l \in DOMAIN t.qty : OrderOf[l] = o}

(* The invoice refers to its order, which makes it wait while the order is
   locked; the supplier's number is unique.                                *)
StoreInvoice(w) ==
    LET t == txn[w]
        inv == [l \in Lines |-> IF l \in DOMAIN t.qty THEN invoiced[l] + t.qty[l] ELSE invoiced[l]]
        sound == ~NumberEntered(t.number) /\ Backstop(received, inv)
    IN
    /\ Stores(w, "supplier_invoice")
    /\ \A o \in Referred(t) : LockedOrder(o) = {}
    /\ \/ /\ sound
          /\ Store(w, InvoiceEntry)
          /\ invoiced' = inv
          /\ UNCHANGED <<requests, orders, received, stock>>
       \/ ~sound /\ Fail(w)

(* The debit note and the payment move nothing but the accounts.           *)
StoreNote(w) ==
    /\ Stores(w, "supplier_debit_note") /\ Store(w, NoteEntry)
    /\ UNCHANGED <<requests, orders, received, invoiced, stock>>
StorePayment(w) ==
    /\ Stores(w, "supplier_payment") /\ Store(w, PaymentEntry)
    /\ UNCHANGED <<requests, orders, received, invoiced, stock>>

(* A stock issue, which Inventory models, takes one unit of the goods.     *)
IssueGoods ==
    /\ Room /\ Taking = {} /\ CanIssue(stock, 1)
    /\ entries' = Append(entries, [key |-> NoRequest, inventory |-> -IssuedValue(stock, 1),
                                   grni |-> 0, payable |-> 0])
    /\ documents' = Append(documents, [type |-> "stock_issue", qty |-> NoLines, amount |-> 0,
                                       of |-> 0, share |-> 0, number |-> NoRequest, entry |-> Len(entries')])
    /\ stock' = AfterIssue(stock, 1)
    /\ UNCHANGED <<requests, orders, received, invoiced, txn>>

(* An error in another step, a deadlock, a timeout or a crash before COMMIT. *)
Rollback(w) == txn[w] # Idle /\ Fail(w)

Advance(w) ==
    \/ LockRequest(w) \/ PlaceOrder(w)
    \/ LockOrder(w) \/ TakeGoods(w) \/ LockLines(w) \/ CheckNote(w) \/ LockSupplier(w)
    \/ PostEntry(w)
    \/ StoreReceipt(w) \/ StoreReturn(w) \/ RefuseMove(w)
    \/ StoreInvoice(w) \/ StoreNote(w) \/ StorePayment(w)

Next ==
    \/ \E w \in Workers :
         \/ \E o \in Orders, r \in PurchaseRequests \cup {NoRequest} : SubmitOrder(w, o, r)
         \/ \E s \in Submissions : Submit(w, s)
         \/ Advance(w) \/ Rollback(w)
    \/ \E r \in PurchaseRequests : CreateRequest(r) \/ Accept(r) \/ Reject(r)
    \/ \E o \in Orders : Cancel(o) \/ \E decision \in {"APPROVED", "REJECTED"} : Decide(o, decision)
    \/ IssueGoods

Spec == Init /\ [][Next]_vars

-----------------------------------------------------------------------------
(* What purchasing must guarantee *)

(* Every variable holds a value of its kind; no goods return that are not
   there.                                                                  *)
TypeOK ==
    /\ requests \in [PurchaseRequests -> {"NONE", "PENDING", "ACCEPTED", "REJECTED", "PROCESSED"}]
    /\ orders \in [Orders -> [status : OrderStatus, approval : Approvals,
                              from : PurchaseRequests \cup {NoRequest}]]
    /\ received \in [Lines -> Nat] /\ invoiced \in [Lines -> Nat]
    /\ stock \in State
    /\ \A d \in DOMAIN documents :
         /\ documents[d].type \in Types /\ documents[d].amount \in Nat
         /\ documents[d].of \in 0 .. (d - 1) /\ documents[d].entry \in DOMAIN entries

Moved(type, l) ==
    Total({d \in OfType(type) : l \in DOMAIN documents[d].qty}, LAMBDA d : documents[d].qty[l])

(* The lines of a document that were rounded at the order price.          *)
RoundedLines(d) ==
    LET qty == documents[d].qty IN {l \in DOMAIN qty : (qty[l] * Price[l]) % Unit # 0}

(* The control accounts hold what the documents say (docs/05 4), whichever
   receipts, returns, invoices and retries met.  GRNI holds what was received
   at the order price and awaits an invoice, exactly as long as no line had to
   be rounded; each line that was leaves at most half the smallest amount
   there, which no invoice clears, since receipts, returns and invoices round
   every line on their own (supplier-invoice.util.ts, goods-return.service.ts).
   Inventory holds what receipts brought and returns took at changing
   averages; Payables what the ageing report says is owed to the supplier, and
   no two payments settle the same of an invoice.                          *)
GrniIsWhatAwaitsInvoices ==
    LET residue == Unit * Total(DOMAIN entries, LAMBDA e : entries[e].grni)
                     - Total(Lines, LAMBDA l : (invoiced[l] - received[l]) * Price[l])
        roundings == Total(DOMAIN documents, LAMBDA d : Cardinality(RoundedLines(d)))
    IN -(Unit * roundings) <= 2 * residue /\ 2 * residue <= Unit * roundings
StockMatchesInventoryAccount ==
    stock.value - OpeningStock.value = Total(DOMAIN entries, LAMBDA e : entries[e].inventory)
PayablesMatchAgeing ==
    -Total(DOMAIN entries, LAMBDA e : entries[e].payable) = Ageing
PaidAtMostOnce ==
    \A i \in OfType("supplier_invoice") : Settled(i) <= Amount(i)

AccountsMatchTheDocuments ==
    /\ GrniIsWhatAwaitsInvoices /\ StockMatchesInventoryAccount
    /\ PayablesMatchAgeing /\ PaidAtMostOnce

(* The counters of an order line count its documents: two people cannot
   receive, return or invoice the same quantity twice.  The status of the
   order follows its counters, back to APPROVED when all goods are returned,
   and its approval follows its status.                                    *)
CountersTellTheDocuments ==
    \A l \in Lines :
      /\ received[l] = Moved("goods_receipt", l) - Moved("goods_return", l)
      /\ invoiced[l] = Moved("supplier_invoice", l)

OrdersTellTheirProgress ==
    /\ CountersTellTheDocuments
    /\ \A o \in Orders :
         LET full == \A l \in LinesOf(o) : received[l] = Ordered[l]
             none == \A l \in LinesOf(o) : received[l] = 0
             status == orders[o].status
         IN /\ status = "RECEIVED" <=> full
            /\ status = "PARTIALLY_RECEIVED" <=> ~full /\ ~none
            /\ status = "PENDING_APPROVAL" <=> orders[o].approval = "PENDING"
            /\ orders[o].approval = "REJECTED" => status \in {"REJECTED", "CANCELLED"}

(* What a transaction checked under its locks holds until it commits,
   whoever else buys, receives, returns, invoices, cancels or rejects
   meanwhile: the order a receipt adds to is open and has room for it and the
   counters it computes from are those of the table, the goods of an invoice
   still await one, the request of a new order is still accepted.  Only a
   return may find that its goods were invoiced after it looked, as an
   invoice locks lines and not orders; then the CHECK refuses it.          *)
CheckedGoods(t) ==
    /\ t.type = "goods_receipt" => Receivable(t)
    /\ t.type = "goods_return" => \A l \in DOMAIN t.qty : t.qty[l] <= received[l]
    /\ t.type \in Moves => \A l \in LinesOf(t.order) : t.seen[l] = received[l]
    /\ t.type = "supplier_invoice" => Uninvoiced(t)

LocksKeepWhatWasChecked ==
    \A w \in Active :
      /\ txn[w].type \in Moves \cup {"supplier_invoice"} /\ txn[w].pc # "begin" => CheckedGoods(txn[w])
      /\ w \in Buying /\ At(w, "place") => Buyable(txn[w].request)

(* A purchase request is PROCESSED by exactly one order, however many buyers
   take it up and whoever rejects it meanwhile.                            *)
OneOrderPerRequest ==
    \A r \in PurchaseRequests :
      LET made == {o \in Orders : orders[o].from = r}
      IN Cardinality(made) = (IF requests[r] = "PROCESSED" THEN 1 ELSE 0)

(* A cancelled or rejected order stays so, a decided approval and a finished
   request too: no late receipt, decision or order brings them back.       *)
DecisionsKept ==
    /\ \A o \in Orders :
         /\ orders[o].status \in {"CANCELLED", "REJECTED"} => orders'[o] = orders[o]
         /\ orders[o].approval \in {"APPROVED", "REJECTED"} =>
              orders'[o].approval = orders[o].approval
    /\ \A r \in PurchaseRequests :
         requests[r] \in {"REJECTED", "PROCESSED"} => requests'[r] = requests[r]

DecisionsStand == [][DecisionsKept]_vars
=============================================================================
