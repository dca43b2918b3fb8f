-------------------------- MODULE PurchasingProofs --------------------------
(***************************************************************************)
(* Theorems of Purchasing, for any sets of orders, lines, requests to buy, *)
(* documents and workers.  The invariant says what a transaction may rely  *)
(* on: an order it has locked keeps its status and its received            *)
(* quantities, a purchase request it has locked stays accepted, an order   *)
(* that is being made does not exist yet, the goods it has taken cost what *)
(* it computed, and an invoice it pays is paid by nobody else.  On it rest *)
(* the sums: counters over documents, and accounts over entries.           *)
(***************************************************************************)
EXTENDS Purchasing, SumTheorems

-----------------------------------------------------------------------------
(* The kinds of the values *)

Orders0 == Orders \cup {NoRequest}
Requests0 == PurchaseRequests \cup {NoRequest}
Quantities == UNION {[L -> Nat \ {0}] : L \in SUBSET Lines}
Prices == UNION {[L -> Nat] : L \in SUBSET Lines}
Invoices == {s \in Submissions : s.type = "supplier_invoice"}
Numbers == {s.number : s \in Invoices} \cup {NoRequest}
Statuses == {"NONE", "PENDING", "ACCEPTED", "REJECTED", "PROCESSED"}

Order == [status : OrderStatus, approval : Approvals, from : Requests0]
Document ==
    [type : Types, qty : Quantities, amount : Nat, of : Nat, share : Nat, number : Numbers, entry : Nat]
Entry == [key : Keys \cup {NoRequest}, inventory : Int, grni : Int, payable : Int]
Buyer == [pc : {"begin", "place"}, type : {"purchase_order"}, order : Orders, request : Requests0]
Poster ==
    [pc : {"begin", "goods", "post", "store"}, type : Types \ {"stock_issue"}, key : Keys,
     order : Orders0, qty : Quantities, price : Prices, expense : Nat, accepted : BOOLEAN,
     number : Numbers, amount : Nat, of : Nat, share : Nat, seen : [Lines -> Nat],
     cost : Int, entry : Nat]

KindInv ==
    /\ requests \in [PurchaseRequests -> Statuses] /\ orders \in [Orders -> Order]
    /\ received \in [Lines -> Nat] /\ invoiced \in [Lines -> Nat] /\ stock \in State
    /\ documents \in Seq(Document) /\ entries \in Seq(Entry)
    /\ txn \in [Workers -> Buyer \cup Poster \cup {Idle}]

(* A document has an entry; notes and payments are of an earlier invoice.  *)
Settling == {"supplier_debit_note", "supplier_payment"}
Follows(d, D) ==
    IF D.type \in Settling THEN D.of \in OfType("supplier_invoice") /\ D.of < d ELSE D.of = 0
DocumentsInOrder == \A d \in DOMAIN documents : Follows(d, documents[d])
EntriesExist == \A d \in DOMAIN documents : documents[d].entry \in DOMAIN entries

-----------------------------------------------------------------------------
(* What a transaction relies on *)

(* An order that is being made does not exist; its request is accepted once
   it is locked.                                                           *)
BuyerSound(t) ==
    /\ orders[t.order].status = "NONE"
    /\ t.pc = "place" => Buyable(t.request)

(* A receipt or a return is for lines of its order, which keeps what it read;
   the stock row stays as it found it.                                     *)
Locking(t) == t.type \in Moves /\ t.pc # "begin"
Holding(t) == t.type \in Moves /\ t.pc \in {"post", "store"}
Invoicing(t) == t.type = "supplier_invoice" /\ t.pc # "begin"
CostIsDue(t) ==
    IF t.type = "goods_receipt" THEN t.cost = Worth(t.qty, Price)
    ELSE CanIssue(stock, Quantity(t.qty)) /\ t.cost = ReturnedValue(stock, t.qty)
MoverSound(t) ==
    /\ t.order \in Orders /\ \A l \in DOMAIN t.qty : OrderOf[l] = t.order
    /\ t.pc # "begin" =>
         /\ orders[t.order].status \in {"APPROVED", "PARTIALLY_RECEIVED", "RECEIVED"}
         /\ \A l \in LinesOf(t.order) : t.seen[l] = received[l]
    /\ t.pc \in {"post", "store"} => CostIsDue(t)

(* Notes and payments have an invoice.                                     *)
PosterSound(t) ==
    /\ t.type \in Moves => MoverSound(t)
    /\ t.pc # "begin" => CheckedGoods(t)
    /\ t.type \notin Moves => t.pc # "goods"
    /\ IF t.type \in Settling THEN t.of \in OfType("supplier_invoice") ELSE t.of = 0
    /\ t.type = "supplier_payment" /\ t.pc # "begin" => Settled(t.of) + t.share <= Amount(t.of)
    /\ t.entry # 0 => t.pc = "store" /\ t.entry \in DOMAIN entries /\ entries[t.entry].key = t.key

Sound(t) == IF t.type = "purchase_order" THEN BuyerSound(t) ELSE PosterSound(t)

(* What two transactions cannot both have.                                 *)
Apart(s, t) ==
    /\ s.type = "purchase_order" /\ t.type = "purchase_order" =>
         s.order # t.order /\ ~(s.pc = "place" /\ t.pc = "place")
    /\ Locking(s) /\ Locking(t) => s.order # t.order
    /\ ~(Holding(s) /\ Holding(t))
    /\ Invoicing(s) /\ Invoicing(t) => DOMAIN s.qty \cap DOMAIN t.qty = {}
    /\ ~(/\ s.type = "supplier_payment" /\ s.pc # "begin"
         /\ t.type = "supplier_payment" /\ t.pc # "begin")

(* The status of an order follows its counters, its approval its status.   *)
StatusFollows(o) ==
    LET full == \A l \in LinesOf(o) : received[l] = Ordered[l]
        none == \A l \in LinesOf(o) : received[l] = 0
        status == orders[o].status
    IN /\ status = "RECEIVED" <=> full
       /\ status = "PARTIALLY_RECEIVED" <=> ~full /\ ~none
       /\ status = "PENDING_APPROVAL" <=> orders[o].approval = "PENDING"
       /\ orders[o].approval = "REJECTED" => status \in {"REJECTED", "CANCELLED"}
       /\ status = "NONE" => orders[o].approval = "NONE" /\ orders[o].from = NoRequest

MadeFrom(r) == {o \in Orders : orders[o].from = r}
RequestFollows(r) ==
    /\ requests[r] # "PROCESSED" => MadeFrom(r) = {}
    /\ requests[r] = "PROCESSED" => \E o \in Orders : MadeFrom(r) = {o}

IInv ==
    /\ KindInv /\ DocumentsInOrder /\ EntriesExist /\ Backstop(received, invoiced)
    /\ \A o \in Orders : StatusFollows(o)
    /\ \A r \in PurchaseRequests : RequestFollows(r)
    /\ \A w \in Workers : txn[w] # Idle => Sound(txn[w])
    /\ \A w, v \in Workers : w # v /\ txn[w] # Idle /\ txn[v] # Idle => Apart(txn[w], txn[v])
(* Nothing changes for a transaction as long as the tables stay.          *)
PairsApart(m, w) == \A v \in Workers : v # w /\ txn[v] # Idle => Apart(m, txn[v])

-----------------------------------------------------------------------------
(* Transactions, one at a time *)

(* Only the transaction of w changes.                                      *)
LEMMA SetTxn ==
    ASSUME KindInv, NEW w \in Workers, NEW m, Set(w, m)
    PROVE  txn'[w] = m /\ \A v \in Workers : v # w => txn'[v] = txn[v]
  BY DEF KindInv, Set

(* A new order and a document are told apart by their type.                *)
LEMMA Opened ==
    ASSUME KindInv, NEW w \in Workers, txn[w] # Idle
    PROVE  /\ txn[w] \in Buyer \cup Poster
           /\ txn[w].type = "purchase_order" => txn[w] \in Buyer
           /\ txn[w].type # "purchase_order" => txn[w] \in Poster
  BY DEF KindInv, Buyer, Poster, Types, Moves

(* The fields of a document's transaction.                                 *)
LEMMA PosterFields ==
    ASSUME NEW t \in Poster
    PROVE  /\ t.pc \in {"begin", "goods", "post", "store"} /\ t.type \in Types \ {"stock_issue"}
           /\ t.type # "purchase_order" /\ t.key \in Keys /\ t.order \in Orders0
           /\ t.qty \in Quantities /\ t.price \in Prices /\ t.expense \in Nat
           /\ t.accepted \in BOOLEAN /\ t.number \in Numbers /\ t.amount \in Nat /\ t.of \in Nat
           /\ t.share \in Nat /\ t.seen \in [Lines -> Nat] /\ t.cost \in Int /\ t.entry \in Nat
           /\ DOMAIN t.qty \subseteq Lines /\ \A l \in DOMAIN t.qty : t.qty[l] \in Nat \ {0}
<1>1. t.type # "purchase_order"
  BY DEF Poster, Types, Moves
<1>2. t.qty \in Quantities
  BY DEF Poster
<1>3. DOMAIN t.qty \subseteq Lines /\ \A l \in DOMAIN t.qty : t.qty[l] \in Nat \ {0}
  BY <1>2 DEF Quantities
<1>4. QED
  BY <1>1, <1>3 DEF Poster

(* The fields of a new order's transaction.                                *)
LEMMA BuyerFields ==
    ASSUME NEW t \in Buyer
    PROVE  /\ t.pc \in {"begin", "place"} /\ t.type = "purchase_order"
           /\ t.order \in Orders /\ t.request \in Requests0
           /\ t.type \notin Moves /\ t.type \notin Settling /\ t.type # "supplier_payment"
  BY DEF Buyer, Moves, Settling

(* Two transactions stay apart in either order.                            *)
LEMMA ApartSymmetric == \A s, t : Apart(s, t) <=> Apart(t, s)
  BY DEF Apart

(* The tables as they are carry what a transaction knows of them.          *)
LEMMA KeptSound ==
    ASSUME UNCHANGED tables, NEW t, Sound(t)
    PROVE  Sound(t)'
<1>1. orders' = orders /\ requests' = requests /\ received' = received /\ stock' = stock
      /\ documents' = documents /\ entries' = entries
  BY DEF tables
<1>2. BuyerSound(t)' <=> BuyerSound(t)
  BY <1>1 DEF BuyerSound, Buyable
<1>3. MoverSound(t)' <=> MoverSound(t)
  BY <1>1 DEF MoverSound, CostIsDue
<1>4. Settled(t.of)' = Settled(t.of) /\ Amount(t.of)' = Amount(t.of)
      /\ OfType("supplier_invoice")' = OfType("supplier_invoice")
  BY <1>1 DEF Settled, Total, PaymentsOf, OfType, Amount
<1>5. CheckedGoods(t)' <=> CheckedGoods(t)
  <2>1. invoiced' = invoiced
    BY DEF tables
  <2>2. QED
    BY <1>1, <2>1 DEF CheckedGoods, Receivable, Uninvoiced
<1>6. PosterSound(t)' <=> PosterSound(t)
  BY <1>1, <1>3, <1>4, <1>5 DEF PosterSound
<1>7. QED
  BY <1>2, <1>6 DEF Sound

(* A step that writes no table keeps the invariant, if its transaction is
   sound and has to itself what others may not have.                       *)
LEMMA QuietStep ==
    ASSUME IInv, UNCHANGED tables, NEW w \in Workers, NEW m \in Buyer \cup Poster \cup {Idle},
           Set(w, m), m # Idle => Sound(m) /\ PairsApart(m, w)
    PROVE  IInv'
<1>1. /\ KindInv /\ DocumentsInOrder /\ EntriesExist /\ Backstop(received, invoiced)
      /\ \A o \in Orders : StatusFollows(o)
      /\ \A r \in PurchaseRequests : RequestFollows(r)
      /\ \A v \in Workers : txn[v] # Idle => Sound(txn[v])
      /\ \A v, u \in Workers : v # u /\ txn[v] # Idle /\ txn[u] # Idle => Apart(txn[v], txn[u])
  BY DEF IInv
<1>2. txn'[w] = m /\ \A v \in Workers : v # w => txn'[v] = txn[v]
  BY <1>1, SetTxn
<1>3. KindInv'
  BY <1>1 DEF KindInv, Set, tables
<1>4. (DocumentsInOrder /\ EntriesExist /\ Backstop(received, invoiced))'
  BY <1>1 DEF DocumentsInOrder, Follows, OfType, EntriesExist, Backstop, tables
<1>5. (\A o \in Orders : StatusFollows(o))'
  BY <1>1 DEF StatusFollows, tables
<1>6. (\A r \in PurchaseRequests : RequestFollows(r))'
  BY <1>1 DEF RequestFollows, MadeFrom, tables
<1>7. ASSUME NEW v \in Workers, NEW s, s = txn'[v], s # Idle PROVE Sound(s)'
  <2>1. Sound(s)
    BY <1>1, <1>2, <1>7
  <2>2. QED
    BY <2>1, KeptSound
<1>8. ASSUME NEW v \in Workers, NEW u \in Workers, v # u, txn'[v] # Idle, txn'[u] # Idle
      PROVE  Apart(txn'[v], txn'[u])
  BY <1>1, <1>2, <1>8, ApartSymmetric DEF PairsApart
<1>9. QED
  BY <1>3, <1>4, <1>5, <1>6, <1>7, <1>8 DEF IInv, Apart, Locking, Holding, Invoicing

(* Whatever is rolled back was never there.                                *)
LEMMA FailStep ==
    ASSUME IInv, NEW w \in Workers, Fail(w)
    PROVE  IInv'
<1>1. Idle \in Buyer \cup Poster \cup {Idle}
  OBVIOUS
<1>2. QED
  BY <1>1, QuietStep DEF Fail

-----------------------------------------------------------------------------
(* What lines are worth *)

(* Products of naturals are naturals.                                      *)
LEMMA NatProduct == \A a, b \in Nat : a * b \in Nat
  OBVIOUS

(* Quotients of naturals are naturals.                                     *)
LEMMA NatQuotient == \A a \in Nat : \A b \in Nat \ {0} : a \div b \in Nat
  OBVIOUS

(* A line is worth a natural number.                                       *)
LEMMA LineValueNat == \A n, c \in Nat : LineValue(n, c) \in Nat
<1>1. ASSUME NEW n \in Nat, NEW c \in Nat PROVE LineValue(n, c) \in Nat
  <2>1. PICK p \in Nat : p = n * c
    BY NatProduct
  <2>2. 2 * p + Unit \in Nat /\ 2 * Unit \in Nat \ {0}
    BY UnitAssumption
  <2>3. QED
    BY <2>1, <2>2, NatQuotient DEF LineValue, RoundedQuotient
<1>2. QED
  BY <1>1

(* A document has finitely many lines.                                     *)
LEMMA QuantityType ==
    ASSUME NEW qty \in Quantities
    PROVE  /\ DOMAIN qty \subseteq Lines /\ IsFiniteSet(DOMAIN qty)
           /\ \A l \in DOMAIN qty : qty[l] \in Nat \ {0}
<1>1. DOMAIN qty \subseteq Lines /\ \A l \in DOMAIN qty : qty[l] \in Nat \ {0}
  BY DEF Quantities
<1>2. IsFiniteSet(Lines)
  BY PurchasingAssumption
<1>3. QED
  BY <1>1, <1>2, FS_Subset

(* What they are worth is a natural number.                                *)
LEMMA WorthType ==
    ASSUME NEW qty \in Quantities, NEW price, \A l \in DOMAIN qty : price[l] \in Nat
    PROVE  Worth(qty, price) \in Nat
<1>1. \A l \in DOMAIN qty : LineValue(qty[l], price[l]) \in Nat
  BY QuantityType, LineValueNat
<1>2. /\ IsFiniteSet(DOMAIN qty)
      /\ [l \in DOMAIN qty |-> LineValue(qty[l], price[l])] \in [DOMAIN qty -> Nat]
  BY <1>1, QuantityType
<1>3. SumFunction([l \in DOMAIN qty |-> LineValue(qty[l], price[l])]) \in Nat
  BY <1>2, SumNat
<1>4. QED
  BY <1>3 DEF Worth, Total

(* So is it at the prices of the order, and the number of pieces.          *)
LEMMA OrderWorthType ==
    ASSUME NEW qty \in Quantities
    PROVE  Worth(qty, Price) \in Nat /\ Quantity(qty) \in Nat
<1>1. \A l \in DOMAIN qty : Price[l] \in Nat
  BY QuantityType, PurchasingAssumption
<1>2. Worth(qty, Price) \in Nat
  BY <1>1, WorthType
<1>3. IsFiniteSet(DOMAIN qty) /\ [l \in DOMAIN qty |-> qty[l]] \in [DOMAIN qty -> Nat]
  BY QuantityType
<1>4. SumFunction([l \in DOMAIN qty |-> qty[l]]) \in Nat
  BY <1>3, SumNat
<1>5. QED
  BY <1>2, <1>4 DEF Quantity, Total

-----------------------------------------------------------------------------
(* Documents that begin *)

Opens(w, s, m) ==
    /\ txn[w] = Idle /\ MaySend(s.key) /\ Set(w, m) /\ UNCHANGED tables
    /\ m \in Poster /\ m.pc = "begin" /\ m.type = s.type /\ m.key = s.key /\ m.entry = 0
    /\ s.type = "supplier_invoice" => m.number = s.number

(* No lines are lines, and no number is a number.                          *)
LEMMA NothingAsked ==
    /\ NoLines \in Quantities /\ NoLines \in Prices /\ NoRequest \in Numbers /\ NoRequest \in Orders0
<1>1. {} \in SUBSET Lines /\ NoLines \in [{} -> Nat \ {0}] /\ NoLines \in [{} -> Nat]
  BY DEF NoLines
<1>2. QED
  BY <1>1 DEF Quantities, Prices, Numbers, Orders0

(* What a client sends is sound.                                           *)
LEMMA SubmissionType ==
    ASSUME NEW s \in Submissions
    PROVE  /\ s.key \in Keys /\ s.type \in Types \ {"stock_issue"}
           /\ s.type \in Moves =>
                s.order \in Orders /\ s.qty \in Quantities /\ \A l \in DOMAIN s.qty : OrderOf[l] = s.order
           /\ s.type = "supplier_invoice" =>
                /\ s.qty \in Quantities /\ s.price \in Prices /\ s.expense \in Nat
                /\ s.accepted \in BOOLEAN /\ s.number \in Numbers
                /\ Worth(s.qty, s.price) + s.expense \in Nat
           /\ s.type \in Settling => s.amount \in Nat
           /\ s.type = "supplier_payment" => s.share \in Nat
<1>1. SoundSubmission(s)
  BY PurchasingAssumption
<1>2. s.type \in Moves \cup {"supplier_invoice"} => s.qty \in Quantities
  BY <1>1 DEF SoundSubmission, Quantities
<1>3. ASSUME s.type = "supplier_invoice"
      PROVE  /\ s.price \in Prices /\ s.expense \in Nat /\ s.accepted \in BOOLEAN
             /\ s.number \in Numbers /\ Worth(s.qty, s.price) + s.expense \in Nat
  <2>1. /\ s.price \in [DOMAIN s.qty -> Nat] /\ s.expense \in Nat /\ s.accepted \in BOOLEAN
        /\ s.qty \in Quantities /\ DOMAIN s.qty \subseteq Lines
    BY <1>1, <1>2, <1>3 DEF SoundSubmission
  <2>2. s.price \in Prices
    BY <2>1 DEF Prices
  <2>3. Worth(s.qty, s.price) \in Nat
    BY <2>1, WorthType
  <2>4. s.number \in Numbers
    BY <1>3 DEF Numbers, Invoices
  <2>5. QED
    BY <2>1, <2>2, <2>3, <2>4
<1>4. QED
  BY <1>1, <1>2, <1>3 DEF SoundSubmission, Settling

(* A transaction that has not locked anything is in nobody's way.          *)
LEMMA BeginsApart ==
    ASSUME NEW w \in Workers, NEW m \in Poster, m.pc = "begin"
    PROVE  PairsApart(m, w)
  BY PosterFields DEF PairsApart, Apart, Locking, Holding, Invoicing

(* A document's transaction begins soundly.                                *)
LEMMA OpenStep ==
    ASSUME IInv, NEW w \in Workers, NEW s, NEW m, Opens(w, s, m), PosterSound(m)
    PROVE  IInv'
<1>1. Sound(m) /\ PairsApart(m, w) /\ Set(w, m) /\ UNCHANGED tables /\ m \in Poster
  BY BeginsApart, PosterFields DEF Sound, Opens
<1>2. QED
  BY <1>1, QuietStep

(* What Begin makes is a document's transaction.                           *)
LEMMA BeginType ==
    ASSUME KindInv, NEW s \in Submissions, NEW b, b = Begin(s)
    PROVE  /\ b \in Poster /\ b.pc = "begin" /\ b.type = s.type /\ b.key = s.key /\ b.entry = 0
           /\ b.of = 0
<1>1. s.key \in Keys /\ s.type \in Types \ {"stock_issue"} /\ received \in [Lines -> Nat]
  BY SubmissionType DEF KindInv
<1>2. FALSE \in BOOLEAN
  OBVIOUS
<1>3. b \in Poster
  BY <1>1, <1>2, NothingAsked DEF Begin, Poster
<1>4. QED
  BY <1>3 DEF Begin

(* Every document begins soundly.                                          *)
LEMMA SubmitStep ==
    ASSUME IInv, NEW w \in Workers, NEW s \in Submissions, Submit(w, s)
    PROVE  IInv' /\ \E m : Opens(w, s, m)
<1>1. KindInv /\ txn[w] = Idle /\ MaySend(s.key) /\ UNCHANGED tables
  BY DEF IInv, Submit
<1>2. PICK b : b = Begin(s)
  OBVIOUS
<1>3. /\ b \in Poster /\ b.pc = "begin" /\ b.type = s.type /\ b.key = s.key /\ b.entry = 0
      /\ b.of = 0
  BY <1>1, <1>2, BeginType
<1>4. CASE SubmitMove(w, s)
  <2>1. s.type \in Moves /\ s.order \in Orders0 /\ s.order \in Orders /\ s.qty \in Quantities
        /\ \A l \in DOMAIN s.qty : OrderOf[l] = s.order
    BY <1>4, SubmissionType DEF SubmitMove, Orders0
  <2>2. PICK m : m = [b EXCEPT !.order = s.order, !.qty = s.qty]
    OBVIOUS
  <2>3. Set(w, m)
    BY <1>4, <1>2, <2>2 DEF SubmitMove
  <2>4. /\ m \in Poster /\ m.pc = "begin" /\ m.type = s.type /\ m.key = s.key /\ m.entry = 0
        /\ m.order = s.order /\ m.qty = s.qty /\ m.of = 0
    BY <1>3, <2>1, <2>2 DEF Poster
  <2>5. Opens(w, s, m)
    BY <1>1, <2>1, <2>3, <2>4 DEF Opens, Moves
  <2>6. PosterSound(m)
    BY <2>1, <2>4 DEF PosterSound, MoverSound, Moves, Settling
  <2>7. QED
    BY <2>5, <2>6, OpenStep
<1>5. CASE SubmitInvoice(w, s)
  <2>1. /\ s.type = "supplier_invoice" /\ s.qty \in Quantities /\ s.price \in Prices
        /\ s.expense \in Nat /\ s.accepted \in BOOLEAN /\ s.number \in Numbers
        /\ Worth(s.qty, s.price) + s.expense \in Nat
    BY <1>5, SubmissionType DEF SubmitInvoice
  <2>2. PICK m : m = [b EXCEPT
                        !.qty = s.qty, !.price = s.price, !.expense = s.expense,
                        !.accepted = s.accepted, !.number = s.number,
                        !.amount = Worth(s.qty, s.price) + s.expense]
    OBVIOUS
  <2>3. Set(w, m)
    BY <1>5, <1>2, <2>2 DEF SubmitInvoice
  <2>4. /\ m \in Poster /\ m.pc = "begin" /\ m.type = s.type /\ m.key = s.key /\ m.entry = 0
        /\ m.number = s.number /\ m.of = 0
    BY <1>3, <2>1, <2>2 DEF Poster
  <2>5. Opens(w, s, m)
    BY <1>1, <2>1, <2>3, <2>4 DEF Opens
  <2>6. PosterSound(m)
    BY <2>1, <2>4 DEF PosterSound, Moves, Settling
  <2>7. QED
    BY <2>5, <2>6, OpenStep
<1>6. CASE SubmitNote(w, s)
  <2>1. s.type = "supplier_debit_note" /\ s.type \in Settling /\ s.amount \in Nat
    BY <1>6, SubmissionType DEF SubmitNote, Settling
  <2>2. PICK i \in OfType("supplier_invoice") : Set(w, [Begin(s) EXCEPT !.amount = s.amount, !.of = i])
    BY <1>6 DEF SubmitNote
  <2>3. PICK m : m = [b EXCEPT !.amount = s.amount, !.of = i]
    OBVIOUS
  <2>4. i \in Nat
    BY <1>1 DEF OfType, KindInv
  <2>5. /\ m \in Poster /\ m.pc = "begin" /\ m.type = s.type /\ m.key = s.key /\ m.entry = 0
        /\ m.of = i
    BY <1>3, <2>1, <2>3, <2>4 DEF Poster
  <2>6. Opens(w, s, m)
    BY <1>1, <1>2, <2>1, <2>2, <2>3, <2>5 DEF Opens
  <2>7. PosterSound(m)
    BY <2>1, <2>2, <2>5 DEF PosterSound, Moves, Settling
  <2>8. QED
    BY <2>6, <2>7, OpenStep
<1>7. CASE SubmitPayment(w, s)
  <2>1. s.type = "supplier_payment" /\ s.type \in Settling /\ s.amount \in Nat /\ s.share \in Nat
    BY <1>7, SubmissionType DEF SubmitPayment, Settling
  <2>2. PICK i \in OfType("supplier_invoice") :
          Set(w, [Begin(s) EXCEPT !.amount = s.amount, !.of = i, !.share = s.share])
    BY <1>7 DEF SubmitPayment
  <2>3. PICK m : m = [b EXCEPT !.amount = s.amount, !.of = i, !.share = s.share]
    OBVIOUS
  <2>4. i \in Nat
    BY <1>1 DEF OfType, KindInv
  <2>5. /\ m \in Poster /\ m.pc = "begin" /\ m.type = s.type /\ m.key = s.key /\ m.entry = 0
        /\ m.of = i
    BY <1>3, <2>1, <2>3, <2>4 DEF Poster
  <2>6. Opens(w, s, m)
    BY <1>1, <1>2, <2>1, <2>2, <2>3, <2>5 DEF Opens
  <2>7. PosterSound(m)
    BY <2>1, <2>2, <2>5 DEF PosterSound, Moves, Settling
  <2>8. QED
    BY <2>6, <2>7, OpenStep
<1>8. QED
  BY <1>4, <1>5, <1>6, <1>7 DEF Submit

-----------------------------------------------------------------------------
(* New orders *)

(* An order that is being made is nobody else's.                           *)
LEMMA SubmitOrderInv ==
    ASSUME IInv, NEW w \in Workers, NEW o \in Orders, NEW r \in Requests0, SubmitOrder(w, o, r)
    PROVE  IInv'
<1>1. PICK m : m = [pc |-> "begin", type |-> "purchase_order", order |-> o, request |-> r]
  OBVIOUS
<1>2. /\ txn[w] = Idle /\ orders[o].status = "NONE" /\ Set(w, m) /\ UNCHANGED tables
      /\ \A v \in Buying : txn[v].order # o
  BY <1>1 DEF SubmitOrder
<1>3. m \in Buyer /\ m.pc = "begin" /\ m.type = "purchase_order" /\ m.order = o
  BY <1>1 DEF Buyer
<1>4. Sound(m)
  BY <1>2, <1>3 DEF Sound, BuyerSound
<1>5. PairsApart(m, w)
  <2>1. ASSUME NEW v \in Workers, txn[v] # Idle, txn[v].type = "purchase_order"
        PROVE  txn[v].order # o
    BY <1>2, <2>1 DEF Buying, Active
  <2>2. QED
    BY <1>3, <2>1, BuyerFields DEF PairsApart, Apart, Locking, Holding, Invoicing
<1>6. QED
  BY <1>2, <1>3, <1>4, <1>5, QuietStep

(* The request is taken by one new order at a time.                        *)
LEMMA LockRequestInv ==
    ASSUME IInv, NEW w \in Workers, LockRequest(w)
    PROVE  IInv'
<1>1. PICK t : t = txn[w]
  OBVIOUS
<1>2. t # Idle /\ t.type = "purchase_order" /\ t.pc = "begin" /\ \A v \in Workers : ~At(v, "place")
  BY <1>1 DEF LockRequest, Buying, Active, At
<1>3. CASE Fail(w)
  BY <1>3, FailStep
<1>4. CASE ~Fail(w)
  <2>1. PICK m : m = [t EXCEPT !.pc = "place"]
    OBVIOUS
  <2>2. Buyable(t.request) /\ Set(w, m) /\ UNCHANGED tables
    BY <1>1, <1>4, <2>1 DEF LockRequest, Proceed
  <2>3. t \in Buyer /\ Sound(t)
    BY <1>1, <1>2, Opened DEF IInv
  <2>4. m \in Buyer /\ m.pc = "place" /\ m.type = t.type /\ m.order = t.order /\ m.request = t.request
    BY <2>1, <2>3 DEF Buyer
  <2>5. Sound(m)
    BY <1>2, <2>2, <2>3, <2>4 DEF Sound, BuyerSound
  <2>6. PairsApart(m, w)
    <3>1. ASSUME NEW v \in Workers, v # w, txn[v] # Idle PROVE Apart(m, txn[v])
      <4>1. Apart(t, txn[v]) /\ txn[v].pc # "place"
        BY <1>1, <1>2, <3>1 DEF IInv, At
      <4>2. QED
        BY <1>2, <2>4, <4>1, BuyerFields DEF Apart, Locking, Holding, Invoicing
    <3>2. QED
      BY <3>1 DEF PairsApart
  <2>7. QED
    BY <2>2, <2>4, <2>5, <2>6, QuietStep
<1>5. QED
  BY <1>3, <1>4

-----------------------------------------------------------------------------
(* Documents that lock and check *)

(* A transaction goes on with the same document.                           *)
Same(t, m) ==
    /\ m \in Poster /\ m.type = t.type /\ m.key = t.key /\ m.order = t.order
    /\ m.qty = t.qty /\ m.price = t.price /\ m.number = t.number
    /\ m.amount = t.amount /\ m.of = t.of /\ m.share = t.share

Goes(w, m) ==
    txn[w] # Idle /\ txn[w] \in Poster /\ Same(txn[w], m) /\ Set(w, m) /\ UNCHANGED tables

(* Nobody else is affected by one that goes on soundly.                    *)
LEMMA GoesInv ==
    ASSUME IInv, NEW w \in Workers, NEW m, Goes(w, m), PosterSound(m), PairsApart(m, w)
    PROVE  IInv'
<1>1. m \in Poster /\ Sound(m) /\ Set(w, m) /\ UNCHANGED tables
  BY PosterFields DEF Goes, Same, Sound
<1>2. QED
  BY <1>1, QuietStep

(* The transaction of a document, before it goes on.                       *)
LEMMA PosterNow ==
    ASSUME IInv, NEW w \in Workers, txn[w] # Idle, txn[w].type # "purchase_order"
    PROVE  txn[w] \in Poster /\ PosterSound(txn[w]) /\ PairsApart(txn[w], w)
<1>1. txn[w] \in Poster /\ Sound(txn[w])
  BY Opened DEF IInv
<1>2. QED
  BY <1>1 DEF Sound, PairsApart, IInv

Moving(t, pc) == [t EXCEPT !.pc = pc]
Locks(t) == [t EXCEPT !.pc = "goods", !.seen = received]
Takes(t, cost) == [t EXCEPT !.pc = "post", !.cost = cost]
Finds(t, e) == [t EXCEPT !.pc = "store", !.entry = e]

(* Its fields afterwards.                                                  *)
LEMMA MovingFields ==
    ASSUME NEW t \in Poster, NEW pc \in {"post", "store"}, NEW m, m = Moving(t, pc)
    PROVE  Same(t, m) /\ m.pc = pc /\ m.seen = t.seen /\ m.cost = t.cost /\ m.entry = t.entry
  BY DEF Poster, Same, Moving

(* After the lock of the order, ...                                        *)
LEMMA LocksFields ==
    ASSUME KindInv, NEW t \in Poster, NEW m, m = Locks(t)
    PROVE  Same(t, m) /\ m.pc = "goods" /\ m.seen = received /\ m.cost = t.cost /\ m.entry = t.entry
  BY DEF KindInv, Poster, Same, Locks

(* ... the goods, ...                                                      *)
LEMMA TakesFields ==
    ASSUME NEW t \in Poster, NEW cost \in Int, NEW m, m = Takes(t, cost)
    PROVE  Same(t, m) /\ m.pc = "post" /\ m.seen = t.seen /\ m.cost = cost /\ m.entry = t.entry
  BY DEF Poster, Same, Takes

(* ... and a look for the key.                                             *)
LEMMA FindsFields ==
    ASSUME NEW t \in Poster, NEW e \in Nat, NEW m, m = Finds(t, e)
    PROVE  Same(t, m) /\ m.pc = "store" /\ m.seen = t.seen /\ m.cost = t.cost /\ m.entry = e
  BY DEF Poster, Same, Finds

(* What was checked is about the same document.                            *)
LEMMA SameChecked ==
    ASSUME NEW t, NEW m, Same(t, m), m.seen = t.seen, CheckedGoods(t)
    PROVE  CheckedGoods(m)
  BY DEF Same, CheckedGoods, Receivable, Uninvoiced

(* A receipt or a return has its order to itself, with what it read.       *)
LEMMA LockOrderStep ==
    ASSUME IInv, NEW w \in Workers, LockOrder(w)
    PROVE  IInv' /\ (Fail(w) \/ \E m : Goes(w, m))
<1>1. PICK t : t = txn[w]
  OBVIOUS
<1>2. t # Idle /\ t.pc = "begin" /\ t.type \in Moves /\ LockedOrder(t.order) = {}
  BY <1>1 DEF LockOrder, At
<1>3. t \in Poster /\ PosterSound(t) /\ PairsApart(t, w) /\ KindInv
  BY <1>1, <1>2, PosterNow DEF Moves, IInv
<1>4. CASE Fail(w)
  BY <1>4, FailStep
<1>5. CASE ~Fail(w)
  <2>1. PICK m : m = Locks(t)
    OBVIOUS
  <2>2. /\ Set(w, m) /\ UNCHANGED tables
        /\ orders[t.order].status \in {"APPROVED", "PARTIALLY_RECEIVED", "RECEIVED"}
    BY <1>1, <1>5, <2>1 DEF LockOrder, Locks, Receivable, Returnable
  <2>3. Same(t, m) /\ m.pc = "goods" /\ m.seen = received /\ m.cost = t.cost /\ m.entry = t.entry
    BY <1>3, <2>1, LocksFields
  <2>4. Goes(w, m)
    BY <1>1, <1>2, <1>3, <2>2, <2>3 DEF Goes
  <2>5. MoverSound(m)
    BY <1>2, <1>3, <2>2, <2>3 DEF PosterSound, MoverSound, Same
  <2>6. CheckedGoods(m)
    <3>1. IF t.type = "goods_receipt" THEN Receivable(t) ELSE Returnable(t)
      BY <1>1, <1>5 DEF LockOrder
    <3>2. \A l \in DOMAIN t.qty : received[l] \in Nat /\ invoiced[l] \in Nat /\ t.qty[l] \in Nat
      BY <1>3, PosterFields DEF KindInv
    <3>3. t.type # "goods_receipt" => \A l \in DOMAIN t.qty : t.qty[l] <= received[l]
      BY <3>1, <3>2 DEF Returnable, Uninvoiced
    <3>4. QED
      BY <1>2, <2>3, <3>1, <3>3 DEF CheckedGoods, Receivable, Same, Moves
  <2>7. PosterSound(m)
    BY <1>2, <1>3, <2>3, <2>5, <2>6 DEF PosterSound, Same, Moves
  <2>8. PairsApart(m, w)
    <3>1. ASSUME NEW v \in Workers, v # w, txn[v] # Idle PROVE Apart(m, txn[v])
      <4>1. Locking(txn[v]) => txn[v].order # t.order
        BY <1>2, <3>1 DEF LockedOrder, Active, Locking
      <4>2. QED
        BY <1>2, <2>3, <4>1 DEF Same, Apart, Locking, Holding, Invoicing, Moves
    <3>2. QED
      BY <3>1 DEF PairsApart
  <2>9. QED
    BY <2>4, <2>7, <2>8, GoesInv
<1>6. QED
  BY <1>4, <1>5

-----------------------------------------------------------------------------
(* Goods that are returned, line by line *)

(* An issue takes from the row what it charges, never more than is there.  *)
LEMMA IssueType ==
    ASSUME NEW s \in State, NEW q \in Nat, CanIssue(s, q)
    PROVE  /\ IssuedValue(s, q) \in Nat /\ AfterIssue(s, q) \in State
           /\ AfterIssue(s, q).quantity = s.quantity - q
           /\ AfterIssue(s, q).value = s.value - IssuedValue(s, q)
<1>1. s.quantity \in Nat \ {0} /\ s.value \in Nat /\ q <= s.quantity
  BY DEF State, CanIssue
<1>2. Share(s, q) \in Nat
  <2>1. PICK n \in Nat : n = q * s.value
    BY <1>1, NatProduct
  <2>2. 2 * n + s.quantity \in Nat /\ 2 * s.quantity \in Nat \ {0}
    BY <1>1
  <2>3. RoundedQuotient(n, s.quantity) \in Nat
    BY <2>2, NatQuotient DEF RoundedQuotient
  <2>4. QED
    BY <1>1, <2>1, <2>3 DEF Share
<1>3. IssuedValue(s, q) \in Nat /\ IssuedValue(s, q) <= s.value
  BY <1>1, <1>2 DEF IssuedValue, Lesser
<1>4. AfterIssue(s, q) = [quantity |-> s.quantity - q, value |-> s.value - IssuedValue(s, q)]
  BY <1>1, <1>3 DEF AfterIssue, AtLeastZero
<1>5. QED
  BY <1>1, <1>3, <1>4 DEF State

(* The states the row goes through, for every set of lines.                *)
Leaves(g, s, qty, D) ==
    g = [R \in D |-> IF R = {} THEN s ELSE AfterIssue(g[R \ {Choice(R)}], qty[Choice(R)])]

(* The table exists for the sets of lines of every size ...                *)
LEMMA LeavesUpto ==
    ASSUME NEW s, NEW qty, NEW S, IsFiniteSet(S), NEW n \in Nat
    PROVE  \E g : Leaves(g, s, qty, Upto(S, n))
<1> DEFINE T == {m \in Nat : ~\E g : Leaves(g, s, qty, Upto(S, m))}
<1> SUFFICES ASSUME T # {} PROVE FALSE
  OBVIOUS
<1>1. PICK m \in T : \A k \in T : m <= k
  BY LeastNumber
<1>2. CASE m = 0
  <2>1. Upto(S, 0) = {}
    BY FS_CardinalityType, FS_Subset DEF Upto
  <2>2. Leaves([R \in {} |-> 0], s, qty, {})
    BY DEF Leaves
  <2>3. QED
    BY <1>1, <1>2, <2>1, <2>2
<1>3. CASE m # 0
  <2>1. m - 1 \in Nat /\ m - 1 \notin T
    BY <1>1, <1>3
  <2>2. PICK g : Leaves(g, s, qty, Upto(S, m - 1))
    BY <2>1
  <2> DEFINE h == [R \in Upto(S, m) |-> IF R = {} THEN s
                                        ELSE AfterIssue(g[R \ {Choice(R)}], qty[Choice(R)])]
  <2>3. ASSUME NEW R \in Upto(S, m), R # {}
        PROVE  R \ {Choice(R)} \in Upto(S, m - 1) /\ R \ {Choice(R)} \in Upto(S, m)
    <3>1. R \subseteq S /\ IsFiniteSet(R) /\ Cardinality(R) < m
      BY FS_Subset DEF Upto
    <3>2. Cardinality(R \ {Choice(R)}) \in Nat /\ Cardinality(R) \in Nat
          /\ Cardinality(R \ {Choice(R)}) < Cardinality(R)
      BY <3>1, <2>3, ChoiceIn, Smaller
    <3>3. QED
      BY <3>1, <3>2, <1>1 DEF Upto
  <2>4. ASSUME NEW R \in Upto(S, m - 1) PROVE h[R] = g[R]
    <3>1. R \in Upto(S, m)
      BY <1>1, FS_Subset, FS_CardinalityType DEF Upto
    <3>2. QED
      BY <3>1, <2>2 DEF Leaves
  <2>5. h = [R \in Upto(S, m) |-> IF R = {} THEN s
                                  ELSE AfterIssue(h[R \ {Choice(R)}], qty[Choice(R)])]
    <3> HIDE DEF h
    <3>1. ASSUME NEW R \in Upto(S, m), R # {} PROVE g[R \ {Choice(R)}] = h[R \ {Choice(R)}]
      BY <3>1, <2>3, <2>4
    <3>2. QED
      BY <3>1 DEF h
  <2>6. Leaves(h, s, qty, Upto(S, m))
    BY <2>5 DEF Leaves
  <2>7. QED
    BY <2>6, <1>1
<1>4. QED
  BY <1>2, <1>3

(* ... so it exists for all of them, and the row ends where it says.       *)
LEMMA ReturnTable ==
    ASSUME NEW s, NEW qty \in Quantities
    PROVE  \E g : Leaves(g, s, qty, SUBSET DOMAIN qty) /\ ReturnAll(s, qty) = g[DOMAIN qty]
<1> DEFINE S == DOMAIN qty
           g == CHOOSE g : Leaves(g, s, qty, SUBSET S)
<1>1. IsFiniteSet(S)
  BY QuantityType
<1>2. Cardinality(S) + 1 \in Nat
  BY <1>1, FS_CardinalityType
<1>3. Upto(S, Cardinality(S) + 1) = SUBSET S
  BY <1>1, <1>2, FS_Subset, FS_CardinalityType DEF Upto
<1> HIDE DEF S
<1>4. \E h : Leaves(h, s, qty, Upto(S, Cardinality(S) + 1))
  BY <1>1, <1>2, LeavesUpto
<1> USE DEF S
<1>5. Leaves(g, s, qty, SUBSET S)
  BY <1>3, <1>4
<1>6. ReturnAll(s, qty) = g[S]
  BY DEF ReturnAll, FoldSet, MapThenFoldSet, Leaves, Choice
<1>7. QED
  BY <1>5, <1>6

(* Goods that are there can be returned; the row holds what is left.       *)
LEMMA ReturnType ==
    ASSUME NEW s \in State, NEW qty \in Quantities, Quantity(qty) <= s.quantity
    PROVE  ReturnAll(s, qty) \in State /\ ReturnedValue(s, qty) \in Int
<1> DEFINE S == DOMAIN qty
<1>1. IsFiniteSet(S) /\ \A l \in S : qty[l] \in Nat \ {0}
  BY QuantityType
<1>2. PICK g : Leaves(g, s, qty, SUBSET S) /\ ReturnAll(s, qty) = g[S]
  BY ReturnTable
<1>3. s.quantity \in Nat
  BY DEF State
<1> DEFINE sum(R) == SumFunctionOnSet(qty, R)
           Good == {R \in SUBSET S : sum(R) <= s.quantity =>
                      g[R] \in State /\ g[R].quantity = s.quantity - sum(R)}
<1>4. {} \in Good
  <2>1. g[{}] = s /\ sum({}) = 0
    BY <1>2, SumOnEmpty DEF Leaves
  <2>2. QED
    BY <1>3, <2>1
<1>5. ASSUME NEW R \in SUBSET S, R # {}, R \ {Choice(R)} \in Good PROVE R \in Good
  <2>1. PICK l : l = Choice(R)
    OBVIOUS
  <2>2. l \in R /\ IsFiniteSet(R) /\ IsFiniteSet(R \ {l}) /\ R \ {l} \in SUBSET S
    BY <1>1, <1>5, <2>1, ChoiceIn, FS_Subset
  <2>3. \A y \in R : qty[y] \in Int
    BY <1>1
  <2>4. sum(R) = qty[l] + sum(R \ {l})
    BY <2>2, <2>3, SumAny
  <2>5. sum(R \ {l}) \in Int /\ qty[l] \in Nat \ {0}
    BY <1>1, <2>2, <2>3, SumOnInt
  <2>6. g[R] = AfterIssue(g[R \ {l}], qty[l])
    BY <1>2, <1>5, <2>1 DEF Leaves
  <2>7. ASSUME sum(R) <= s.quantity
        PROVE  g[R] \in State /\ g[R].quantity = s.quantity - sum(R)
    <3>1. sum(R \ {l}) <= s.quantity
      BY <1>3, <2>4, <2>5, <2>7
    <3>2. g[R \ {l}] \in State /\ g[R \ {l}].quantity = s.quantity - sum(R \ {l})
      BY <1>5, <2>1, <3>1
    <3>3. CanIssue(g[R \ {l}], qty[l])
      BY <1>3, <2>4, <2>5, <2>7, <3>2 DEF CanIssue
    <3>4. g[R] \in State /\ g[R].quantity = g[R \ {l}].quantity - qty[l]
      BY <2>5, <2>6, <3>2, <3>3, IssueType
    <3>5. QED
      BY <1>3, <2>4, <2>5, <3>2, <3>4
  <2>8. QED
    BY <2>7
<1>6. S \in Good
  <2> DEFINE Bad == {R \in SUBSET S : R \notin Good}
  <2> SUFFICES ASSUME Bad # {} PROVE FALSE
    OBVIOUS
  <2>1. \A R \in Bad : IsFiniteSet(R)
    BY <1>1, FS_Subset
  <2>2. PICK R \in Bad : \A Q \in Bad : Cardinality(R) <= Cardinality(Q)
    BY <2>1, SmallestSet
  <2>3. R # {}
    BY <1>4, <2>2
  <2>4. /\ Cardinality(R \ {Choice(R)}) \in Nat /\ Cardinality(R) \in Nat
        /\ Cardinality(R \ {Choice(R)}) < Cardinality(R)
    BY <2>1, <2>3, ChoiceIn, Smaller
  <2>5. R \ {Choice(R)} \notin Bad
    BY <2>2, <2>4
  <2>6. R \ {Choice(R)} \in Good
    BY <2>5
  <2>7. QED
    BY <1>5, <2>2, <2>3, <2>6
<1>7. sum(S) = Quantity(qty)
  <2>1. \A l \in S : [k \in S |-> qty[k]][l] = qty[l]
    OBVIOUS
  <2>2. SumFunctionOnSet([k \in S |-> qty[k]], S) = sum(S)
    BY <1>1, <2>1, SumAgree
  <2>3. QED
    BY <2>2 DEF Quantity, Total, SumFunction
<1>8. ReturnAll(s, qty) \in State
  BY <1>2, <1>6, <1>7
<1>9. ReturnAll(s, qty).value \in Int /\ s.value \in Int
  BY <1>8 DEF State
<1>10. QED
  BY <1>8, <1>9 DEF ReturnedValue

-----------------------------------------------------------------------------
(* What documents add up to *)

(* The documents are finitely many, each with amounts that add up.         *)
LEMMA FinitelyMany ==
    ASSUME documents \in Seq(Document)
    PROVE  /\ DOMAIN documents = 1 .. Len(documents) /\ Len(documents) \in Nat
           /\ \A S \in SUBSET DOMAIN documents : IsFiniteSet(S)
           /\ \A d \in DOMAIN documents :
                /\ documents[d] \in Document /\ Amount(d) \in Nat /\ documents[d].share \in Nat
                /\ documents[d].qty \in Quantities
<1>1. DOMAIN documents = 1 .. Len(documents) /\ Len(documents) \in Nat
  OBVIOUS
<1>2. IsFiniteSet(DOMAIN documents)
  BY <1>1, FS_Interval
<1>3. \A S \in SUBSET DOMAIN documents : IsFiniteSet(S)
  BY <1>2, FS_Subset
<1>4. \A d \in DOMAIN documents : documents[d] \in Document
  OBVIOUS
<1>5. ASSUME NEW d \in DOMAIN documents
      PROVE  Amount(d) \in Nat /\ documents[d].share \in Nat /\ documents[d].qty \in Quantities
  BY <1>4 DEF Amount, Document
<1>6. QED
  BY <1>1, <1>3, <1>4, <1>5

(* What notes and payments take off an invoice.                            *)
Noted(i) == Total(NotesOf(i), Amount)

(* Both are natural numbers.                                               *)
LEMMA SettledType ==
    ASSUME documents \in Seq(Document), NEW i
    PROVE  Noted(i) \in Nat /\ Settled(i) \in Nat
<1>1. NotesOf(i) \subseteq DOMAIN documents /\ PaymentsOf(i) \subseteq DOMAIN documents
  BY DEF NotesOf, PaymentsOf, OfType
<1>2. /\ IsFiniteSet(NotesOf(i)) /\ IsFiniteSet(PaymentsOf(i))
      /\ [d \in NotesOf(i) |-> Amount(d)] \in [NotesOf(i) -> Nat]
      /\ [d \in PaymentsOf(i) |-> documents[d].share] \in [PaymentsOf(i) -> Nat]
  BY <1>1, FinitelyMany
<1>3. /\ SumFunction([d \in NotesOf(i) |-> Amount(d)]) \in Nat
      /\ SumFunction([d \in PaymentsOf(i) |-> documents[d].share]) \in Nat
  BY <1>2, SumNat
<1>4. QED
  BY <1>3 DEF Noted, Settled, Total

-----------------------------------------------------------------------------
(* Documents that take goods, are checked and go through the engine *)

(* The goods are taken by one receipt or return at a time.                 *)
LEMMA TakeGoodsStep ==
    ASSUME IInv, NEW w \in Workers, TakeGoods(w)
    PROVE  IInv' /\ (Fail(w) \/ \E m : Goes(w, m))
<1>1. PICK t : t = txn[w]
  OBVIOUS
<1>2. t # Idle /\ t.pc = "goods" /\ Taking = {}
  BY <1>1 DEF TakeGoods, At
<1>3. t.type # "purchase_order" /\ stock \in State
  BY <1>1, <1>2, Opened, BuyerFields DEF IInv, KindInv
<1>4. t \in Poster /\ PosterSound(t) /\ PairsApart(t, w) /\ t.type \in Moves /\ t.entry = 0
  BY <1>1, <1>2, <1>3, PosterNow, PosterFields DEF PosterSound
<1>5. CASE Fail(w)
  BY <1>5, FailStep
<1>6. CASE ~Fail(w)
  <2>1. PICK cost : cost = IF t.type = "goods_receipt" THEN Worth(t.qty, Price)
                           ELSE ReturnedValue(stock, t.qty)
    OBVIOUS
  <2>2. /\ t.type = "goods_receipt" \/ CanIssue(stock, Quantity(t.qty))
        /\ Set(w, Takes(t, cost)) /\ UNCHANGED tables
    BY <1>1, <1>6, <2>1 DEF TakeGoods, Takes
  <2>3. cost \in Int
    <3>1. t.qty \in Quantities /\ Worth(t.qty, Price) \in Nat
      BY <1>4, PosterFields, OrderWorthType
    <3>2. t.type # "goods_receipt" => ReturnedValue(stock, t.qty) \in Int
      BY <1>3, <2>2, <3>1, ReturnType DEF CanIssue
    <3>3. QED
      BY <2>1, <3>1, <3>2
  <2>4. PICK m : m = Takes(t, cost)
    OBVIOUS
  <2>5. Same(t, m) /\ m.pc = "post" /\ m.seen = t.seen /\ m.cost = cost /\ m.entry = 0
    BY <1>4, <2>3, <2>4, TakesFields
  <2>6. Goes(w, m)
    BY <1>1, <1>2, <1>4, <2>2, <2>4, <2>5 DEF Goes
  <2>7. CostIsDue(m)
    BY <2>1, <2>2, <2>5 DEF CostIsDue, Same
  <2>8. MoverSound(m)
    BY <1>2, <1>4, <2>5, <2>7 DEF PosterSound, MoverSound, Same
  <2>9. PosterSound(m)
    BY <1>2, <1>4, <2>5, <2>8, SameChecked DEF PosterSound, Same, Moves
  <2>10. PairsApart(m, w)
    <3>1. ASSUME NEW v \in Workers, v # w, txn[v] # Idle PROVE Apart(m, txn[v])
      <4>1. ~Holding(txn[v])
        BY <1>2, <3>1 DEF Taking, Active, Holding
      <4>2. Apart(t, txn[v])
        BY <1>4, <3>1 DEF PairsApart
      <4>3. QED
        BY <1>2, <1>4, <2>5, <4>1, <4>2 DEF Same, Apart, Locking, Holding, Invoicing, Moves
    <3>2. QED
      BY <3>1 DEF PairsApart
  <2>11. QED
    BY <2>6, <2>9, <2>10, GoesInv
<1>7. QED
  BY <1>5, <1>6

(* An invoice and a note go on to be posted.                               *)
LEMMA CheckStep ==
    ASSUME IInv, NEW w \in Workers, LockLines(w) \/ CheckNote(w)
    PROVE  IInv' /\ (Fail(w) \/ \E m : Goes(w, m))
<1>1. PICK t : t = txn[w]
  OBVIOUS
<1>2. t # Idle /\ t.pc = "begin" /\ t.type \in {"supplier_invoice", "supplier_debit_note"}
  BY <1>1 DEF LockLines, CheckNote, At
<1>3. t \in Poster /\ PosterSound(t) /\ PairsApart(t, w)
  BY <1>1, <1>2, PosterNow
<1>4. CASE Fail(w)
  BY <1>4, FailStep
<1>5. CASE ~Fail(w)
  <2>1. PICK m : m = Moving(t, "post")
    OBVIOUS
  <2>2. Set(w, m) /\ UNCHANGED tables
    BY <1>1, <1>5, <2>1 DEF LockLines, CheckNote, Proceed, Moving
  <2>3. Same(t, m) /\ m.pc = "post" /\ m.entry = t.entry
    BY <1>3, <2>1, MovingFields
  <2>4. Goes(w, m)
    BY <1>1, <1>2, <1>3, <2>2, <2>3 DEF Goes
  <2>5. CheckedGoods(m)
    <3>1. t.type = "supplier_invoice" => Uninvoiced(t)
      BY <1>1, <1>2, <1>5 DEF LockLines, CheckNote, Invoiceable
    <3>2. QED
      BY <1>2, <2>3, <3>1 DEF CheckedGoods, Uninvoiced, Same, Moves
  <2>6. PosterSound(m)
    BY <1>2, <1>3, <2>3, <2>5 DEF PosterSound, Same, Moves
  <2>7. PairsApart(m, w)
    <3>1. ASSUME NEW v \in Workers, v # w, txn[v] # Idle PROVE Apart(m, txn[v])
      <4>1. t.type = "supplier_invoice" => LockedLines(DOMAIN t.qty) = {}
        BY <1>1, <1>2 DEF LockLines, CheckNote
      <4>2. t.type = "supplier_invoice" /\ Invoicing(txn[v]) => DOMAIN t.qty \cap DOMAIN txn[v].qty = {}
        BY <3>1, <4>1 DEF LockedLines, Active, Invoicing
      <4>3. Apart(t, txn[v])
        BY <1>3, <3>1 DEF PairsApart
      <4>4. QED
        BY <1>2, <2>3, <4>2, <4>3 DEF Same, Apart, Locking, Holding, Invoicing, Moves
    <3>2. QED
      BY <3>1 DEF PairsApart
  <2>8. QED
    BY <2>4, <2>6, <2>7, GoesInv
<1>6. QED
  BY <1>4, <1>5

(* A payment settles no more than the invoice still owes, and nobody else
   pays it meanwhile.                                                      *)
LEMMA LockSupplierStep ==
    ASSUME IInv, NEW w \in Workers, LockSupplier(w)
    PROVE  IInv' /\ (Fail(w) \/ \E m : Goes(w, m))
<1>1. PICK t : t = txn[w]
  OBVIOUS
<1>2. t # Idle /\ t.pc = "begin" /\ t.type = "supplier_payment" /\ Paying = {}
  BY <1>1 DEF LockSupplier, At
<1>3. t \in Poster /\ PosterSound(t) /\ PairsApart(t, w) /\ documents \in Seq(Document)
  BY <1>1, <1>2, PosterNow DEF IInv, KindInv
<1>4. CASE Fail(w)
  BY <1>4, FailStep
<1>5. CASE ~Fail(w)
  <2>1. PICK m : m = Moving(t, "post")
    OBVIOUS
  <2>2. Set(w, m) /\ UNCHANGED tables /\ t.share <= Outstanding(t.of)
    BY <1>1, <1>5, <2>1 DEF LockSupplier, Proceed, Moving
  <2>3. Same(t, m) /\ m.pc = "post" /\ m.entry = t.entry
    BY <1>3, <2>1, MovingFields
  <2>4. Goes(w, m)
    BY <1>1, <1>2, <1>3, <2>2, <2>3 DEF Goes
  <2>5. Settled(t.of) + t.share <= Amount(t.of)
    <3>1. t.of \in DOMAIN documents /\ t.share \in Nat
      BY <1>2, <1>3, PosterFields DEF PosterSound, Settling, OfType
    <3>2. Amount(t.of) \in Nat /\ Settled(t.of) \in Nat /\ Noted(t.of) \in Nat
      BY <1>3, <3>1, FinitelyMany, SettledType
    <3>3. t.share <= Amount(t.of) - Settled(t.of) - Noted(t.of)
      BY <2>2 DEF Outstanding, Noted
    <3>4. QED
      BY <3>1, <3>2, <3>3
  <2>6. PosterSound(m)
    BY <1>2, <1>3, <2>3, <2>5 DEF PosterSound, CheckedGoods, Same, Moves
  <2>7. PairsApart(m, w)
    <3>1. ASSUME NEW v \in Workers, v # w, txn[v] # Idle PROVE Apart(m, txn[v])
      <4>1. txn[v].type = "supplier_payment" => txn[v].pc = "begin"
        BY <1>2, <3>1 DEF Paying, Active
      <4>2. Apart(t, txn[v])
        BY <1>3, <3>1 DEF PairsApart
      <4>3. QED
        BY <1>2, <2>3, <4>1, <4>2 DEF Same, Apart, Locking, Holding, Invoicing, Moves
    <3>2. QED
      BY <3>1 DEF PairsApart
  <2>8. QED
    BY <2>4, <2>6, <2>7, GoesInv
<1>6. QED
  BY <1>4, <1>5

(* The engine finds the key, or nobody has posted it.                      *)
LEMMA PostEntryStep ==
    ASSUME IInv, NEW w \in Workers, PostEntry(w)
    PROVE  IInv' /\ (Fail(w) \/ \E m : Goes(w, m))
<1>1. PICK t : t = txn[w]
  OBVIOUS
<1>2. t # Idle /\ t.pc = "post" /\ UNCHANGED tables
  BY <1>1 DEF PostEntry, At, Fail
<1>3. t.type # "purchase_order"
  BY <1>1, <1>2, Opened, BuyerFields DEF IInv
<1>4. t \in Poster /\ PosterSound(t) /\ PairsApart(t, w) /\ entries \in Seq(Entry)
  BY <1>1, <1>2, <1>3, PosterNow DEF IInv, KindInv
<1>5. t.entry = 0
  BY <1>2, <1>4, PosterFields DEF PosterSound
<1>6. ASSUME NEW m, Same(t, m), m.pc = "store", m.seen = t.seen, m.cost = t.cost, Set(w, m),
             m.entry # 0 => m.entry \in DOMAIN entries /\ entries[m.entry].key = t.key
      PROVE  IInv' /\ Goes(w, m)
  <2>1. Goes(w, m)
    BY <1>1, <1>2, <1>4, <1>6 DEF Goes
  <2>2. t.type \in Moves => MoverSound(m)
    BY <1>2, <1>4, <1>6 DEF PosterSound, MoverSound, CostIsDue, Same
  <2>3. PosterSound(m)
    BY <1>2, <1>4, <1>6, <2>2, SameChecked DEF PosterSound, Same
  <2>4. PairsApart(m, w)
    BY <1>2, <1>4, <1>6 DEF PairsApart, Same, Apart, Locking, Holding, Invoicing
  <2>5. QED
    BY <2>1, <2>3, <2>4, GoesInv
<1>7. ASSUME Set(w, [t EXCEPT !.pc = "store"])
      PROVE  IInv' /\ \E m : Goes(w, m)
  <2>1. PICK m : m = Moving(t, "store")
    OBVIOUS
  <2>2. Same(t, m) /\ m.pc = "store" /\ m.seen = t.seen /\ m.cost = t.cost /\ m.entry = 0
    BY <1>4, <1>5, <2>1, MovingFields
  <2>3. Set(w, m)
    BY <1>7, <2>1 DEF Moving
  <2>4. QED
    BY <1>6, <2>2, <2>3
<1>8. ASSUME NEW e \in Posted(t.key), Set(w, Finds(t, e))
      PROVE  IInv' /\ \E m : Goes(w, m)
  <2>1. PICK m : m = Finds(t, e)
    OBVIOUS
  <2>2. e \in DOMAIN entries /\ entries[e].key = t.key /\ e \in Nat
    BY <1>4 DEF Posted
  <2>3. Same(t, m) /\ m.pc = "store" /\ m.seen = t.seen /\ m.cost = t.cost /\ m.entry = e
    BY <1>4, <2>1, <2>2, FindsFields
  <2>4. QED
    BY <1>6, <1>8, <2>1, <2>2, <2>3
<1>9. CASE Fail(w)
  BY <1>9, FailStep
<1>10. QED
  BY <1>1, <1>7, <1>8, <1>9 DEF PostEntry, Finds

-----------------------------------------------------------------------------
(* Purchase requests and orders change *)

(* A transaction finds its order, and the request it holds, as they were.  *)
OrdersKept(s) ==
    /\ s.type = "purchase_order" =>
         /\ orders'[s.order] = orders[s.order]
         /\ s.pc = "place" /\ s.request # NoRequest => requests'[s.request] = requests[s.request]
    /\ Locking(s) => orders'[s.order] = orders[s.order]

GoodsKept == UNCHANGED <<received, invoiced, stock, documents, entries>>

(* Then it stays sound.                                                    *)
LEMMA OrdersKeepSound ==
    ASSUME GoodsKept, NEW s, Sound(s), OrdersKept(s)
    PROVE  Sound(s)'
<1>1. /\ received' = received /\ invoiced' = invoiced /\ stock' = stock
      /\ documents' = documents /\ entries' = entries
  BY DEF GoodsKept
<1>2. CASE s.type = "purchase_order"
  <2>1. BuyerSound(s)'
    BY <1>2 DEF Sound, OrdersKept, BuyerSound, Buyable
  <2>2. QED
    BY <1>2, <2>1 DEF Sound
<1>3. CASE s.type # "purchase_order"
  <2>1. PosterSound(s)
    BY <1>3 DEF Sound
  <2>2. s.type \in Moves => MoverSound(s)'
    BY <1>1, <2>1 DEF PosterSound, MoverSound, CostIsDue, OrdersKept, Locking
  <2>3. Settled(s.of)' = Settled(s.of) /\ Amount(s.of)' = Amount(s.of)
        /\ OfType("supplier_invoice")' = OfType("supplier_invoice")
    BY <1>1 DEF Settled, Total, PaymentsOf, OfType, Amount
  <2>4. s.pc # "begin" => CheckedGoods(s)'
    BY <1>1, <2>1 DEF PosterSound, CheckedGoods, Receivable, Uninvoiced, OrdersKept, Locking, Moves
  <2>5. PosterSound(s)'
    BY <1>1, <2>1, <2>2, <2>3, <2>4 DEF PosterSound
  <2>6. QED
    BY <1>3, <2>5 DEF Sound
<1>4. QED
  BY <1>2, <1>3

(* A step on orders and requests keeps the invariant, if it leaves alone
   what transactions hold.                                                 *)
LEMMA OrdersStep ==
    ASSUME IInv, GoodsKept, orders' \in [Orders -> Order], requests' \in [PurchaseRequests -> Statuses],
           \A o \in Orders : StatusFollows(o)', \A r \in PurchaseRequests : RequestFollows(r)',
           txn' \in [Workers -> Buyer \cup Poster \cup {Idle}],
           \A v \in Workers : txn'[v] = Idle \/ (txn'[v] = txn[v] /\ (txn[v] # Idle => OrdersKept(txn[v])))
    PROVE  IInv'
<1>1. /\ KindInv /\ DocumentsInOrder /\ EntriesExist /\ Backstop(received, invoiced)
      /\ \A v \in Workers : txn[v] # Idle => Sound(txn[v])
      /\ \A v, u \in Workers : v # u /\ txn[v] # Idle /\ txn[u] # Idle => Apart(txn[v], txn[u])
  BY DEF IInv
<1>2. KindInv'
  BY <1>1 DEF KindInv, GoodsKept
<1>3. (DocumentsInOrder /\ EntriesExist /\ Backstop(received, invoiced))'
  BY <1>1 DEF DocumentsInOrder, Follows, OfType, EntriesExist, Backstop, GoodsKept
<1>4. ASSUME NEW v \in Workers, NEW s, s = txn'[v], s # Idle PROVE Sound(s)'
  <2>1. Sound(s) /\ OrdersKept(s)
    BY <1>1, <1>4
  <2>2. QED
    BY <2>1, OrdersKeepSound
<1>5. ASSUME NEW v \in Workers, NEW u \in Workers, v # u, txn'[v] # Idle, txn'[u] # Idle
      PROVE  Apart(txn'[v], txn'[u])
  BY <1>1, <1>5
<1>6. QED
  BY <1>2, <1>3, <1>4, <1>5 DEF IInv, Apart, Locking, Holding, Invoicing

(* Requests are written while no new order holds them.                     *)
LEMMA RequestInv ==
    ASSUME IInv, NEW r \in PurchaseRequests, CreateRequest(r) \/ Accept(r) \/ Reject(r)
    PROVE  IInv'
<1>1. /\ GoodsKept /\ orders' = orders /\ txn' = txn /\ requests[r] # "PROCESSED"
      /\ requests[r] = "NONE" \/ LockedRequest(r) = {}
      /\ \E s \in Statuses \ {"PROCESSED"} : requests' = [requests EXCEPT ![r] = s]
  BY DEF CreateRequest, Accept, Reject, GoodsKept, Statuses
<1>2. KindInv /\ \A q \in PurchaseRequests : RequestFollows(q)
  BY DEF IInv
<1>3. /\ requests' \in [PurchaseRequests -> Statuses]
      /\ requests'[r] # "PROCESSED" /\ \A q \in PurchaseRequests : q # r => requests'[q] = requests[q]
  BY <1>1, <1>2 DEF KindInv
<1>4. orders' \in [Orders -> Order] /\ txn' \in [Workers -> Buyer \cup Poster \cup {Idle}]
  BY <1>1, <1>2 DEF KindInv
<1>5. \A o \in Orders : StatusFollows(o)'
  BY <1>1 DEF IInv, StatusFollows, GoodsKept
<1>6. \A q \in PurchaseRequests : RequestFollows(q)'
  BY <1>1, <1>2, <1>3 DEF RequestFollows, MadeFrom
<1>7. ASSUME NEW v \in Workers, txn[v] # Idle PROVE OrdersKept(txn[v])
  <2>1. ASSUME txn[v].type = "purchase_order", txn[v].pc = "place", txn[v].request # NoRequest
        PROVE  txn[v].request # r /\ txn[v].request \in PurchaseRequests
    <3>1. txn[v].request \in Requests0 /\ Sound(txn[v])
      BY <1>2, <1>7, <2>1, Opened, BuyerFields DEF IInv
    <3>2. requests[txn[v].request] = "ACCEPTED"
      BY <2>1, <3>1 DEF Sound, BuyerSound, Buyable
    <3>3. LockedRequest(r) = {} => txn[v].request # r
      BY <1>7, <2>1 DEF LockedRequest, Active, At
    <3>4. QED
      BY <1>1, <2>1, <3>1, <3>2, <3>3 DEF Requests0
  <2>2. QED
    BY <1>1, <1>3, <2>1 DEF OrdersKept
<1>8. QED
  BY <1>1, <1>3, <1>4, <1>5, <1>6, <1>7, OrdersStep

(* An order nothing was received of.                                       *)
LEMMA NothingReceived ==
    ASSUME IInv, NEW o \in Orders, orders[o].status \notin {"RECEIVED", "PARTIALLY_RECEIVED"}
    PROVE  /\ \A l \in LinesOf(o) : received[l] = 0
           /\ ~\A l \in LinesOf(o) : received[l] = Ordered[l]
  BY DEF IInv, StatusFollows

(* Orders are decided and cancelled while nobody receives or makes them.   *)
LEMMA DecideInv ==
    ASSUME IInv, NEW o \in Orders,
           Cancel(o) \/ \E decision \in {"APPROVED", "REJECTED"} : Decide(o, decision)
    PROVE  IInv'
<1>1. PICK c \in [status : {"APPROVED", "REJECTED", "CANCELLED"}, approval : {"APPROVED", "REJECTED", "PENDING"}] :
        /\ orders' = [orders EXCEPT ![o].status = c.status,
                                    ![o].approval = IF c.approval = "PENDING" THEN orders[o].approval ELSE c.approval]
        /\ c.approval = "REJECTED" => c.status \in {"REJECTED", "CANCELLED"}
        /\ orders[o].status \in {"PENDING_APPROVAL", "APPROVED"} /\ LockedOrder(o) = {}
        /\ c.approval = "PENDING" => orders[o].status = "APPROVED" /\ c.status = "CANCELLED"
  <2>1. CASE Cancel(o) /\ orders[o].status = "APPROVED"
    <3>1. orders' = [orders EXCEPT ![o].status = "CANCELLED", ![o].approval = orders[o].approval]
      BY <2>1 DEF Cancel, IInv, KindInv, Order
    <3>2. [status |-> "CANCELLED", approval |-> "PENDING"]
            \in [status : {"APPROVED", "REJECTED", "CANCELLED"}, approval : {"APPROVED", "REJECTED", "PENDING"}]
      OBVIOUS
    <3>3. QED
      BY <2>1, <3>1, <3>2 DEF Cancel
  <2>2. CASE Cancel(o) /\ orders[o].status # "APPROVED"
    <3>1. [status |-> "CANCELLED", approval |-> "REJECTED"]
            \in [status : {"APPROVED", "REJECTED", "CANCELLED"}, approval : {"APPROVED", "REJECTED", "PENDING"}]
      OBVIOUS
    <3>2. QED
      BY <2>2, <3>1 DEF Cancel
  <2>3. ASSUME NEW d \in {"APPROVED", "REJECTED"}, Decide(o, d)
        PROVE  /\ [status |-> d, approval |-> d]
                    \in [status : {"APPROVED", "REJECTED", "CANCELLED"}, approval : {"APPROVED", "REJECTED", "PENDING"}]
               /\ orders' = [orders EXCEPT ![o].status = d, ![o].approval = d]
               /\ orders[o].status = "PENDING_APPROVAL" /\ LockedOrder(o) = {}
    BY <2>3 DEF Decide
  <2>4. QED
    BY <2>1, <2>2, <2>3
<1>2. KindInv /\ GoodsKept /\ requests' = requests /\ txn' = txn
  BY DEF IInv, Cancel, Decide, GoodsKept
<1>3. orders[o] \in Order
  BY <1>2 DEF KindInv
<1>4. /\ orders' \in [Orders -> Order] /\ orders'[o].status = c.status /\ orders'[o].from = orders[o].from
      /\ orders'[o].approval = IF c.approval = "PENDING" THEN orders[o].approval ELSE c.approval
      /\ \A q \in Orders : q # o => orders'[q] = orders[q]
  BY <1>1, <1>2, <1>3 DEF KindInv, Order, OrderStatus, Approvals
<1>5. StatusFollows(o)'
  <2>1. /\ \A l \in LinesOf(o) : received'[l] = 0
        /\ ~\A l \in LinesOf(o) : received'[l] = Ordered[l]
    BY <1>1, <1>2, NothingReceived DEF GoodsKept
  <2>2. orders'[o].approval # "PENDING"
    BY <1>1, <1>4 DEF IInv, StatusFollows
  <2>3. orders'[o].approval = "REJECTED" => orders'[o].status \in {"REJECTED", "CANCELLED"}
    BY <1>1, <1>4
  <2>4. QED
    BY <1>4, <2>1, <2>2, <2>3 DEF StatusFollows
<1>6. \A q \in Orders : StatusFollows(q)'
  <2>1. \A q \in Orders : q # o => StatusFollows(q)'
    BY <1>2, <1>4 DEF IInv, StatusFollows, GoodsKept
  <2>2. QED
    BY <1>5, <2>1
<1>7. \A r \in PurchaseRequests : RequestFollows(r)'
  <2>1. \A q \in Orders : orders'[q].from = orders[q].from
    BY <1>4
  <2>2. \A r : MadeFrom(r)' = MadeFrom(r)
    BY <2>1 DEF MadeFrom
  <2>3. QED
    BY <1>2, <2>2 DEF IInv, RequestFollows
<1>8. ASSUME NEW v \in Workers, txn[v] # Idle PROVE OrdersKept(txn[v])
  <2>1. ASSUME txn[v].type = "purchase_order" PROVE txn[v].order # o /\ txn[v].order \in Orders
    <3>1. txn[v].order \in Orders /\ Sound(txn[v])
      BY <1>2, <1>8, <2>1, Opened, BuyerFields DEF IInv
    <3>2. QED
      BY <1>1, <2>1, <3>1 DEF Sound, BuyerSound
  <2>2. ASSUME Locking(txn[v]) PROVE txn[v].order # o /\ txn[v].order \in Orders
    <3>1. txn[v].type # "purchase_order"
      BY <2>2 DEF Locking, Moves
    <3>2. PosterSound(txn[v])
      BY <1>8, <3>1, PosterNow
    <3>3. QED
      BY <1>1, <1>8, <2>2, <3>2 DEF LockedOrder, Active, Locking, PosterSound, MoverSound
  <2>3. QED
    BY <1>2, <1>4, <2>1, <2>2 DEF OrdersKept
<1>9. requests' \in [PurchaseRequests -> Statuses] /\ txn' \in [Workers -> Buyer \cup Poster \cup {Idle}]
  BY <1>2 DEF KindInv
<1>10. QED
  BY <1>2, <1>4, <1>6, <1>7, <1>8, <1>9, OrdersStep

(* A new order takes up its request, which no other order did.             *)
LEMMA PlaceOrderInv ==
    ASSUME IInv, NEW w \in Workers, PlaceOrder(w)
    PROVE  /\ IInv'
           /\ txn[w] \in Buyer /\ orders[txn[w].order].status = "NONE"
           /\ orders[txn[w].order].approval = "NONE"
           /\ Buyable(txn[w].request)
<1>1. PICK t : t = txn[w]
  OBVIOUS
<1>2. PICK n : n = [status |-> IF Approval(t.order) = "NONE" THEN "APPROVED" ELSE "PENDING_APPROVAL",
                    approval |-> Approval(t.order), from |-> t.request]
  OBVIOUS
<1>3. /\ t # Idle /\ t.pc = "place" /\ orders' = [orders EXCEPT ![t.order] = n]
      /\ requests' = [r \in PurchaseRequests |-> IF r = t.request THEN "PROCESSED" ELSE requests[r]]
      /\ Set(w, Idle) /\ GoodsKept
  BY <1>1, <1>2 DEF PlaceOrder, At, GoodsKept
<1>4. t.type = "purchase_order"
  BY <1>1, <1>3, Opened, PosterFields DEF IInv
<1>5. KindInv /\ t \in Buyer /\ t.order \in Orders /\ t.request \in Requests0 /\ Sound(t)
  BY <1>1, <1>3, <1>4, Opened, BuyerFields DEF IInv
<1>6. orders[t.order].status = "NONE" /\ Buyable(t.request)
  BY <1>3, <1>4, <1>5 DEF Sound, BuyerSound
<1>7. orders[t.order].approval = "NONE" /\ orders[t.order].from = NoRequest
  BY <1>5, <1>6 DEF IInv, StatusFollows
<1>8. /\ n \in Order /\ n.from = t.request /\ n.status \in {"APPROVED", "PENDING_APPROVAL"}
      /\ n.status = "PENDING_APPROVAL" <=> n.approval = "PENDING"
      /\ n.approval \in {"NONE", "PENDING"}
  BY <1>2, <1>5 DEF Order, Approval, OrderStatus, Approvals
<1>9. /\ orders' \in [Orders -> Order] /\ orders'[t.order] = n
      /\ \A q \in Orders : q # t.order => orders'[q] = orders[q]
  BY <1>3, <1>5, <1>8 DEF KindInv
<1>10. requests' \in [PurchaseRequests -> Statuses]
  BY <1>3, <1>5 DEF KindInv, Statuses
<1>11. StatusFollows(t.order)'
  <2>1. /\ \A l \in LinesOf(t.order) : received'[l] = 0
        /\ ~\A l \in LinesOf(t.order) : received'[l] = Ordered[l]
    BY <1>3, <1>5, <1>6, NothingReceived DEF GoodsKept
  <2>2. QED
    BY <1>8, <1>9, <2>1 DEF StatusFollows
<1>12. \A q \in Orders : StatusFollows(q)'
  <2>1. \A q \in Orders : q # t.order => StatusFollows(q)'
    BY <1>3, <1>9 DEF IInv, StatusFollows, GoodsKept
  <2>2. QED
    BY <1>11, <2>1
<1>13. ASSUME NEW r \in PurchaseRequests PROVE RequestFollows(r)'
  <2>1. RequestFollows(r) /\ r # NoRequest
    BY PurchasingAssumption DEF IInv
  <2>2. CASE r = t.request
    <3>1. requests[r] = "ACCEPTED"
      BY <1>6, <2>1, <2>2 DEF Buyable
    <3>2. MadeFrom(r) = {}
      BY <2>1, <3>1 DEF RequestFollows
    <3>3. MadeFrom(r)' = {t.order}
      BY <1>5, <1>8, <1>9, <2>2, <3>2 DEF MadeFrom
    <3>4. requests'[r] = "PROCESSED"
      BY <1>3, <2>2
    <3>5. QED
      BY <1>5, <3>3, <3>4 DEF RequestFollows
  <2>3. CASE r # t.request
    <3>1. MadeFrom(r)' = MadeFrom(r)
      BY <1>5, <1>7, <1>8, <1>9, <2>1, <2>3 DEF MadeFrom
    <3>2. requests'[r] = requests[r]
      BY <1>3, <2>3
    <3>3. QED
      BY <2>1, <3>1, <3>2 DEF RequestFollows
  <2>4. QED
    BY <2>2, <2>3
<1>14. ASSUME NEW v \in Workers, v # w, txn[v] # Idle PROVE OrdersKept(txn[v])
  <2>1. Apart(t, txn[v])
    BY <1>1, <1>3, <1>14 DEF IInv
  <2>2. ASSUME txn[v].type = "purchase_order"
        PROVE  txn[v].order # t.order /\ txn[v].order \in Orders /\ txn[v].pc # "place"
    BY <1>3, <1>4, <1>5, <1>14, <2>1, <2>2, Opened, BuyerFields DEF Apart
  <2>3. ASSUME Locking(txn[v]) PROVE txn[v].order # t.order /\ txn[v].order \in Orders
    <3>1. txn[v].type # "purchase_order"
      BY <2>3 DEF Locking, Moves
    <3>2. PosterSound(txn[v])
      BY <1>14, <3>1, PosterNow
    <3>3. QED
      BY <1>6, <2>3, <3>2 DEF Locking, PosterSound, MoverSound
  <2>4. QED
    BY <1>9, <2>2, <2>3 DEF OrdersKept
<1>15. txn'[w] = Idle /\ \A v \in Workers : v # w => txn'[v] = txn[v]
  BY <1>3, <1>5, SetTxn
<1>16. txn' \in [Workers -> Buyer \cup Poster \cup {Idle}]
  BY <1>3, <1>5 DEF KindInv, Set
<1>17. IInv'
  <2>1. \A v \in Workers : txn'[v] = Idle \/ (txn'[v] = txn[v] /\ (txn[v] # Idle => OrdersKept(txn[v])))
    BY <1>14, <1>15
  <2>2. GoodsKept /\ orders' \in [Orders -> Order]
    BY <1>3, <1>9
  <2>3. \A r \in PurchaseRequests : RequestFollows(r)'
    BY <1>13
  <2>4. QED
    BY <1>10, <1>12, <1>16, <2>1, <2>2, <2>3, OrdersStep
<1>18. QED
  BY <1>1, <1>5, <1>6, <1>7, <1>17
-----------------------------------------------------------------------------
(* Documents are stored *)

(* `D` is appended to the documents.                                       *)
Appended(D) ==
    /\ documents \in Seq(Document) /\ DocumentsInOrder
    /\ D \in Document /\ Follows(Len(documents) + 1, D)
    /\ documents' = Append(documents, D)

(* The documents there were keep their places.                             *)
LEMMA AppendedDocuments ==
    ASSUME NEW D, Appended(D)
    PROVE  /\ documents' \in Seq(Document)
           /\ Len(documents') = Len(documents) + 1 /\ Len(documents) \in Nat
           /\ DOMAIN documents' = DOMAIN documents \cup {Len(documents) + 1}
           /\ DOMAIN documents = 1 .. Len(documents)
           /\ Len(documents) + 1 \notin DOMAIN documents
           /\ documents'[Len(documents) + 1] = D
           /\ \A i \in DOMAIN documents : documents'[i] = documents[i]
  BY DEF Appended

(* Those of a type, too.                                                   *)
LEMMA AppendedTypes ==
    ASSUME NEW D, Appended(D), NEW type
    PROVE  /\ OfType(type) \subseteq OfType(type)'
           /\ OfType(type)' \subseteq OfType(type) \cup {Len(documents) + 1}
           /\ (Len(documents) + 1) \in OfType(type)' <=> D.type = type
           /\ OfType(type) \subseteq DOMAIN documents
<1>1. OfType(type)' = {d \in DOMAIN documents' : documents'[d].type = type}
  BY DEF OfType
<1>2. QED
  BY <1>1, AppendedDocuments DEF OfType

(* What the new document settles of an invoice.                            *)
ShareOf(D, i) == IF D.type = "supplier_payment" /\ D.of = i THEN D.share ELSE 0

(* What payments settled grows by the share of the new one.                *)
LEMMA SettledStep ==
    ASSUME NEW D, Appended(D), NEW i
    PROVE  Settled(i)' = Settled(i) + ShareOf(D, i)
<1> DEFINE n == Len(documents) + 1
           S == PaymentsOf(i)
           T == S'
           f == [d \in S |-> documents[d].share]
           g == [d \in T |-> documents'[d].share]
<1>1. T = {d \in OfType("supplier_payment")' : documents'[d].of = i}
  BY DEF PaymentsOf
<1>2. /\ S \subseteq T /\ T \subseteq S \cup {n} /\ S \subseteq DOMAIN documents
      /\ n \in T <=> D.type = "supplier_payment" /\ D.of = i
  BY <1>1, AppendedDocuments, AppendedTypes DEF PaymentsOf
<1>3. documents \in Seq(Document) /\ D.share \in Int
  BY DEF Appended, Document
<1>4. IsFiniteSet(S) /\ n \notin S /\ f \in [S -> Int]
  BY <1>2, <1>3, FinitelyMany, AppendedDocuments
<1>5. g \in [T -> Int] /\ (n \in T => g[n] = D.share) /\ \A d \in S : g[d] = f[d]
  BY <1>2, <1>3, <1>4, FinitelyMany, AppendedDocuments
<1>6. Settled(i) = SumFunction(f) /\ Settled(i)' = SumFunction(g)
  BY DEF Settled, Total
<1> HIDE DEF f, g, S, T, n
<1>7. SumFunction(g) = SumFunction(f) + (IF n \in T THEN g[n] ELSE 0)
  BY <1>2, <1>4, <1>5, SumExtend
<1>8. (IF n \in T THEN g[n] ELSE 0) = ShareOf(D, i)
  <2>1. CASE n \in T
    BY <2>1, <1>2, <1>5 DEF ShareOf
  <2>2. CASE n \notin T
    BY <2>2, <1>2 DEF ShareOf
  <2>3. QED
    BY <2>1, <2>2
<1>9. QED
  BY <1>6, <1>7, <1>8

(* The entries stay, and one may be added.                                 *)
EntriesKept ==
    /\ entries' \in Seq(Entry) /\ DOMAIN entries \subseteq DOMAIN entries'
    /\ \A e \in DOMAIN entries : entries'[e] = entries[e]

(* A transaction finds what it locked as it was.                           *)
Undisturbed(s, D) ==
    /\ s.type = "purchase_order" => orders'[s.order].status = orders[s.order].status
    /\ Locking(s) => /\ orders'[s.order].status = orders[s.order].status
                     /\ \A l \in LinesOf(s.order) : received'[l] = received[l]
    /\ Holding(s) => stock' = stock
    /\ Invoicing(s) => \A l \in DOMAIN s.qty : received'[l] = received[l] /\ invoiced'[l] = invoiced[l]
    /\ s.type = "supplier_payment" /\ s.pc # "begin" => D.type # "supplier_payment"

(* Then it stays sound.                                                    *)
LEMMA StoredSound ==
    ASSUME NEW D, Appended(D), EntriesKept, requests' = requests,
           NEW s \in Buyer \cup Poster, Sound(s), Undisturbed(s, D)
    PROVE  Sound(s)'
<1>1. CASE s.type = "purchase_order"
  BY <1>1 DEF Sound, BuyerSound, Buyable, Undisturbed
<1>2. CASE s.type # "purchase_order"
  <2>1. PosterSound(s) /\ s \in Poster
    BY <1>2, BuyerFields DEF Sound
  <2>2. s.type \in Moves => MoverSound(s)'
    BY <2>1 DEF PosterSound, MoverSound, CostIsDue, Undisturbed, Locking, Holding
  <2>3. s.type \in Settling => s.of \in OfType("supplier_invoice")'
    BY <2>1, AppendedTypes DEF PosterSound
  <2>4. ASSUME s.type = "supplier_payment", s.pc # "begin"
        PROVE  Settled(s.of)' + s.share <= Amount(s.of)'
    <3>1. s.of \in DOMAIN documents /\ Settled(s.of) + s.share <= Amount(s.of)
      BY <2>1, <2>4 DEF PosterSound, OfType, Settling
    <3>2. ShareOf(D, s.of) = 0
      BY <2>4 DEF Undisturbed, ShareOf
    <3>3. Settled(s.of)' = Settled(s.of)
      <4>1. Settled(s.of) \in Nat
        BY SettledType DEF Appended
      <4>2. Settled(s.of)' = Settled(s.of) + 0
        BY <3>2, SettledStep
      <4>3. QED
        BY <4>1, <4>2
    <3>4. Amount(s.of)' = Amount(s.of)
      BY <3>1, AppendedDocuments DEF Amount
    <3>5. QED
      BY <3>1, <3>3, <3>4
  <2>5. s.entry # 0 => s.pc = "store" /\ s.entry \in DOMAIN entries' /\ entries'[s.entry].key = s.key
    BY <2>1 DEF PosterSound, EntriesKept
  <2>6. s.pc # "begin" => CheckedGoods(s)'
    <3>1. s.type \in Moves => \A l \in DOMAIN s.qty : l \in LinesOf(s.order)
      BY <2>1, PosterFields DEF PosterSound, MoverSound, LinesOf
    <3>2. CASE s.type \in Moves
      BY <2>1, <3>1, <3>2 DEF PosterSound, CheckedGoods, Receivable, Undisturbed, Locking, Moves
    <3>3. CASE s.type \notin Moves
      BY <2>1, <3>3 DEF PosterSound, CheckedGoods, Uninvoiced, Undisturbed, Invoicing, Moves
    <3>4. QED
      BY <3>2, <3>3
  <2>7. PosterSound(s)'
    BY <2>1, <2>2, <2>3, <2>4, <2>5, <2>6 DEF PosterSound
  <2>8. QED
    BY <1>2, <2>7 DEF Sound
<1>3. QED
  BY <1>1, <1>2

(* A stored document keeps the invariant, if it leaves alone what
   transactions hold.                                                      *)
LEMMA StoredStep ==
    ASSUME IInv, NEW D, Appended(D), EntriesKept, D.entry \in DOMAIN entries', requests' = requests,
           orders' \in [Orders -> Order], received' \in [Lines -> Nat], invoiced' \in [Lines -> Nat],
           stock' \in State, Backstop(received, invoiced)',
           \A o \in Orders : StatusFollows(o)' /\ orders'[o].from = orders[o].from,
           txn' \in [Workers -> Buyer \cup Poster \cup {Idle}],
           \A v \in Workers : txn'[v] = Idle \/ (txn'[v] = txn[v] /\ (txn[v] # Idle => Undisturbed(txn[v], D)))
    PROVE  IInv'
<1>1. /\ KindInv /\ DocumentsInOrder /\ EntriesExist
      /\ \A r \in PurchaseRequests : RequestFollows(r)
      /\ \A v \in Workers : txn[v] # Idle => Sound(txn[v])
      /\ \A v, u \in Workers : v # u /\ txn[v] # Idle /\ txn[u] # Idle => Apart(txn[v], txn[u])
  BY DEF IInv
<1>2. KindInv'
  BY <1>1, AppendedDocuments DEF KindInv, EntriesKept
<1>3. DocumentsInOrder'
  <2>1. ASSUME NEW d \in DOMAIN documents PROVE Follows(d, documents[d])'
    BY <1>1, <2>1, AppendedDocuments, AppendedTypes DEF DocumentsInOrder, Follows
  <2>2. PICK n : n = Len(documents) + 1
    OBVIOUS
  <2>3. Follows(n, documents[n])'
    BY <2>2, AppendedDocuments, AppendedTypes DEF Follows, Appended
  <2>4. DOMAIN documents' = DOMAIN documents \cup {n}
    BY <2>2, AppendedDocuments
  <2>5. QED
    BY <2>1, <2>3, <2>4 DEF DocumentsInOrder
<1>4. EntriesExist'
  BY <1>1, AppendedDocuments DEF EntriesExist, EntriesKept
<1>5. ASSUME NEW r \in PurchaseRequests PROVE RequestFollows(r)'
  <2>1. MadeFrom(r)' = MadeFrom(r)
    BY DEF MadeFrom
  <2>2. QED
    BY <1>1, <2>1 DEF RequestFollows
<1>6. ASSUME NEW v \in Workers, NEW s, s = txn'[v], s # Idle PROVE Sound(s)'
  <2>1. Sound(s) /\ Undisturbed(s, D) /\ s \in Buyer \cup Poster
    BY <1>1, <1>6 DEF KindInv
  <2>2. QED
    BY <2>1, StoredSound
<1>7. ASSUME NEW v \in Workers, NEW u \in Workers, v # u, txn'[v] # Idle, txn'[u] # Idle
      PROVE  Apart(txn'[v], txn'[u])
  BY <1>1, <1>7
<1>8. QED
  BY <1>2, <1>3, <1>4, <1>5, <1>6, <1>7 DEF IInv, Apart, Locking, Holding, Invoicing

(* The transaction's document, and its entry unless the key was found.     *)
StoresAs(w, t, e) ==
    /\ entries' = IF t.entry = 0 THEN Append(entries, e) ELSE entries
    /\ documents' = Append(documents, NewDocument(t))
    /\ Set(w, Idle)

(* A document follows those it is stored after.                            *)
LEMMA StoreAppends ==
    ASSUME IInv, NEW w \in Workers, NEW t, t = txn[w], t # Idle, t.type # "purchase_order",
           NEW e \in Entry, StoresAs(w, t, e)
    PROVE  /\ t \in Poster /\ PosterSound(t) /\ PairsApart(t, w)
           /\ Appended(NewDocument(t)) /\ EntriesKept /\ NewDocument(t).entry \in DOMAIN entries'
           /\ NewDocument(t).type = t.type /\ NewDocument(t).qty = t.qty
           /\ NewDocument(t).amount = t.amount /\ NewDocument(t).of = t.of
           /\ NewDocument(t).share = t.share /\ NewDocument(t).number = t.number
           /\ txn' \in [Workers -> Buyer \cup Poster \cup {Idle}]
           /\ txn'[w] = Idle /\ \A v \in Workers : v # w => txn'[v] = txn[v]
<1>1. t \in Poster /\ PosterSound(t) /\ PairsApart(t, w)
  BY PosterNow
<1>2. KindInv /\ DocumentsInOrder /\ documents \in Seq(Document) /\ entries \in Seq(Entry)
  BY DEF IInv, KindInv
<1>3. txn' \in [Workers -> Buyer \cup Poster \cup {Idle}]
      /\ txn'[w] = Idle /\ \A v \in Workers : v # w => txn'[v] = txn[v]
  BY <1>2 DEF StoresAs, KindInv, Set
<1>4. EntriesKept /\ Len(entries) \in Nat
      /\ (t.entry = 0 => Len(entries) + 1 \in DOMAIN entries')
  BY <1>2 DEF StoresAs, EntriesKept
<1>5. PICK D : D = NewDocument(t)
  OBVIOUS
<1>6. /\ D.type = t.type /\ D.qty = t.qty /\ D.amount = t.amount /\ D.of = t.of
      /\ D.share = t.share /\ D.number = t.number
      /\ D.entry = IF t.entry = 0 THEN Len(entries) + 1 ELSE t.entry
  BY <1>5 DEF NewDocument
<1>7. D.entry \in DOMAIN entries' /\ D.entry \in Nat
  BY <1>1, <1>4, <1>6, PosterFields DEF PosterSound, EntriesKept
<1>8. D \in Document
  <2>1. /\ t.type \in Types /\ t.qty \in Quantities /\ t.amount \in Nat /\ t.of \in Nat
        /\ t.share \in Nat /\ t.number \in Numbers
    BY <1>1, PosterFields
  <2>2. D.entry \in Nat
    BY <1>7
  <2>3. D = [type |-> t.type, qty |-> t.qty, amount |-> t.amount, of |-> t.of, share |-> t.share,
             number |-> t.number, entry |-> D.entry]
    BY <1>5 DEF NewDocument
  <2>4. QED
    BY <2>1, <2>2, <2>3 DEF Document
<1>9. Follows(Len(documents) + 1, D)
  <2>1. t.of \in OfType("supplier_invoice") => t.of < Len(documents) + 1
    BY <1>2 DEF OfType
  <2>2. QED
    BY <1>1, <1>6, <2>1 DEF Follows, PosterSound
<1>10. Appended(D)
  BY <1>2, <1>5, <1>8, <1>9 DEF Appended, StoresAs
<1>11. QED
  BY <1>1, <1>3, <1>4, <1>5, <1>6, <1>7, <1>10

-----------------------------------------------------------------------------
(* Receipts and returns are stored *)

(* A receipt or a return is stored, with its entry and the stock row.      *)
MoveStored(w, t, e, s) ==
    /\ t = txn[w] /\ t # Idle /\ t.pc = "store" /\ t.type \in Moves
    /\ LockedLines(DOMAIN t.qty) = {} /\ MoveIsSound(t)
    /\ StoresAs(w, t, e)
    /\ received' = ReceivedAfter(t) /\ stock' = s
    /\ orders' = [orders EXCEPT ![t.order].status = Progress(t.order, AfterMove(t))]
    /\ requests' = requests /\ invoiced' = invoiced

MovedBy(t, l) ==
    IF l \in DOMAIN t.qty
    THEN (IF t.type = "goods_receipt" THEN t.qty[l] ELSE -t.qty[l])
    ELSE 0

(* What a receipt is.                                                      *)
LEMMA ReceiptStored ==
    ASSUME NEW w \in Workers, StoreReceipt(w)
    PROVE  txn[w].type = "goods_receipt"
           /\ MoveStored(w, txn[w], ReceiptEntry(txn[w]), ReceiveAll(stock, txn[w].qty))
  BY DEF StoreReceipt, StoreMove, Stores, Store, StoresAs, MoveStored, At, Moves

(* What a return is.                                                       *)
LEMMA ReturnStored ==
    ASSUME NEW w \in Workers, StoreReturn(w)
    PROVE  txn[w].type = "goods_return"
           /\ MoveStored(w, txn[w], ReturnEntry(txn[w]), ReturnAll(stock, txn[w].qty))
  BY DEF StoreReturn, StoreMove, Stores, Store, StoresAs, MoveStored, At, Moves

(* The counters change by what was moved, on lines of the order alone.     *)
LEMMA CountersMove ==
    ASSUME IInv, NEW w \in Workers, NEW t, NEW e \in Entry, NEW s, MoveStored(w, t, e, s)
    PROVE  /\ received' \in [Lines -> Nat]
           /\ \A l \in Lines : received'[l] = received[l] + MovedBy(t, l) /\ MovedBy(t, l) \in Int
           /\ \A l \in Lines \ LinesOf(t.order) : received'[l] = received[l]
           /\ \A l \in LinesOf(t.order) : AfterMove(t)[l] = received'[l]
           /\ Backstop(received, invoiced)'
<1>1. t \in Poster /\ PosterSound(t) /\ KindInv
  BY StoreAppends DEF MoveStored, Moves, IInv
<1>2. /\ DOMAIN t.qty \subseteq LinesOf(t.order) /\ LinesOf(t.order) \subseteq Lines
      /\ \A l \in LinesOf(t.order) : t.seen[l] = received[l]
      /\ \A l \in DOMAIN t.qty : t.qty[l] \in Nat
  BY <1>1, PosterFields DEF PosterSound, MoverSound, LinesOf, MoveStored
<1>3. received \in [Lines -> Nat] /\ invoiced \in [Lines -> Nat]
  BY <1>1 DEF KindInv
<1>4. \A l \in LinesOf(t.order) : AfterMove(t)[l] = received[l] + MovedBy(t, l)
  <2>1. CASE t.type = "goods_receipt"
    BY <1>2, <1>3, <2>1 DEF AfterMove, MovedBy
  <2>2. CASE t.type # "goods_receipt"
    BY <1>2, <1>3, <2>2 DEF AfterMove, MovedBy
  <2>3. QED
    BY <2>1, <2>2
<1>5. \A l \in Lines : MovedBy(t, l) \in Int
  BY <1>2 DEF MovedBy
<1>6. \A l \in Lines : received'[l] = received[l] + MovedBy(t, l)
  <2>1. \A l \in Lines : received'[l] = IF l \in DOMAIN t.qty THEN AfterMove(t)[l] ELSE received[l]
    BY DEF MoveStored, ReceivedAfter
  <2>2. \A l \in Lines \ DOMAIN t.qty : MovedBy(t, l) = 0
    BY DEF MovedBy
  <2>3. QED
    BY <1>2, <1>3, <1>4, <2>1, <2>2
<1>7. Backstop(received, invoiced)'
  BY DEF MoveStored, MoveIsSound, Backstop
<1>8. received' \in [Lines -> Nat]
  <2>1. \A l \in Lines : received'[l] \in Int /\ 0 <= invoiced[l] /\ invoiced[l] <= received'[l]
    BY <1>3, <1>5, <1>6, <1>7 DEF Backstop, MoveStored
  <2>2. DOMAIN received' = Lines /\ received' = [l \in Lines |-> received'[l]]
    BY DEF MoveStored, ReceivedAfter
  <2>3. \A l \in Lines : received'[l] \in Nat
    BY <1>3, <2>1
  <2>4. QED
    BY <2>2, <2>3
<1>9. \A l \in Lines \ LinesOf(t.order) : received'[l] = received[l]
  <2>1. \A l \in Lines \ LinesOf(t.order) : MovedBy(t, l) = 0
    BY <1>2 DEF MovedBy
  <2>2. QED
    BY <1>3, <1>6, <2>1
<1>10. \A l \in LinesOf(t.order) : AfterMove(t)[l] = received'[l]
  BY <1>2, <1>4, <1>6
<1>11. QED
  BY <1>5, <1>6, <1>7, <1>8, <1>9, <1>10

(* The status of the order follows.                                        *)
LEMMA StatusMoves ==
    ASSUME IInv, NEW w \in Workers, NEW t, NEW e \in Entry, NEW s, MoveStored(w, t, e, s)
    PROVE  /\ t.order \in Orders /\ orders' \in [Orders -> Order]
           /\ orders[t.order].status \in {"APPROVED", "PARTIALLY_RECEIVED", "RECEIVED"}
           /\ \A o \in Orders : o # t.order => orders'[o] = orders[o]
           /\ \A o \in Orders : orders'[o].from = orders[o].from
           /\ \A o \in Orders : orders'[o].approval = orders[o].approval
           /\ \A o \in Orders : StatusFollows(o)'
<1>1. t \in Poster /\ PosterSound(t) /\ KindInv
  BY StoreAppends DEF MoveStored, Moves, IInv
<1>2. t.order \in Orders /\ orders[t.order].status \in {"APPROVED", "PARTIALLY_RECEIVED", "RECEIVED"}
  BY <1>1 DEF PosterSound, MoverSound, MoveStored
<1>3. PICK p : p = Progress(t.order, AfterMove(t))
  OBVIOUS
<1>4. /\ \A l \in LinesOf(t.order) : AfterMove(t)[l] = received'[l]
      /\ \A l \in LinesOf(t.order) : received'[l] \in Nat /\ Ordered[l] \in Nat
      /\ \A l \in LinesOf(t.order) : received'[l] <= Ordered[l]
  BY CountersMove, PurchasingAssumption DEF Backstop, LinesOf
<1>5. p = IF \A l \in LinesOf(t.order) : received'[l] = Ordered[l] THEN "RECEIVED"
          ELSE IF ~\A l \in LinesOf(t.order) : received'[l] = 0 THEN "PARTIALLY_RECEIVED"
          ELSE "APPROVED"
  <2>1. (\A l \in LinesOf(t.order) : AfterMove(t)[l] >= Ordered[l])
          <=> \A l \in LinesOf(t.order) : received'[l] = Ordered[l]
    BY <1>4
  <2>2. (\E l \in LinesOf(t.order) : AfterMove(t)[l] > 0)
          <=> ~\A l \in LinesOf(t.order) : received'[l] = 0
    BY <1>4
  <2>3. QED
    BY <1>3, <2>1, <2>2 DEF Progress
<1>6. p \in {"APPROVED", "PARTIALLY_RECEIVED", "RECEIVED"}
  BY <1>5
<1>7. /\ orders' = [orders EXCEPT ![t.order].status = p]
      /\ orders \in [Orders -> Order] /\ orders[t.order] \in Order
  BY <1>1, <1>2, <1>3 DEF MoveStored, KindInv
<1>8. /\ orders' \in [Orders -> Order] /\ orders'[t.order].status = p
      /\ orders'[t.order].from = orders[t.order].from
      /\ orders'[t.order].approval = orders[t.order].approval
      /\ \A o \in Orders : o # t.order => orders'[o] = orders[o]
  BY <1>2, <1>6, <1>7 DEF Order, OrderStatus
<1>9. StatusFollows(t.order)'
  <2>1. orders[t.order].approval \notin {"PENDING", "REJECTED"}
    BY <1>2 DEF IInv, StatusFollows
  <2>2. ~((\A l \in LinesOf(t.order) : received'[l] = Ordered[l])
            /\ \A l \in LinesOf(t.order) : received'[l] = 0)
    <3>1. PICK l \in LinesOf(t.order) : Ordered[l] # 0
      BY <1>2, PurchasingAssumption DEF LinesOf
    <3>2. QED
      BY <3>1
  <2>3. QED
    BY <1>5, <1>8, <2>1, <2>2 DEF StatusFollows
<1>10. ASSUME NEW o \in Orders, o # t.order PROVE StatusFollows(o)'
  <2>1. LinesOf(o) \subseteq Lines \ LinesOf(t.order)
    BY <1>10 DEF LinesOf
  <2>2. \A l \in LinesOf(o) : received'[l] = received[l]
    BY <2>1, CountersMove
  <2>3. StatusFollows(o)
    BY DEF IInv
  <2>4. QED
    BY <1>8, <1>10, <2>2, <2>3 DEF StatusFollows
<1>11. QED
  BY <1>2, <1>8, <1>9, <1>10

(* A receipt or a return keeps the invariant.                              *)
LEMMA MoveInv ==
    ASSUME IInv, NEW w \in Workers, NEW t, NEW e \in Entry, NEW s \in State, MoveStored(w, t, e, s)
    PROVE  IInv'
<1>1. /\ t = txn[w] /\ t # Idle /\ t.type # "purchase_order" /\ t.type \in Moves /\ t.pc = "store"
      /\ StoresAs(w, t, e) /\ requests' = requests /\ invoiced' = invoiced /\ stock' \in State
  BY DEF MoveStored, Moves
<1>2. PICK D : D = NewDocument(t)
  OBVIOUS
<1>3. /\ t \in Poster /\ PosterSound(t) /\ PairsApart(t, w)
      /\ Appended(D) /\ EntriesKept /\ D.entry \in DOMAIN entries' /\ D.type = t.type
      /\ txn' \in [Workers -> Buyer \cup Poster \cup {Idle}]
      /\ txn'[w] = Idle /\ \A v \in Workers : v # w => txn'[v] = txn[v]
  BY <1>1, <1>2, StoreAppends
<1>4. /\ t.order \in Orders /\ orders' \in [Orders -> Order]
      /\ orders[t.order].status \in {"APPROVED", "PARTIALLY_RECEIVED", "RECEIVED"}
      /\ \A o \in Orders : o # t.order => orders'[o] = orders[o]
      /\ \A o \in Orders : orders'[o].from = orders[o].from
      /\ \A o \in Orders : StatusFollows(o)'
  BY StatusMoves
<1>5. /\ received' \in [Lines -> Nat] /\ Backstop(received, invoiced)'
      /\ \A l \in Lines \ LinesOf(t.order) : received'[l] = received[l]
  BY CountersMove
<1>6. invoiced' \in [Lines -> Nat]
  BY <1>1 DEF IInv, KindInv
<1>7. ASSUME NEW v \in Workers, v # w, txn[v] # Idle PROVE Undisturbed(txn[v], D)
  <2>1. Apart(t, txn[v]) /\ Sound(txn[v])
    BY <1>3, <1>7 DEF PairsApart, IInv
  <2>2. ASSUME txn[v].type = "purchase_order"
        PROVE  orders'[txn[v].order].status = orders[txn[v].order].status
    <3>1. txn[v].order \in Orders /\ orders[txn[v].order].status = "NONE"
      BY <1>7, <2>1, <2>2, Opened, BuyerFields DEF Sound, BuyerSound, IInv
    <3>2. QED
      BY <1>4, <3>1
  <2>3. ASSUME Locking(txn[v])
        PROVE  /\ orders'[txn[v].order].status = orders[txn[v].order].status
               /\ \A l \in LinesOf(txn[v].order) : received'[l] = received[l]
    <3>1. txn[v].type # "purchase_order"
      BY <2>3 DEF Locking, Moves
    <3>2. txn[v].order \in Orders /\ txn[v].order # t.order
      BY <1>1, <2>1, <2>3, <3>1 DEF Sound, PosterSound, MoverSound, Locking, Apart
    <3>3. LinesOf(txn[v].order) \subseteq Lines \ LinesOf(t.order)
      BY <3>2 DEF LinesOf
    <3>4. QED
      BY <1>4, <1>5, <3>2, <3>3
  <2>4. ~Holding(txn[v])
    BY <1>1, <2>1 DEF Apart, Holding
  <2>5. D.type # "supplier_payment"
    BY <1>1, <1>3 DEF Moves
  <2>6. ASSUME Invoicing(txn[v]), NEW l \in DOMAIN txn[v].qty
        PROVE  received'[l] = received[l] /\ invoiced'[l] = invoiced[l]
    <3>1. txn[v] \in Poster
      BY <1>7, <2>6, PosterNow DEF Invoicing
    <3>2. l \in Lines /\ l \notin DOMAIN t.qty
      BY <1>7, <2>6, <3>1, PosterFields DEF MoveStored, LockedLines, Active, Invoicing
    <3>3. QED
      BY <1>1, <3>2 DEF MoveStored, ReceivedAfter
  <2>7. QED
    BY <2>2, <2>3, <2>4, <2>5, <2>6 DEF Undisturbed
<1>8. \A v \in Workers : txn'[v] = Idle \/ (txn'[v] = txn[v] /\ (txn[v] # Idle => Undisturbed(txn[v], D)))
  BY <1>3, <1>7
<1>9. QED
  BY <1>1, <1>3, <1>4, <1>5, <1>6, <1>8, StoredStep

-----------------------------------------------------------------------------
(* Receipts and returns, one by one *)

(* A receipt adds to the row.                                              *)
LEMMA ReceiptState ==
    ASSUME IInv, NEW w \in Workers, StoreReceipt(w)
    PROVE  /\ txn[w] \in Poster /\ ReceiptEntry(txn[w]) \in Entry
           /\ ReceiveAll(stock, txn[w].qty) \in State
           /\ txn[w].cost = Worth(txn[w].qty, Price) /\ txn[w].cost \in Nat
<1>1. PICK t : t = txn[w]
  OBVIOUS
<1>2. t # Idle /\ t.type = "goods_receipt" /\ t.pc = "store"
  BY <1>1, ReceiptStored DEF MoveStored
<1>3. t \in Poster /\ PosterSound(t) /\ stock \in State
  BY <1>1, <1>2, PosterNow DEF IInv, KindInv
<1>4. t.cost = Worth(t.qty, Price) /\ t.cost \in Nat /\ t.key \in Keys /\ Quantity(t.qty) \in Nat
  BY <1>2, <1>3, PosterFields, OrderWorthType DEF PosterSound, MoverSound, CostIsDue, Moves
<1>5. ReceiptEntry(t) \in Entry
  <2>1. ReceiptEntry(t) = [key |-> t.key, inventory |-> t.cost, grni |-> -t.cost, payable |-> 0]
    <3>1. PICK x : x = -t.cost
      OBVIOUS
    <3>2. ReceiptEntry(t) = [[key |-> t.key, inventory |-> 0, grni |-> 0, payable |-> 0]
                               EXCEPT !.inventory = t.cost, !.grni = x]
      BY <3>1 DEF ReceiptEntry, NewEntry
    <3>3. QED
      BY <3>1, <3>2
  <2>2. t.cost \in Int /\ -t.cost \in Int /\ t.key \in Keys \cup {NoRequest}
    BY <1>4
  <2>3. QED
    BY <2>1, <2>2 DEF Entry
<1>6. ReceiveAll(stock, t.qty) \in State
  BY <1>3, <1>4 DEF ReceiveAll, State
<1>7. QED
  BY <1>1, <1>3, <1>4, <1>5, <1>6

(* A return takes from it what it computed.                                *)
LEMMA ReturnState ==
    ASSUME IInv, NEW w \in Workers, StoreReturn(w)
    PROVE  /\ txn[w] \in Poster /\ ReturnEntry(txn[w]) \in Entry
           /\ ReturnAll(stock, txn[w].qty) \in State
           /\ txn[w].cost = stock.value - ReturnAll(stock, txn[w].qty).value /\ txn[w].cost \in Int
<1>1. PICK t : t = txn[w]
  OBVIOUS
<1>2. t # Idle /\ t.type = "goods_return" /\ t.pc = "store"
  BY <1>1, ReturnStored DEF MoveStored
<1>3. t \in Poster /\ PosterSound(t) /\ stock \in State
  BY <1>1, <1>2, PosterNow DEF IInv, KindInv
<1>4. /\ t.cost = ReturnedValue(stock, t.qty) /\ CanIssue(stock, Quantity(t.qty))
      /\ t.cost \in Int /\ t.key \in Keys /\ Worth(t.qty, Price) \in Nat
  BY <1>2, <1>3, PosterFields, OrderWorthType DEF PosterSound, MoverSound, CostIsDue, Moves
<1>5. ReturnEntry(t) \in Entry
  <2>1. ReturnEntry(t) = [key |-> t.key, inventory |-> -t.cost, grni |-> Worth(t.qty, Price), payable |-> 0]
    <3>1. PICK x, y : x = -t.cost /\ y = Worth(t.qty, Price)
      OBVIOUS
    <3>2. ReturnEntry(t) = [[key |-> t.key, inventory |-> 0, grni |-> 0, payable |-> 0]
                              EXCEPT !.inventory = x, !.grni = y]
      BY <3>1 DEF ReturnEntry, NewEntry
    <3>3. QED
      BY <3>1, <3>2
  <2>2. -t.cost \in Int /\ Worth(t.qty, Price) \in Int /\ t.key \in Keys \cup {NoRequest}
    BY <1>4
  <2>3. QED
    BY <2>1, <2>2 DEF Entry
<1>6. ReturnAll(stock, t.qty) \in State
  <2>1. Quantity(t.qty) <= stock.quantity /\ t.qty \in Quantities
    BY <1>3, <1>4, PosterFields DEF CanIssue
  <2>2. QED
    BY <1>3, <2>1, ReturnType
<1>7. QED
  BY <1>1, <1>3, <1>4, <1>5, <1>6 DEF ReturnedValue

(* Both keep the invariant.                                                *)
LEMMA StoreMoveInv ==
    ASSUME IInv, NEW w \in Workers, StoreReceipt(w) \/ StoreReturn(w)
    PROVE  IInv'
<1>1. CASE StoreReceipt(w)
  <2>1. MoveStored(w, txn[w], ReceiptEntry(txn[w]), ReceiveAll(stock, txn[w].qty))
    BY <1>1, ReceiptStored
  <2>2. ReceiptEntry(txn[w]) \in Entry /\ ReceiveAll(stock, txn[w].qty) \in State
    BY <1>1, ReceiptState
  <2>3. QED
    BY <2>1, <2>2, MoveInv
<1>2. CASE StoreReturn(w)
  <2>1. MoveStored(w, txn[w], ReturnEntry(txn[w]), ReturnAll(stock, txn[w].qty))
    BY <1>2, ReturnStored
  <2>2. ReturnEntry(txn[w]) \in Entry /\ ReturnAll(stock, txn[w].qty) \in State
    BY <1>2, ReturnState
  <2>3. QED
    BY <2>1, <2>2, MoveInv
<1>3. QED
  BY <1>1, <1>2

-----------------------------------------------------------------------------
(* Invoices, notes and payments *)

(* The tables an invoice, a note or a payment leaves as they were.         *)
GoodsStay == UNCHANGED <<requests, orders, received, stock>>

(* They keep the invariant.                                                *)
LEMMA SettleInv ==
    ASSUME IInv, NEW w \in Workers, NEW t, t = txn[w], t # Idle, t.type # "purchase_order", t.pc = "store",
           NEW e \in Entry, StoresAs(w, t, e), GoodsStay,
           invoiced' \in [Lines -> Nat], Backstop(received, invoiced)',
           \A l \in Lines : invoiced'[l] = invoiced[l] \/ (t.type = "supplier_invoice" /\ l \in DOMAIN t.qty)
    PROVE  IInv'
<1>1. PICK D : D = NewDocument(t)
  OBVIOUS
<1>2. /\ t \in Poster /\ PosterSound(t) /\ PairsApart(t, w)
      /\ Appended(D) /\ EntriesKept /\ D.entry \in DOMAIN entries' /\ D.type = t.type
      /\ txn' \in [Workers -> Buyer \cup Poster \cup {Idle}]
      /\ txn'[w] = Idle /\ \A v \in Workers : v # w => txn'[v] = txn[v]
  BY <1>1, StoreAppends
<1>3. requests' = requests /\ orders' = orders /\ received' = received /\ stock' = stock
  BY DEF GoodsStay
<1>4. orders' \in [Orders -> Order] /\ received' \in [Lines -> Nat] /\ stock' \in State
  BY <1>3 DEF IInv, KindInv
<1>5. \A o \in Orders : StatusFollows(o)' /\ orders'[o].from = orders[o].from
  BY <1>3 DEF IInv, StatusFollows
<1>6. ASSUME NEW v \in Workers, v # w, txn[v] # Idle PROVE Undisturbed(txn[v], D)
  <2>1. Apart(t, txn[v])
    BY <1>2, <1>6 DEF PairsApart
  <2>2. ASSUME Invoicing(txn[v]), NEW l \in DOMAIN txn[v].qty PROVE invoiced'[l] = invoiced[l]
    <3>1. txn[v] \in Poster
      BY <1>6, <2>2, PosterNow DEF Invoicing
    <3>2. l \in Lines /\ (t.type = "supplier_invoice" => l \notin DOMAIN t.qty)
      BY <2>1, <2>2, <3>1, PosterFields DEF Apart, Invoicing
    <3>3. QED
      BY <3>2
  <2>3. QED
    BY <1>2, <1>3, <2>1, <2>2 DEF Undisturbed, Apart
<1>7. \A v \in Workers : txn'[v] = Idle \/ (txn'[v] = txn[v] /\ (txn[v] # Idle => Undisturbed(txn[v], D)))
  BY <1>2, <1>6
<1>8. QED
  BY <1>2, <1>3, <1>4, <1>5, <1>7, StoredStep

InvoicedBy(t, l) == IF l \in DOMAIN t.qty THEN t.qty[l] ELSE 0

(* An invoice that is stored counts on the lines it is for.                *)
InvoiceStored(w, t) ==
    /\ t = txn[w] /\ t # Idle /\ t.pc = "store" /\ t.type = "supplier_invoice"
    /\ t \in Poster /\ PosterSound(t) /\ ~NumberEntered(t.number)
    /\ InvoiceEntry(t) \in Entry /\ StoresAs(w, t, InvoiceEntry(t)) /\ GoodsStay
    /\ invoiced' \in [Lines -> Nat] /\ Backstop(received, invoiced)'
    /\ \A l \in Lines : invoiced'[l] = invoiced[l] + InvoicedBy(t, l) /\ InvoicedBy(t, l) \in Nat

(* The entry of an invoice, ...                                            *)
LEMMA InvoiceEntryType ==
    ASSUME NEW t \in Poster
    PROVE  /\ InvoiceEntry(t) \in Entry /\ InvoiceEntry(t).key = t.key
           /\ InvoiceEntry(t).inventory = 0 /\ InvoiceEntry(t).grni = Worth(t.qty, Price)
           /\ InvoiceEntry(t).payable = -t.amount
<1>1. t.amount \in Nat /\ t.key \in Keys /\ Worth(t.qty, Price) \in Nat
  BY PosterFields, OrderWorthType
<1>2. PICK x, y : x = -t.amount /\ y = Worth(t.qty, Price)
  OBVIOUS
<1>3. InvoiceEntry(t) = [[key |-> t.key, inventory |-> 0, grni |-> 0, payable |-> 0]
                           EXCEPT !.grni = y, !.payable = x]
  BY <1>2 DEF InvoiceEntry, NewEntry
<1>4. x \in Int /\ y \in Int
  BY <1>1, <1>2
<1>5. InvoiceEntry(t) = [key |-> t.key, inventory |-> 0, grni |-> y, payable |-> x]
  BY <1>3
<1>6. InvoiceEntry(t) \in Entry
  BY <1>1, <1>4, <1>5 DEF Entry
<1>7. QED
  BY <1>2, <1>5, <1>6

(* ... and those of a debit note and a payment.                            *)
LEMMA SettlingEntryType ==
    ASSUME NEW t \in Poster, NEW e \in {NoteEntry(t), PaymentEntry(t)}
    PROVE  /\ e \in Entry /\ e.key = t.key
           /\ e.inventory = 0 /\ e.grni = 0 /\ e.payable = t.amount
<1>1. t.amount \in Nat /\ t.key \in Keys
  BY PosterFields
<1>2. e = [key |-> t.key, inventory |-> 0, grni |-> 0, payable |-> t.amount]
  BY DEF NoteEntry, PaymentEntry, NewEntry
<1>3. QED
  BY <1>1, <1>2 DEF Entry

(* An invoice is refused or stored.                                        *)
LEMMA StoreInvoiceStep ==
    ASSUME IInv, NEW w \in Workers, StoreInvoice(w)
    PROVE  IInv' /\ (Fail(w) \/ InvoiceStored(w, txn[w]))
<1>1. PICK t : t = txn[w]
  OBVIOUS
<1>2. t # Idle /\ t.pc = "store" /\ t.type = "supplier_invoice"
  BY <1>1 DEF StoreInvoice, Stores, At
<1>3. t \in Poster /\ PosterSound(t) /\ invoiced \in [Lines -> Nat]
  BY <1>1, <1>2, PosterNow DEF IInv, KindInv
<1>4. CASE Fail(w)
  BY <1>4, FailStep
<1>5. CASE ~Fail(w)
  <2>1. PICK inv : inv = [l \in Lines |-> IF l \in DOMAIN t.qty THEN invoiced[l] + t.qty[l] ELSE invoiced[l]]
    OBVIOUS
  <2>2. /\ StoresAs(w, t, InvoiceEntry(t)) /\ GoodsStay /\ ~NumberEntered(t.number)
        /\ invoiced' = inv /\ Backstop(received, inv)
    BY <1>1, <1>5, <2>1 DEF StoreInvoice, Store, StoresAs, GoodsStay
  <2>3. \A l \in Lines : inv[l] = invoiced[l] + InvoicedBy(t, l) /\ InvoicedBy(t, l) \in Nat
                         /\ inv[l] \in Nat
    BY <1>3, <2>1, PosterFields DEF InvoicedBy
  <2>4. invoiced' \in [Lines -> Nat]
    BY <2>1, <2>2, <2>3
  <2>5. Backstop(received, invoiced)'
    BY <2>2 DEF Backstop, GoodsStay
  <2>6. InvoiceStored(w, t)
    BY <1>1, <1>2, <1>3, <2>2, <2>3, <2>4, <2>5, InvoiceEntryType DEF InvoiceStored
  <2>7. IInv'
    <3>1. \A l \in Lines : invoiced'[l] = invoiced[l] \/ l \in DOMAIN t.qty
      BY <2>1, <2>2
    <3>2. QED
      BY <1>1, <1>2, <2>6, <3>1, SettleInv DEF InvoiceStored
  <2>8. QED
    BY <1>1, <2>6, <2>7
<1>6. QED
  BY <1>4, <1>5

(* A debit note or a payment that is stored.                               *)
SettlingStored(w, t, e) ==
    /\ t = txn[w] /\ t # Idle /\ t.pc = "store" /\ t.type \in Settling
    /\ t \in Poster /\ PosterSound(t)
    /\ e \in {NoteEntry(t), PaymentEntry(t)} /\ StoresAs(w, t, e)
    /\ GoodsStay /\ invoiced' = invoiced

(* It is always stored.                                                    *)
LEMMA StoreSettlingStep ==
    ASSUME IInv, NEW w \in Workers, StoreNote(w) \/ StorePayment(w)
    PROVE  IInv' /\ \E e : SettlingStored(w, txn[w], e)
<1>1. PICK t : t = txn[w]
  OBVIOUS
<1>2. t # Idle /\ t.pc = "store" /\ t.type \in Settling /\ GoodsStay /\ invoiced' = invoiced
  BY <1>1 DEF StoreNote, StorePayment, Stores, At, Settling, GoodsStay
<1>3. t.type # "purchase_order"
  BY <1>2 DEF Settling
<1>4. PICK e \in {NoteEntry(t), PaymentEntry(t)} : StoresAs(w, t, e)
  BY <1>1 DEF StoreNote, StorePayment, Store, StoresAs
<1>5. t \in Poster /\ PosterSound(t)
  BY <1>1, <1>2, <1>3, PosterNow
<1>6. SettlingStored(w, t, e)
  BY <1>1, <1>2, <1>4, <1>5 DEF SettlingStored
<1>7. e \in Entry
  BY <1>5, SettlingEntryType
<1>8. /\ invoiced' \in [Lines -> Nat] /\ Backstop(received, invoiced)'
      /\ \A l \in Lines : invoiced'[l] = invoiced[l]
  BY <1>2 DEF IInv, KindInv, Backstop, GoodsStay
<1>9. IInv'
  BY <1>1, <1>2, <1>3, <1>4, <1>7, <1>8, SettleInv
<1>10. QED
  BY <1>1, <1>6, <1>9

-----------------------------------------------------------------------------
(* A stock issue of another module *)

IssueDocument(n) ==
    [type |-> "stock_issue", qty |-> NoLines, amount |-> 0, of |-> 0, share |-> 0,
     number |-> NoRequest, entry |-> n]
IssueEntry(c) == [key |-> NoRequest, inventory |-> c, grni |-> 0, payable |-> 0]

Issued(D, c) ==
    /\ Appended(D) /\ D.type = "stock_issue" /\ D.qty = NoLines /\ D.amount = 0 /\ D.of = 0
    /\ D.share = 0 /\ D.entry \in DOMAIN entries'
    /\ entries' = Append(entries, IssueEntry(c)) /\ c \in Int /\ IssueEntry(c) \in Entry
    /\ stock' \in State /\ stock'.value = stock.value + c
    /\ UNCHANGED <<requests, orders, received, invoiced, txn>>

(* One unit leaves the row, while no receipt or return holds it.           *)
LEMMA IssueStep ==
    ASSUME IInv, IssueGoods
    PROVE  IInv' /\ \E D, c : Issued(D, c)
<1>1. KindInv /\ DocumentsInOrder /\ documents \in Seq(Document) /\ entries \in Seq(Entry)
      /\ stock \in State
  BY DEF IInv, KindInv
<1>2. PICK c : c = -IssuedValue(stock, 1)
  OBVIOUS
<1>3. /\ Taking = {} /\ CanIssue(stock, 1) /\ stock' = AfterIssue(stock, 1)
      /\ entries' = Append(entries, IssueEntry(c))
      /\ documents' = Append(documents, IssueDocument(Len(entries')))
      /\ UNCHANGED <<requests, orders, received, invoiced, txn>>
  BY <1>2 DEF IssueGoods, IssueEntry, IssueDocument
<1>4. /\ IssuedValue(stock, 1) \in Nat /\ stock' \in State
      /\ stock'.value = stock.value - IssuedValue(stock, 1)
  BY <1>1, <1>3, IssueType
<1>5. stock.value \in Nat
  BY <1>1 DEF State
<1>6. c \in Int /\ stock'.value = stock.value + c
  BY <1>2, <1>4, <1>5
<1>7. IssueEntry(c) \in Entry
  BY <1>6 DEF IssueEntry, Entry
<1>8. EntriesKept /\ Len(entries') \in Nat /\ Len(entries') \in DOMAIN entries'
  BY <1>1, <1>3, <1>7 DEF EntriesKept
<1>9. PICK D : D = IssueDocument(Len(entries'))
  OBVIOUS
<1>10. /\ D.type = "stock_issue" /\ D.qty = NoLines /\ D.amount = 0 /\ D.of = 0 /\ D.share = 0
       /\ D.entry = Len(entries')
  BY <1>9 DEF IssueDocument
<1>11. D \in Document
  BY <1>8, <1>9, NothingAsked DEF IssueDocument, Document, Types
<1>12. Appended(D)
  BY <1>1, <1>3, <1>9, <1>10, <1>11 DEF Appended, Follows, Settling
<1>13. Issued(D, c)
  BY <1>3, <1>4, <1>6, <1>7, <1>8, <1>10, <1>12 DEF Issued
<1>14. ASSUME NEW v \in Workers, txn[v] # Idle PROVE Undisturbed(txn[v], D)
  <2>1. ~Holding(txn[v])
    BY <1>3, <1>14 DEF Taking, Active, Holding
  <2>2. QED
    BY <1>3, <1>10, <2>1 DEF Undisturbed
<1>15. /\ orders' \in [Orders -> Order] /\ received' \in [Lines -> Nat] /\ invoiced' \in [Lines -> Nat]
       /\ txn' \in [Workers -> Buyer \cup Poster \cup {Idle}]
  BY <1>1, <1>3 DEF KindInv
<1>16. Backstop(received, invoiced)'
  BY <1>3 DEF IInv, Backstop
<1>17. \A o \in Orders : StatusFollows(o)' /\ orders'[o].from = orders[o].from
  BY <1>3 DEF IInv, StatusFollows
<1>18. \A v \in Workers : txn'[v] = Idle \/ (txn'[v] = txn[v] /\ (txn[v] # Idle => Undisturbed(txn[v], D)))
  BY <1>3, <1>14
<1>19. IInv'
  BY <1>3, <1>4, <1>8, <1>10, <1>12, <1>15, <1>16, <1>17, <1>18, StoredStep
<1>20. QED
  BY <1>13, <1>19

-----------------------------------------------------------------------------
(* The invariant *)

(* It holds at first.                                                      *)
LEMMA InitInv == Init => IInv
<1> SUFFICES ASSUME Init PROVE IInv
  OBVIOUS
<1>1. /\ requests = [r \in PurchaseRequests |-> "NONE"] /\ received = [l \in Lines |-> 0]
      /\ orders = [o \in Orders |-> [status |-> "NONE", approval |-> "NONE", from |-> NoRequest]]
      /\ invoiced = [l \in Lines |-> 0] /\ stock = OpeningStock /\ documents = << >>
      /\ entries = << >> /\ txn = [w \in Workers |-> Idle]
  BY DEF Init
<1>2. KindInv
  <2>1. orders \in [Orders -> Order] /\ requests \in [PurchaseRequests -> Statuses]
    BY <1>1 DEF Order, OrderStatus, Approvals, Requests0, Statuses
  <2>2. documents \in Seq(Document) /\ entries \in Seq(Entry)
    BY <1>1
  <2>3. QED
    BY <1>1, <2>1, <2>2, PurchasingAssumption DEF KindInv
<1>3. DocumentsInOrder /\ EntriesExist
  BY <1>1 DEF DocumentsInOrder, EntriesExist
<1>4. Backstop(received, invoiced)
  BY <1>1, PurchasingAssumption DEF Backstop
<1>5. ASSUME NEW o \in Orders PROVE StatusFollows(o)
  <2>1. PICK l \in LinesOf(o) : Ordered[l] # 0
    BY PurchasingAssumption DEF LinesOf
  <2>2. \A k \in LinesOf(o) : received[k] = 0
    BY <1>1 DEF LinesOf
  <2>3. orders[o] = [status |-> "NONE", approval |-> "NONE", from |-> NoRequest]
    BY <1>1
  <2>4. QED
    BY <2>1, <2>2, <2>3 DEF StatusFollows
<1>6. ASSUME NEW r \in PurchaseRequests PROVE RequestFollows(r)
  <2>1. r # NoRequest /\ requests[r] = "NONE"
    BY <1>1, PurchasingAssumption
  <2>2. QED
    BY <1>1, <2>1 DEF RequestFollows, MadeFrom
<1>7. QED
  BY <1>1, <1>2, <1>3, <1>4, <1>5, <1>6 DEF IInv

(* Nothing changes in a step that changes nothing.                         *)
LEMMA StutterInv == ASSUME IInv, UNCHANGED vars PROVE IInv'
<1>1. /\ UNCHANGED <<requests, orders, received, invoiced, stock, documents, entries, txn>>
      /\ UNCHANGED tables
  BY DEF vars, tables
<1>2. KindInv'
  BY <1>1 DEF IInv, KindInv
<1>3. (DocumentsInOrder /\ EntriesExist /\ Backstop(received, invoiced))'
  BY <1>1 DEF IInv, DocumentsInOrder, Follows, OfType, EntriesExist, Backstop
<1>4. (\A o \in Orders : StatusFollows(o))'
  BY <1>1 DEF IInv, StatusFollows
<1>5. (\A r \in PurchaseRequests : RequestFollows(r))'
  BY <1>1 DEF IInv, RequestFollows, MadeFrom
<1>6. ASSUME NEW v \in Workers, NEW s, s = txn'[v], s # Idle PROVE Sound(s)'
  <2>1. Sound(s)
    BY <1>1, <1>6 DEF IInv
  <2>2. QED
    BY <1>1, <2>1, KeptSound
<1>7. ASSUME NEW v \in Workers, NEW u \in Workers, v # u, txn'[v] # Idle, txn'[u] # Idle
      PROVE  Apart(txn'[v], txn'[u])
  BY <1>1, <1>7 DEF IInv
<1>8. QED
  BY <1>2, <1>3, <1>4, <1>5, <1>6, <1>7 DEF IInv, Apart, Locking, Holding, Invoicing

(* Every step keeps it.                                                    *)
LEMMA NextInv == IInv /\ [Next]_vars => IInv'
<1> SUFFICES ASSUME IInv, [Next]_vars PROVE IInv'
  OBVIOUS
<1>1. ASSUME NEW w \in Workers, NEW o \in Orders, NEW r \in PurchaseRequests \cup {NoRequest},
             SubmitOrder(w, o, r)
      PROVE  IInv'
  BY <1>1, SubmitOrderInv DEF Requests0
<1>2. ASSUME NEW w \in Workers, NEW s \in Submissions, Submit(w, s) PROVE IInv'
  BY <1>2, SubmitStep
<1>3. ASSUME NEW w \in Workers, Advance(w) PROVE IInv'
  <2>1. CASE LockRequest(w)
    BY <2>1, LockRequestInv
  <2>2. CASE PlaceOrder(w)
    BY <2>2, PlaceOrderInv
  <2>3. CASE LockOrder(w)
    BY <2>3, LockOrderStep
  <2>4. CASE TakeGoods(w)
    BY <2>4, TakeGoodsStep
  <2>5. CASE LockLines(w) \/ CheckNote(w)
    BY <2>5, CheckStep
  <2>6. CASE LockSupplier(w)
    BY <2>6, LockSupplierStep
  <2>7. CASE PostEntry(w)
    BY <2>7, PostEntryStep
  <2>8. CASE StoreReceipt(w) \/ StoreReturn(w)
    BY <2>8, StoreMoveInv
  <2>9. CASE RefuseMove(w)
    BY <2>9, FailStep DEF RefuseMove
  <2>10. CASE StoreInvoice(w)
    BY <2>10, StoreInvoiceStep
  <2>11. CASE StoreNote(w) \/ StorePayment(w)
    BY <2>11, StoreSettlingStep
  <2>12. QED
    BY <1>3, <2>1, <2>2, <2>3, <2>4, <2>5, <2>6, <2>7, <2>8, <2>9, <2>10, <2>11 DEF Advance
<1>4. ASSUME NEW w \in Workers, Rollback(w) PROVE IInv'
  BY <1>4, FailStep DEF Rollback
<1>5. ASSUME NEW r \in PurchaseRequests, CreateRequest(r) \/ Accept(r) \/ Reject(r) PROVE IInv'
  BY <1>5, RequestInv
<1>6. ASSUME NEW o \in Orders,
             Cancel(o) \/ \E decision \in {"APPROVED", "REJECTED"} : Decide(o, decision)
      PROVE  IInv'
  BY <1>6, DecideInv
<1>7. CASE IssueGoods
  BY <1>7, IssueStep
<1>8. CASE UNCHANGED vars
  BY <1>8, StutterInv
<1>9. QED
  BY <1>1, <1>2, <1>3, <1>4, <1>5, <1>6, <1>7, <1>8 DEF Next

(* It always holds.                                                        *)
LEMMA Invariance == Spec => []IInv
<1>1. Init => IInv
  BY InitInv
<1>2. IInv /\ [Next]_vars => IInv'
  BY NextInv
<1>3. QED
  BY <1>1, <1>2, PTL DEF Spec

-----------------------------------------------------------------------------
(* What the invariant gives *)

(* Every variable holds a value of its kind, the stock row never less than
   nothing.                                                                *)
THEOREM Types_of_purchasing == Spec => []TypeOK
<1>1. ASSUME IInv PROVE TypeOK
  <2>1. /\ requests \in [PurchaseRequests -> Statuses] /\ orders \in [Orders -> Order]
        /\ received \in [Lines -> Nat] /\ invoiced \in [Lines -> Nat] /\ stock \in State
        /\ documents \in Seq(Document) /\ DocumentsInOrder /\ EntriesExist
    BY <1>1 DEF IInv, KindInv
  <2>2. ASSUME NEW d \in DOMAIN documents
        PROVE  /\ documents[d].type \in Types /\ documents[d].amount \in Nat
               /\ documents[d].of \in 0 .. (d - 1) /\ documents[d].entry \in DOMAIN entries
    <3>1. documents[d] \in Document /\ d \in Nat \ {0}
      BY <2>1
    <3>2. documents[d].of \in Nat /\ documents[d].of < d
      <4>1. documents[d].of \in Nat
        BY <3>1 DEF Document
      <4>2. Follows(d, documents[d])
        BY <2>1 DEF DocumentsInOrder
      <4>3. QED
        BY <3>1, <4>1, <4>2 DEF Follows
    <3>3. documents[d].of \in 0 .. (d - 1)
      BY <3>1, <3>2
    <3>4. QED
      BY <2>1, <3>1, <3>3 DEF Document, EntriesExist
  <2>3. QED
    BY <2>1, <2>2 DEF TypeOK, Statuses, Order, Requests0
<1>2. QED
  BY <1>1, Invariance, PTL

(* What a receipt, an invoice or a new order checked holds until it commits,
   and the counters a receipt or a return computes from are those of the
   table: only a return can be refused by the CHECK of the database.       *)
THEOREM Locks_keep_what_was_checked == Spec => []LocksKeepWhatWasChecked
<1>1. ASSUME IInv PROVE LocksKeepWhatWasChecked
  <2>1. ASSUME NEW w \in Active
        PROVE  /\ txn[w].type \in Moves \cup {"supplier_invoice"} /\ txn[w].pc # "begin" => CheckedGoods(txn[w])
               /\ w \in Buying /\ At(w, "place") => Buyable(txn[w].request)
    <3>1. w \in Workers /\ txn[w] # Idle /\ Sound(txn[w])
      BY <1>1, <2>1 DEF Active, IInv
    <3>2. txn[w].type = "purchase_order" => txn[w].type \notin Moves \cup {"supplier_invoice"}
      BY DEF Moves
    <3>3. QED
      BY <3>1, <3>2 DEF Sound, BuyerSound, PosterSound, Buying, At
  <2>2. QED
    BY <2>1 DEF LocksKeepWhatWasChecked
<1>2. QED
  BY <1>1, Invariance, PTL

(* A purchase request is taken up by exactly one order once it is
   PROCESSED, and by none before.                                          *)
THEOREM One_order_per_request == Spec => []OneOrderPerRequest
<1>1. ASSUME IInv PROVE OneOrderPerRequest
  <2>1. ASSUME NEW r \in PurchaseRequests
        PROVE  Cardinality(MadeFrom(r)) = (IF requests[r] = "PROCESSED" THEN 1 ELSE 0)
    <3>1. RequestFollows(r)
      BY <1>1 DEF IInv
    <3>2. CASE requests[r] = "PROCESSED"
      <4>1. PICK o \in Orders : MadeFrom(r) = {o}
        BY <3>1, <3>2 DEF RequestFollows
      <4>2. Cardinality({o}) = 1
        BY FS_Singleton
      <4>3. QED
        BY <3>2, <4>1, <4>2
    <3>3. CASE requests[r] # "PROCESSED"
      BY <3>1, <3>3, FS_EmptySet DEF RequestFollows
    <3>4. QED
      BY <3>2, <3>3
  <2>2. QED
    BY <2>1 DEF OneOrderPerRequest, MadeFrom
<1>2. QED
  BY <1>1, Invariance, PTL

(* What no step but those on orders and requests may change.               *)
LEMMA DecisionsUntouched == ASSUME orders' = orders, requests' = requests PROVE DecisionsKept
  BY DEF DecisionsKept

(* A step keeps what was decided.                                          *)
LEMMA StepKeepsDecisions == ASSUME IInv, Next PROVE DecisionsKept
<1>1. ASSUME NEW w \in Workers, NEW o \in Orders, NEW r \in PurchaseRequests \cup {NoRequest},
             SubmitOrder(w, o, r)
      PROVE  DecisionsKept
  BY <1>1, DecisionsUntouched DEF SubmitOrder, tables
<1>2. ASSUME NEW w \in Workers, NEW s \in Submissions, Submit(w, s) PROVE DecisionsKept
  BY <1>2, DecisionsUntouched DEF Submit, tables
<1>3. ASSUME NEW w \in Workers, Advance(w) PROVE DecisionsKept
  <2>1. CASE LockRequest(w)
    BY <2>1, DecisionsUntouched DEF LockRequest, Proceed, Fail, tables
  <2>2. CASE PlaceOrder(w)
    <3>1. PICK t : t = txn[w]
      OBVIOUS
    <3>2. /\ t \in Buyer /\ orders[t.order].status = "NONE" /\ orders[t.order].approval = "NONE"
          /\ Buyable(t.request)
      BY <2>2, <3>1, PlaceOrderInv
    <3>3. /\ orders \in [Orders -> Order] /\ \A o \in Orders : o # t.order => orders'[o] = orders[o]
      BY <2>2, <3>1 DEF PlaceOrder, IInv, KindInv
    <3>4. \A r \in PurchaseRequests : r # t.request => requests'[r] = requests[r]
      BY <2>2, <3>1 DEF PlaceOrder
    <3>5. \A r \in PurchaseRequests : r = t.request => requests[r] = "ACCEPTED"
      BY <3>2, PurchasingAssumption DEF Buyable
    <3>6. QED
      BY <3>2, <3>3, <3>4, <3>5 DEF DecisionsKept
  <2>3. CASE LockOrder(w)
    BY <2>3, DecisionsUntouched DEF LockOrder, Fail, tables
  <2>4. CASE TakeGoods(w)
    BY <2>4, TakeGoodsStep, DecisionsUntouched DEF Goes, Fail, tables
  <2>5. CASE LockLines(w) \/ CheckNote(w) \/ LockSupplier(w)
    BY <2>5, DecisionsUntouched DEF LockLines, CheckNote, LockSupplier, Proceed, Fail, tables
  <2>6. CASE PostEntry(w)
    BY <2>6, DecisionsUntouched DEF PostEntry, Fail, tables
  <2>7. ASSUME NEW t, NEW e \in Entry, NEW s, MoveStored(w, t, e, s) PROVE DecisionsKept
    <3>1. /\ orders[t.order].status \in {"APPROVED", "PARTIALLY_RECEIVED", "RECEIVED"}
          /\ \A o \in Orders : o # t.order => orders'[o] = orders[o]
          /\ \A o \in Orders : orders'[o].approval = orders[o].approval
      BY <2>7, StatusMoves
    <3>2. requests' = requests
      BY <2>7 DEF MoveStored
    <3>3. QED
      BY <3>1, <3>2 DEF DecisionsKept
  <2>8. CASE StoreReceipt(w)
    BY <2>7, <2>8, ReceiptStored, ReceiptState
  <2>9. CASE StoreReturn(w)
    BY <2>7, <2>9, ReturnStored, ReturnState
  <2>10. CASE RefuseMove(w)
    BY <2>10, DecisionsUntouched DEF RefuseMove, Fail, tables
  <2>11. CASE StoreInvoice(w) \/ StoreNote(w) \/ StorePayment(w)
    BY <2>11, DecisionsUntouched DEF StoreInvoice, StoreNote, StorePayment, Fail, tables
  <2>12. QED
    BY <1>3, <2>1, <2>2, <2>3, <2>4, <2>5, <2>6, <2>8, <2>9, <2>10, <2>11 DEF Advance
<1>4. ASSUME NEW w \in Workers, Rollback(w) PROVE DecisionsKept
  BY <1>4, DecisionsUntouched DEF Rollback, Fail, tables
<1>5. ASSUME NEW r \in PurchaseRequests, CreateRequest(r) \/ Accept(r) \/ Reject(r) PROVE DecisionsKept
  BY <1>5 DEF CreateRequest, Accept, Reject, DecisionsKept, IInv, KindInv
<1>6. ASSUME NEW o \in Orders, Cancel(o) PROVE DecisionsKept
  BY <1>6 DEF Cancel, Undecided, DecisionsKept, IInv, KindInv, Order
<1>7. ASSUME NEW o \in Orders, NEW decision \in {"APPROVED", "REJECTED"}, Decide(o, decision)
      PROVE  DecisionsKept
  BY <1>7 DEF Decide, Undecided, DecisionsKept, IInv, KindInv, Order
<1>8. CASE IssueGoods
  BY <1>8, DecisionsUntouched DEF IssueGoods
<1>9. QED
  BY <1>1, <1>2, <1>3, <1>4, <1>5, <1>6, <1>7, <1>8 DEF Next

(* What was cancelled, rejected, decided or taken up stays so, whatever was
   under way at the time.                                                  *)
THEOREM Decisions_stand == Spec => DecisionsStand
<1>1. IInv /\ [Next]_vars => [DecisionsKept]_vars
  BY StepKeepsDecisions
<1>2. QED
  BY <1>1, Invariance, PTL DEF Spec, DecisionsStand

-----------------------------------------------------------------------------
(* The steps there are *)

(* A step that no document notices.                                        *)
Passes == GoodsKept /\ \A v \in Workers : txn'[v] \in {Idle, txn[v]} \cup Buyer

(* A step stores a document, carries one on, or passes unnoticed.          *)
StepCase ==
    \/ Passes
    \/ \E w \in Workers, s \in Submissions : \E m : Opens(w, s, m)
    \/ \E w \in Workers : \E m : Goes(w, m)
    \/ \E w \in Workers : StoreReceipt(w) \/ StoreReturn(w) \/ InvoiceStored(w, txn[w])
    \/ \E w \in Workers : \E e : SettlingStored(w, txn[w], e)
    \/ \E D, c : Issued(D, c)

(* What fails passes unnoticed.                                            *)
LEMMA FailPasses == ASSUME KindInv, NEW w \in Workers, Fail(w) PROVE Passes
<1>1. txn'[w] = Idle /\ \A v \in Workers : v # w => txn'[v] = txn[v]
  BY SetTxn DEF Fail
<1>2. QED
  BY <1>1 DEF Passes, GoodsKept, Fail, tables

(* There are no other steps.                                               *)
LEMMA StepCases == ASSUME IInv, [Next]_vars PROVE StepCase
<1>1. KindInv
  BY DEF IInv
<1>2. ASSUME NEW w \in Workers, NEW o \in Orders, NEW r \in PurchaseRequests \cup {NoRequest},
             SubmitOrder(w, o, r)
      PROVE  StepCase
  <2>1. PICK m : m = [pc |-> "begin", type |-> "purchase_order", order |-> o, request |-> r]
    OBVIOUS
  <2>2. Set(w, m) /\ GoodsKept
    BY <1>2, <2>1 DEF SubmitOrder, GoodsKept, tables
  <2>3. m \in Buyer
    BY <2>1 DEF Buyer, Requests0
  <2>4. txn'[w] = m /\ \A v \in Workers : v # w => txn'[v] = txn[v]
    BY <1>1, <2>2, SetTxn
  <2>5. Passes
    BY <2>2, <2>3, <2>4 DEF Passes
  <2>6. QED
    BY <2>5 DEF StepCase
<1>3. ASSUME NEW w \in Workers, NEW s \in Submissions, Submit(w, s) PROVE StepCase
  BY <1>3, SubmitStep DEF StepCase
<1>4. ASSUME NEW w \in Workers, Advance(w) PROVE StepCase
  <2>1. CASE LockRequest(w)
    <3>1. CASE Fail(w)
      BY <1>1, <3>1, FailPasses DEF StepCase
    <3>2. CASE ~Fail(w)
      <4>1. PICK m : m = [txn[w] EXCEPT !.pc = "place"]
        OBVIOUS
      <4>2. Set(w, m) /\ GoodsKept /\ txn[w] # Idle /\ txn[w].type = "purchase_order"
        BY <2>1, <3>2, <4>1 DEF LockRequest, Proceed, GoodsKept, tables, Buying, Active
      <4>3. txn[w] \in Buyer
        BY <1>1, <4>2, Opened
      <4>4. m \in Buyer
        BY <4>1, <4>3 DEF Buyer
      <4>5. txn'[w] = m /\ \A v \in Workers : v # w => txn'[v] = txn[v]
        BY <1>1, <4>2, SetTxn
      <4>6. Passes
        BY <4>2, <4>4, <4>5 DEF Passes
      <4>7. QED
        BY <4>6 DEF StepCase
    <3>3. QED
      BY <3>1, <3>2
  <2>2. CASE PlaceOrder(w)
    <3>1. Set(w, Idle) /\ GoodsKept
      BY <2>2 DEF PlaceOrder, GoodsKept
    <3>2. txn'[w] = Idle /\ \A v \in Workers : v # w => txn'[v] = txn[v]
      BY <1>1, <3>1, SetTxn
    <3>3. Passes
      BY <3>1, <3>2 DEF Passes
    <3>4. QED
      BY <3>3 DEF StepCase
  <2>3. ASSUME Fail(w) \/ \E m : Goes(w, m) PROVE StepCase
    BY <1>1, <2>3, FailPasses DEF StepCase
  <2>4. CASE LockOrder(w)
    BY <2>3, <2>4, LockOrderStep
  <2>5. CASE TakeGoods(w)
    BY <2>3, <2>5, TakeGoodsStep
  <2>6. CASE LockLines(w) \/ CheckNote(w)
    BY <2>3, <2>6, CheckStep
  <2>7. CASE LockSupplier(w)
    BY <2>3, <2>7, LockSupplierStep
  <2>8. CASE PostEntry(w)
    BY <2>3, <2>8, PostEntryStep
  <2>9. CASE StoreReceipt(w) \/ StoreReturn(w)
    BY <2>9 DEF StepCase
  <2>10. CASE RefuseMove(w)
    BY <2>3, <2>10 DEF RefuseMove
  <2>11. CASE StoreInvoice(w)
    <3>1. CASE Fail(w)
      BY <2>3, <3>1
    <3>2. CASE InvoiceStored(w, txn[w])
      BY <3>2 DEF StepCase
    <3>3. QED
      BY <2>11, <3>1, <3>2, StoreInvoiceStep
  <2>12. CASE StoreNote(w) \/ StorePayment(w)
    <3>1. \E e : SettlingStored(w, txn[w], e)
      BY <2>12, StoreSettlingStep
    <3>2. QED
      BY <3>1 DEF StepCase
  <2>13. QED
    BY <1>4, <2>1, <2>2, <2>4, <2>5, <2>6, <2>7, <2>8, <2>9, <2>10, <2>11, <2>12 DEF Advance
<1>5. ASSUME NEW w \in Workers, Rollback(w) PROVE StepCase
  BY <1>1, <1>5, FailPasses DEF Rollback, StepCase
<1>6. CASE \/ \E r \in PurchaseRequests : CreateRequest(r) \/ Accept(r) \/ Reject(r)
           \/ \E o \in Orders : Cancel(o) \/ \E decision \in {"APPROVED", "REJECTED"} : Decide(o, decision)
           \/ UNCHANGED vars
  <2>1. GoodsKept /\ txn' = txn
    BY <1>6 DEF CreateRequest, Accept, Reject, Cancel, Decide, GoodsKept, vars, tables
  <2>2. Passes
    BY <2>1 DEF Passes
  <2>3. QED
    BY <2>2 DEF StepCase
<1>7. CASE IssueGoods
  <2>1. \E D, c : Issued(D, c)
    BY <1>7, IssueStep
  <2>2. QED
    BY <2>1 DEF StepCase
<1>8. QED
  BY <1>2, <1>3, <1>4, <1>5, <1>6, <1>7 DEF Next

(* Documents that are not stored change nothing that documents count.      *)
LEMMA CarryOn ==
    ASSUME \/ Passes
           \/ \E w \in Workers, s \in Submissions : \E m : Opens(w, s, m)
           \/ \E w \in Workers : \E m : Goes(w, m)
    PROVE  GoodsKept
  BY DEF Passes, Opens, Goes, GoodsKept, tables

-----------------------------------------------------------------------------
(* What the documents say of a line *)

QuantityOf(D, type, l) == IF D.type = type /\ l \in DOMAIN D.qty THEN D.qty[l] ELSE 0
MovedIn(type, l) == {d \in OfType(type) : l \in DOMAIN documents[d].qty}

(* It is a number ...                                                      *)
LEMMA MovedType ==
    ASSUME documents \in Seq(Document), NEW type, NEW l
    PROVE  Moved(type, l) \in Nat
<1>1. MovedIn(type, l) \subseteq DOMAIN documents
  BY DEF MovedIn, OfType
<1>2. ASSUME NEW d \in MovedIn(type, l) PROVE documents[d].qty[l] \in Nat
  <2>1. documents[d].qty \in Quantities /\ l \in DOMAIN documents[d].qty
    BY <1>1, FinitelyMany DEF MovedIn
  <2>2. QED
    BY <2>1, QuantityType
<1>3. IsFiniteSet(MovedIn(type, l))
  BY <1>1, FinitelyMany
<1>4. SumFunction([d \in MovedIn(type, l) |-> documents[d].qty[l]]) \in Nat
  BY <1>2, <1>3, SumNat
<1>5. QED
  BY <1>4 DEF Moved, Total, MovedIn

(* ... to which a document adds what it says.                              *)
LEMMA MovedStep ==
    ASSUME NEW D, Appended(D), NEW type, NEW l
    PROVE  Moved(type, l)' = Moved(type, l) + QuantityOf(D, type, l)
<1> DEFINE n == Len(documents) + 1
           S == MovedIn(type, l)
           T == S'
           f == [d \in S |-> documents[d].qty[l]]
           g == [d \in T |-> documents'[d].qty[l]]
<1>1. T = {d \in OfType(type)' : l \in DOMAIN documents'[d].qty}
  BY DEF MovedIn
<1>2. /\ S \subseteq T /\ T \subseteq S \cup {n} /\ S \subseteq DOMAIN documents
      /\ n \in T <=> D.type = type /\ l \in DOMAIN D.qty
  BY <1>1, AppendedDocuments, AppendedTypes DEF MovedIn
<1>3. documents \in Seq(Document) /\ D.qty \in Quantities
  BY DEF Appended, Document
<1>4. ASSUME NEW d \in S PROVE documents[d].qty[l] \in Int
  <2>1. documents[d].qty \in Quantities /\ l \in DOMAIN documents[d].qty
    BY <1>2, <1>3, FinitelyMany DEF MovedIn
  <2>2. QED
    BY <2>1, QuantityType
<1>5. IsFiniteSet(S) /\ n \notin S /\ f \in [S -> Int]
  BY <1>2, <1>3, <1>4, FinitelyMany, AppendedDocuments
<1>6. n \in T => D.qty[l] \in Int
  BY <1>2, <1>3, QuantityType
<1>7. g \in [T -> Int] /\ (n \in T => g[n] = D.qty[l]) /\ \A d \in S : g[d] = f[d]
  BY <1>2, <1>4, <1>6, AppendedDocuments
<1>8. Moved(type, l) = SumFunction(f) /\ Moved(type, l)' = SumFunction(g)
  BY DEF Moved, Total, MovedIn
<1> HIDE DEF f, g, S, T, n
<1>9. SumFunction(g) = SumFunction(f) + (IF n \in T THEN g[n] ELSE 0)
  BY <1>2, <1>5, <1>7, SumExtend
<1>10. (IF n \in T THEN g[n] ELSE 0) = QuantityOf(D, type, l)
  <2>1. CASE n \in T
    BY <2>1, <1>2, <1>7 DEF QuantityOf
  <2>2. CASE n \notin T
    BY <2>2, <1>2 DEF QuantityOf
  <2>3. QED
    BY <2>1, <2>2
<1>11. QED
  BY <1>8, <1>9, <1>10

(* What a document adds to the counters of a line.                         *)
Receives(D, l) == QuantityOf(D, "goods_receipt", l) - QuantityOf(D, "goods_return", l)
InvoicesOf(D, l) == QuantityOf(D, "supplier_invoice", l)

(* The counters count on as the documents say.                             *)
LEMMA CountersStep ==
    ASSUME IInv, CountersTellTheDocuments, NEW D, Appended(D),
           \A l \in Lines : /\ received'[l] = received[l] + Receives(D, l)
                            /\ invoiced'[l] = invoiced[l] + InvoicesOf(D, l)
    PROVE  CountersTellTheDocuments'
<1>1. ASSUME NEW l \in Lines
      PROVE  /\ received'[l] = Moved("goods_receipt", l)' - Moved("goods_return", l)'
             /\ invoiced'[l] = Moved("supplier_invoice", l)'
  <2>1. /\ received[l] = Moved("goods_receipt", l) - Moved("goods_return", l)
        /\ invoiced[l] = Moved("supplier_invoice", l)
    BY DEF CountersTellTheDocuments
  <2>2. \A type : /\ Moved(type, l) \in Nat
                  /\ Moved(type, l)' = Moved(type, l) + QuantityOf(D, type, l)
    BY MovedType, MovedStep DEF Appended
  <2>3. \A type : QuantityOf(D, type, l) \in Nat
    <3>1. D.qty \in Quantities
      BY DEF Appended, Document
    <3>2. QED
      BY <3>1, QuantityType DEF QuantityOf
  <2>4. PICK a, b, c, x, y, z :
          /\ a = Moved("goods_receipt", l) /\ b = Moved("goods_return", l)
          /\ c = Moved("supplier_invoice", l) /\ x = QuantityOf(D, "goods_receipt", l)
          /\ y = QuantityOf(D, "goods_return", l) /\ z = QuantityOf(D, "supplier_invoice", l)
    OBVIOUS
  <2>5. a \in Nat /\ b \in Nat /\ c \in Nat /\ x \in Nat /\ y \in Nat /\ z \in Nat
    BY <2>2, <2>3, <2>4
  <2>6. received'[l] = (a - b) + (x - y) /\ invoiced'[l] = c + z
    BY <2>1, <2>4 DEF Receives, InvoicesOf
  <2>7. /\ Moved("goods_receipt", l)' = a + x /\ Moved("goods_return", l)' = b + y
        /\ Moved("supplier_invoice", l)' = c + z
    BY <2>2, <2>4
  <2>8. (a - b) + (x - y) = (a + x) - (b + y)
    BY <2>5
  <2>9. QED
    BY <2>6, <2>7, <2>8
<1>2. QED
  BY <1>1 DEF CountersTellTheDocuments

(* An operation's document changes the counters as it says.                *)
LEMMA MoveCounts ==
    ASSUME IInv, CountersTellTheDocuments, NEW w \in Workers, NEW t, NEW e \in Entry, NEW s,
           MoveStored(w, t, e, s)
    PROVE  CountersTellTheDocuments'
<1>1. PICK D : D = NewDocument(t)
  OBVIOUS
<1>2. /\ t = txn[w] /\ t # Idle /\ t.type # "purchase_order" /\ t.type \in Moves
      /\ StoresAs(w, t, e) /\ invoiced' = invoiced
  BY DEF MoveStored, Moves
<1>3. Appended(D) /\ D.type = t.type /\ D.qty = t.qty /\ t \in Poster
  BY <1>1, <1>2, StoreAppends
<1>4. invoiced \in [Lines -> Nat] /\ received \in [Lines -> Nat]
  BY DEF IInv, KindInv
<1>5. ASSUME NEW l \in Lines
      PROVE  /\ received'[l] = received[l] + Receives(D, l)
             /\ invoiced'[l] = invoiced[l] + InvoicesOf(D, l)
  <2>1. received'[l] = received[l] + MovedBy(t, l)
    BY CountersMove
  <2>2. l \in DOMAIN t.qty => t.qty[l] \in Nat
    BY <1>3, PosterFields
  <2>3. Receives(D, l) = MovedBy(t, l)
    BY <1>2, <1>3, <2>2 DEF Receives, QuantityOf, MovedBy, Moves
  <2>4. InvoicesOf(D, l) = 0
    BY <1>2, <1>3 DEF InvoicesOf, QuantityOf, Moves
  <2>5. QED
    BY <1>2, <1>4, <2>1, <2>3, <2>4
<1>6. QED
  BY <1>3, <1>5, CountersStep

(* So does an invoice, ...                                                 *)
LEMMA InvoiceCounts ==
    ASSUME IInv, CountersTellTheDocuments, NEW w \in Workers, InvoiceStored(w, txn[w])
    PROVE  CountersTellTheDocuments'
<1>1. PICK t : t = txn[w]
  OBVIOUS
<1>2. PICK D : D = NewDocument(t)
  OBVIOUS
<1>3. /\ t # Idle /\ t.type = "supplier_invoice" /\ InvoiceEntry(t) \in Entry
      /\ StoresAs(w, t, InvoiceEntry(t)) /\ received' = received
      /\ \A l \in Lines : invoiced'[l] = invoiced[l] + InvoicedBy(t, l)
  BY <1>1 DEF InvoiceStored, GoodsStay
<1>4. Appended(D) /\ D.type = t.type /\ D.qty = t.qty
  BY <1>1, <1>2, <1>3, StoreAppends
<1>5. received \in [Lines -> Nat]
  BY DEF IInv, KindInv
<1>6. ASSUME NEW l \in Lines
      PROVE  /\ received'[l] = received[l] + Receives(D, l)
             /\ invoiced'[l] = invoiced[l] + InvoicesOf(D, l)
  <2>1. Receives(D, l) = 0
    BY <1>3, <1>4 DEF Receives, QuantityOf
  <2>2. InvoicesOf(D, l) = InvoicedBy(t, l)
    BY <1>3, <1>4 DEF InvoicesOf, QuantityOf, InvoicedBy
  <2>3. QED
    BY <1>3, <1>5, <2>1, <2>2
<1>7. QED
  BY <1>4, <1>6, CountersStep

(* ... and the others do not mention lines that are counted.               *)
LEMMA OthersCount ==
    ASSUME IInv, CountersTellTheDocuments, NEW D, Appended(D), received' = received, invoiced' = invoiced,
           D.type \notin Moves \cup {"supplier_invoice"}
    PROVE  CountersTellTheDocuments'
<1>1. received \in [Lines -> Nat] /\ invoiced \in [Lines -> Nat]
  BY DEF IInv, KindInv
<1>2. \A l \in Lines : Receives(D, l) = 0 /\ InvoicesOf(D, l) = 0
  BY DEF Receives, InvoicesOf, QuantityOf, Moves
<1>3. \A l \in Lines : /\ received'[l] = received[l] + Receives(D, l)
                       /\ invoiced'[l] = invoiced[l] + InvoicesOf(D, l)
  BY <1>1, <1>2
<1>4. QED
  BY <1>3, CountersStep

(* Every step leaves the counters telling the documents.                   *)
LEMMA NextCounters == ASSUME IInv, CountersTellTheDocuments, [Next]_vars PROVE CountersTellTheDocuments'
<1>1. CASE GoodsKept
  <2>1. received' = received /\ invoiced' = invoiced /\ documents' = documents
    BY <1>1 DEF GoodsKept
  <2>2. \A type, l : Moved(type, l)' = Moved(type, l)
    BY <2>1 DEF Moved, Total, OfType
  <2>3. QED
    BY <2>1, <2>2 DEF CountersTellTheDocuments
<1>2. ASSUME NEW w \in Workers, StoreReceipt(w) \/ StoreReturn(w) PROVE CountersTellTheDocuments'
  <2>1. CASE StoreReceipt(w)
    BY <2>1, ReceiptStored, ReceiptState, MoveCounts
  <2>2. CASE StoreReturn(w)
    BY <2>2, ReturnStored, ReturnState, MoveCounts
  <2>3. QED
    BY <1>2, <2>1, <2>2
<1>3. ASSUME NEW w \in Workers, InvoiceStored(w, txn[w]) PROVE CountersTellTheDocuments'
  BY <1>3, InvoiceCounts
<1>4. ASSUME NEW w \in Workers, NEW e, SettlingStored(w, txn[w], e) PROVE CountersTellTheDocuments'
  <2>1. PICK t : t = txn[w]
    OBVIOUS
  <2>2. /\ t # Idle /\ t.type \in Settling /\ t.type # "purchase_order" /\ t \in Poster
        /\ e \in {NoteEntry(t), PaymentEntry(t)} /\ StoresAs(w, t, e)
        /\ received' = received /\ invoiced' = invoiced
    BY <1>4, <2>1 DEF SettlingStored, Settling, GoodsStay
  <2>3. e \in Entry
    BY <2>2, SettlingEntryType
  <2>4. PICK D : D = NewDocument(t)
    OBVIOUS
  <2>5. Appended(D) /\ D.type = t.type
    BY <2>1, <2>2, <2>3, <2>4, StoreAppends
  <2>6. D.type \notin Moves \cup {"supplier_invoice"}
    BY <2>2, <2>5 DEF Settling, Moves
  <2>7. QED
    BY <2>2, <2>5, <2>6, OthersCount
<1>5. ASSUME NEW D, NEW c, Issued(D, c) PROVE CountersTellTheDocuments'
  <2>1. /\ Appended(D) /\ received' = received /\ invoiced' = invoiced
        /\ D.type \notin Moves \cup {"supplier_invoice"}
    BY <1>5 DEF Issued, Moves
  <2>2. QED
    BY <2>1, OthersCount
<1>6. StepCase
  BY StepCases
<1>7. QED
  BY <1>1, <1>2, <1>3, <1>4, <1>5, <1>6, CarryOn DEF StepCase

(* The counters of an order line are what its documents add up to, the
   status of an order is what its counters say, and its approval is what
   its status says.                                                        *)
THEOREM Orders_tell_their_progress == Spec => []OrdersTellTheirProgress
<1>1. Init => CountersTellTheDocuments
  <2> SUFFICES ASSUME Init PROVE CountersTellTheDocuments
    OBVIOUS
  <2>1. documents = << >> /\ received = [l \in Lines |-> 0] /\ invoiced = [l \in Lines |-> 0]
    BY DEF Init
  <2>2. ASSUME NEW type, NEW l PROVE Moved(type, l) = 0
    <3>1. MovedIn(type, l) = {}
      BY <2>1 DEF MovedIn, OfType
    <3>2. SumFunction([d \in MovedIn(type, l) |-> documents[d].qty[l]]) = 0
      BY <3>1, SumEmpty
    <3>3. QED
      BY <3>2 DEF Moved, Total, MovedIn
  <2>3. QED
    BY <2>1, <2>2 DEF CountersTellTheDocuments
<1>2. IInv /\ CountersTellTheDocuments /\ [Next]_vars => CountersTellTheDocuments'
  BY NextCounters
<1>3. IInv /\ CountersTellTheDocuments => OrdersTellTheirProgress
  BY DEF IInv, StatusFollows, OrdersTellTheirProgress
<1>4. QED
  BY <1>1, <1>2, <1>3, Invariance, PTL DEF Spec

-----------------------------------------------------------------------------
(* Nothing is paid twice *)

(* Nothing is noted or settled of what is not there.                       *)
LEMMA NothingAhead ==
    ASSUME documents \in Seq(Document), DocumentsInOrder, NEW i, i \notin DOMAIN documents, i # 0
    PROVE  Noted(i) = 0 /\ Settled(i) = 0
<1>1. ASSUME NEW d \in DOMAIN documents PROVE documents[d].of # i
  BY DEF DocumentsInOrder, Follows, OfType
<1>2. NotesOf(i) = {} /\ PaymentsOf(i) = {}
  BY <1>1 DEF NotesOf, PaymentsOf, OfType
<1>3. QED
  BY <1>2, SumEmpty DEF Noted, Settled, Total

(* A new payment takes no more than what was left.                         *)
LEMMA PaidStep ==
    ASSUME IInv, PaidAtMostOnce, NEW D, Appended(D),
           D.type = "supplier_payment" => Settled(D.of) + D.share <= Amount(D.of)
    PROVE  PaidAtMostOnce'
<1>1. documents \in Seq(Document) /\ DocumentsInOrder /\ D \in Document
  BY DEF Appended
<1>2. PICK n : n = Len(documents) + 1
  OBVIOUS
<1>3. D.amount \in Nat /\ D.share \in Nat
  BY <1>1 DEF Document
<1>4. ASSUME NEW i \in OfType("supplier_invoice") PROVE Settled(i)' <= Amount(i)'
  <2>1. i \in DOMAIN documents /\ Settled(i) <= Amount(i) /\ Settled(i) \in Nat
    BY <1>1, SettledType DEF OfType, PaidAtMostOnce
  <2>2. Amount(i)' = Amount(i)
    BY <2>1, AppendedDocuments DEF Amount
  <2>3. Settled(i)' = Settled(i) + ShareOf(D, i)
    BY SettledStep
  <2>4. CASE D.type = "supplier_payment" /\ D.of = i
    <3>1. ShareOf(D, i) = D.share
      BY <2>4 DEF ShareOf
    <3>2. QED
      BY <2>2, <2>3, <2>4, <3>1
  <2>5. CASE ~(D.type = "supplier_payment" /\ D.of = i)
    <3>1. ShareOf(D, i) = 0
      BY <2>5 DEF ShareOf
    <3>2. QED
      BY <2>1, <2>2, <2>3, <3>1
  <2>6. QED
    BY <2>4, <2>5
<1>5. ASSUME D.type = "supplier_invoice" PROVE Settled(n)' <= Amount(n)'
  <2>1. n \notin DOMAIN documents /\ n # 0
    BY <1>2, AppendedDocuments
  <2>2. Settled(n) = 0 /\ ShareOf(D, n) = 0
    BY <1>1, <1>5, <2>1, NothingAhead DEF ShareOf
  <2>3. Settled(n)' = 0
    <3>1. Settled(n)' = Settled(n) + ShareOf(D, n)
      BY SettledStep
    <3>2. QED
      BY <2>2, <3>1
  <2>4. Amount(n)' = D.amount
    BY <1>2, AppendedDocuments DEF Amount
  <2>5. QED
    BY <1>3, <2>3, <2>4
<1>6. ASSUME NEW i \in OfType("supplier_invoice")' PROVE Settled(i)' <= Amount(i)'
  <2>1. i \in OfType("supplier_invoice") \/ (i = n /\ D.type = "supplier_invoice")
    BY <1>2, AppendedTypes
  <2>2. QED
    BY <1>4, <1>5, <2>1
<1>7. QED
  BY <1>6 DEF PaidAtMostOnce

(* Every stored document, with what it settles.                            *)
LEMMA StoredDocuments ==
    ASSUME IInv, [Next]_vars
    PROVE  \/ GoodsKept
           \/ \E D : Appended(D) /\ (D.type = "supplier_payment" =>
                                       Settled(D.of) + D.share <= Amount(D.of))
<1> DEFINE Goal == \/ GoodsKept
                   \/ \E D : Appended(D) /\ (D.type = "supplier_payment" =>
                                               Settled(D.of) + D.share <= Amount(D.of))
<1>1. ASSUME NEW w \in Workers, NEW t, t = txn[w], t # Idle, t.type # "purchase_order", t.pc = "store",
             NEW e \in Entry, StoresAs(w, t, e)
      PROVE  Goal
  <2>1. PICK D : D = NewDocument(t)
    OBVIOUS
  <2>2. /\ Appended(D) /\ D.type = t.type /\ D.of = t.of /\ D.share = t.share /\ PosterSound(t)
    BY <1>1, <2>1, StoreAppends
  <2>3. D.type = "supplier_payment" => Settled(D.of) + D.share <= Amount(D.of)
    BY <1>1, <2>2 DEF PosterSound
  <2>4. QED
    BY <2>2, <2>3
<1>2. ASSUME NEW w \in Workers, StoreReceipt(w) \/ StoreReturn(w) PROVE Goal
  <2>1. PICK e \in Entry : \E s : MoveStored(w, txn[w], e, s)
    BY <1>2, ReceiptStored, ReceiptState, ReturnStored, ReturnState
  <2>2. /\ txn[w] # Idle /\ txn[w].type # "purchase_order" /\ txn[w].pc = "store"
        /\ StoresAs(w, txn[w], e)
    BY <2>1 DEF MoveStored, Moves
  <2>3. QED
    BY <1>1, <2>2
<1>3. ASSUME NEW w \in Workers, InvoiceStored(w, txn[w]) PROVE Goal
  BY <1>1, <1>3 DEF InvoiceStored
<1>4. ASSUME NEW w \in Workers, NEW e, SettlingStored(w, txn[w], e) PROVE Goal
  <2>1. e \in Entry
    BY <1>4, SettlingEntryType DEF SettlingStored
  <2>2. QED
    BY <1>1, <1>4, <2>1 DEF SettlingStored, Settling
<1>5. ASSUME NEW D, NEW c, Issued(D, c) PROVE Goal
  BY <1>5 DEF Issued
<1>6. StepCase
  BY StepCases
<1>7. QED
  BY <1>2, <1>3, <1>4, <1>5, <1>6, CarryOn DEF StepCase

(* However many pay an invoice at once, no more of it is settled than it
   asks for.                                                               *)
THEOREM Invoices_are_paid_once == Spec => []PaidAtMostOnce
<1>1. Init => PaidAtMostOnce
  BY DEF Init, PaidAtMostOnce, OfType
<1>2. ASSUME IInv, PaidAtMostOnce, [Next]_vars PROVE PaidAtMostOnce'
  <2>1. CASE GoodsKept
    <3>1. documents' = documents
      BY <2>1 DEF GoodsKept
    <3>2. \A i : Settled(i)' = Settled(i) /\ Amount(i)' = Amount(i)
      BY <3>1 DEF Settled, Total, PaymentsOf, OfType, Amount
    <3>3. QED
      BY <1>2, <3>1, <3>2 DEF PaidAtMostOnce, OfType
  <2>2. QED
    BY <1>2, <2>1, StoredDocuments, PaidStep
<1>3. QED
  BY <1>1, <1>2, Invariance, PTL DEF Spec

-----------------------------------------------------------------------------
(* Keys that are sent again *)

(* A client sends again only what it sent before: a receipt or a return, or
   an invoice with its number.                                             *)
SafeRetries ==
    \A s, q \in Submissions :
      s.key \in RetriedKeys /\ q.key = s.key =>
        /\ s.type = q.type /\ s.type \in Moves \cup {"supplier_invoice"}
        /\ s.type = "supplier_invoice" => s.number = q.number

Posts(w) == txn[w] # Idle /\ txn[w].type # "purchase_order"
Sent(key, type, number) ==
    \E s \in Submissions : /\ s.key = key /\ s.type = type
                           /\ type = "supplier_invoice" => s.number = number
EntryKnown(e) ==
    \E d \in DOMAIN documents :
      documents[d].entry = e /\ Sent(entries[e].key, documents[d].type, documents[d].number)

(* An entry has a document that was sent with its key, and a key that is not
   sent again is that of one transaction, before anything is posted.       *)
KeysSound ==
    /\ \A e \in DOMAIN entries : entries[e].key # NoRequest => EntryKnown(e)
    /\ \A w \in Workers : Posts(w) => Sent(txn[w].key, txn[w].type, txn[w].number)
    /\ \A w \in Workers : Posts(w) /\ txn[w].key \notin RetriedKeys =>
         /\ Posted(txn[w].key) = {}
         /\ \A v \in Workers : v # w /\ Posts(v) => txn[v].key # txn[w].key

(* Steps that write no table keep them so, ...                             *)
LEMMA QuietKeys ==
    ASSUME KeysSound, documents' = documents, entries' = entries,
           \A v \in Workers : Posts(v)' => Sent(txn'[v].key, txn'[v].type, txn'[v].number),
           \A v \in Workers : Posts(v)' /\ txn'[v].key \notin RetriedKeys =>
             /\ Posted(txn'[v].key) = {}
             /\ \A u \in Workers : u # v /\ Posts(u)' => txn'[u].key # txn'[v].key
    PROVE  KeysSound'
<1>1. \A e \in DOMAIN entries' : entries'[e].key # NoRequest => EntryKnown(e)'
  BY DEF KeysSound, EntryKnown
<1>2. ASSUME NEW v \in Workers, NEW k, k = txn'[v].key PROVE Posted(k)' = Posted(k)
  BY DEF Posted
<1>3. \A v \in Workers : Posted(txn[v].key)' = Posted(txn'[v].key)
  BY <1>2 DEF Posted
<1>4. QED
  BY <1>1, <1>3 DEF KeysSound

(* ... so does the next transaction ...                                    *)
LEMMA OpensKeys ==
    ASSUME KindInv, KeysSound, NEW w \in Workers, NEW s \in Submissions, NEW m, Opens(w, s, m)
    PROVE  KeysSound'
<1>1. /\ MaySend(s.key) /\ m \in Poster /\ m.type = s.type /\ m.key = s.key
      /\ s.type = "supplier_invoice" => m.number = s.number
  BY DEF Opens
<1>2. documents' = documents /\ entries' = entries
  BY DEF Opens, tables
<1>3. txn'[w] = m /\ \A v \in Workers : v # w => txn'[v] = txn[v]
  BY SetTxn DEF Opens
<1>4. \A v \in Workers : v # w => (Posts(v)' <=> Posts(v))
  BY <1>3 DEF Posts
<1>5. Sent(m.key, m.type, m.number)
  BY <1>1 DEF Sent
<1>6. \A v \in Workers : Posts(v)' => Sent(txn'[v].key, txn'[v].type, txn'[v].number)
  BY <1>3, <1>4, <1>5 DEF KeysSound
<1>7. m.key \notin RetriedKeys =>
        Posted(m.key) = {} /\ \A v \in Workers : Posts(v) => txn[v].key # m.key
  BY <1>1 DEF MaySend, Active, Buying, Posts
<1>8. m.key \in RetriedKeys =>
        \A v \in Workers : txn[v].key \notin RetriedKeys => txn[v].key # m.key
  OBVIOUS
<1>9. ASSUME NEW v \in Workers, Posts(v)', txn'[v].key \notin RetriedKeys
      PROVE  /\ Posted(txn'[v].key) = {}
             /\ \A u \in Workers : u # v /\ Posts(u)' => txn'[u].key # txn'[v].key
  <2>1. CASE v = w
    BY <1>3, <1>4, <1>7, <1>9, <2>1
  <2>2. CASE v # w
    <3>1. /\ Posts(v) /\ txn'[v] = txn[v] /\ Posted(txn[v].key) = {}
          /\ \A u \in Workers : u # v /\ Posts(u) => txn[u].key # txn[v].key
      BY <1>3, <1>4, <1>9, <2>2 DEF KeysSound
    <3>2. txn[v].key # m.key
      BY <1>7, <1>9, <3>1
    <3>3. QED
      BY <1>3, <1>4, <3>1, <3>2
  <2>3. QED
    BY <2>1, <2>2
<1>10. QED
  BY <1>2, <1>6, <1>9, QuietKeys

(* ... and whatever goes on or ends.                                       *)
LEMMA GoesKeys ==
    ASSUME KeysSound, documents' = documents, entries' = entries,
           \A v \in Workers : Posts(v)' =>
             /\ Posts(v) /\ txn'[v].key = txn[v].key
             /\ txn'[v].type = txn[v].type /\ txn'[v].number = txn[v].number
    PROVE  KeysSound'
<1>1. \A v \in Workers : Posts(v)' => Sent(txn'[v].key, txn'[v].type, txn'[v].number)
  BY DEF KeysSound
<1>2. \A v \in Workers : Posts(v)' /\ txn'[v].key \notin RetriedKeys =>
        /\ Posted(txn'[v].key) = {}
        /\ \A u \in Workers : u # v /\ Posts(u)' => txn'[u].key # txn'[v].key
  BY DEF KeysSound
<1>3. QED
  BY <1>1, <1>2, QuietKeys

(* What is stored has the key its transaction was sent with.               *)
LEMMA StoresKeys ==
    ASSUME IInv, KeysSound, NEW w \in Workers, NEW t, t = txn[w], t # Idle, t.type # "purchase_order",
           NEW e \in Entry, e.key = t.key, StoresAs(w, t, e)
    PROVE  KeysSound'
<1>1. PICK D : D = NewDocument(t)
  OBVIOUS
<1>2. /\ t \in Poster /\ Appended(D) /\ EntriesKept /\ D.type = t.type /\ D.number = t.number
      /\ txn'[w] = Idle /\ \A v \in Workers : v # w => txn'[v] = txn[v]
  BY <1>1, StoreAppends
<1>3. Posts(w) /\ Sent(t.key, t.type, t.number) /\ entries \in Seq(Entry)
  BY DEF Posts, KeysSound, IInv, KindInv
<1>4. \A v \in Workers : Posts(v)' => v # w /\ Posts(v) /\ txn'[v] = txn[v]
  BY <1>2 DEF Posts
<1>5. \A x \in DOMAIN entries' :
        \/ x \in DOMAIN entries /\ entries'[x] = entries[x]
        \/ t.entry = 0 /\ x = Len(entries) + 1 /\ entries'[x] = e
  BY <1>3 DEF StoresAs
<1>6. ASSUME NEW x \in DOMAIN entries', entries'[x].key # NoRequest PROVE EntryKnown(x)'
  <2>1. CASE x \in DOMAIN entries /\ entries'[x] = entries[x]
    <3>1. EntryKnown(x)
      BY <1>6, <2>1 DEF KeysSound
    <3>2. QED
      BY <1>2, <2>1, <3>1, AppendedDocuments DEF EntryKnown
  <2>2. CASE t.entry = 0 /\ x = Len(entries) + 1 /\ entries'[x] = e
    <3>1. PICK n : n = Len(documents) + 1
      OBVIOUS
    <3>2. n \in DOMAIN documents' /\ documents'[n] = D
      BY <1>2, <3>1, AppendedDocuments
    <3>3. D.entry = x
      BY <1>1, <2>2 DEF NewDocument
    <3>4. Sent(entries'[x].key, documents'[n].type, documents'[n].number)
      BY <1>2, <1>3, <2>2, <3>2
    <3>5. QED
      BY <3>2, <3>3, <3>4 DEF EntryKnown
  <2>3. QED
    BY <1>5, <2>1, <2>2
<1>7. ASSUME NEW v \in Workers, Posts(v)', txn'[v].key \notin RetriedKeys, NEW k, k = txn'[v].key
      PROVE  /\ Posted(k)' = {}
             /\ \A u \in Workers : u # v /\ Posts(u)' => txn'[u].key # k
  <2>1. /\ Posted(k) = {} /\ t.key # k
        /\ \A u \in Workers : u # v /\ Posts(u) => txn[u].key # k
    BY <1>3, <1>4, <1>7 DEF KeysSound
  <2>2. Posted(k)' = {}
    BY <1>5, <2>1 DEF Posted
  <2>3. QED
    BY <1>4, <2>1, <2>2
<1>8. \A v \in Workers : Posts(v)' => Sent(txn'[v].key, txn'[v].type, txn'[v].number)
  BY <1>4 DEF KeysSound
<1>9. ASSUME NEW v \in Workers, Posts(v)', txn'[v].key \notin RetriedKeys
      PROVE  Posted(txn[v].key)' = {}
  <2>1. PICK k : k = txn'[v].key
    OBVIOUS
  <2>2. Posted(k)' = {}
    BY <1>7, <1>9, <2>1
  <2>3. QED
    BY <2>1, <2>2 DEF Posted
<1>10. QED
  BY <1>6, <1>7, <1>8, <1>9 DEF KeysSound

(* A stock issue has no key.                                               *)
LEMMA IssueKeys ==
    ASSUME IInv, KeysSound, NEW D, NEW c, Issued(D, c)
    PROVE  KeysSound'
<1>1. /\ Appended(D) /\ entries' = Append(entries, IssueEntry(c)) /\ txn' = txn
      /\ entries \in Seq(Entry) /\ KindInv
  BY DEF Issued, IInv, KindInv
<1>2. \A x \in DOMAIN entries' :
        \/ x \in DOMAIN entries /\ entries'[x] = entries[x]
        \/ entries'[x].key = NoRequest
  BY <1>1 DEF IssueEntry
<1>3. ASSUME NEW x \in DOMAIN entries', entries'[x].key # NoRequest PROVE EntryKnown(x)'
  <2>1. x \in DOMAIN entries /\ entries'[x] = entries[x] /\ EntryKnown(x)
    BY <1>2, <1>3 DEF KeysSound
  <2>2. QED
    BY <1>1, <2>1, AppendedDocuments DEF EntryKnown
<1>4. \A v \in Workers : Posts(v)' <=> Posts(v)
  BY <1>1 DEF Posts
<1>5. ASSUME NEW v \in Workers, Posts(v), txn[v].key \notin RetriedKeys
      PROVE  Posted(txn[v].key)' = {}
  <2>1. txn[v].key # NoRequest
    <3>1. txn[v].key \in Keys
      BY <1>1, <1>5, Opened, PosterFields DEF Posts
    <3>2. QED
      BY <3>1, PurchasingAssumption
  <2>2. Posted(txn[v].key) = {}
    BY <1>5 DEF KeysSound
  <2>3. QED
    BY <1>1, <1>2, <2>1, <2>2 DEF Posted
<1>6. QED
  BY <1>1, <1>3, <1>4, <1>5 DEF KeysSound

(* Every step keeps them.                                                  *)
LEMMA NextKeys == ASSUME IInv, KeysSound, [Next]_vars PROVE KeysSound'
<1>1. KindInv
  BY DEF IInv
<1>2. CASE Passes
  <2>1. documents' = documents /\ entries' = entries
    BY <1>2 DEF Passes, GoodsKept
  <2>2. ASSUME NEW v \in Workers, Posts(v)' PROVE Posts(v) /\ txn'[v] = txn[v]
    <3>1. txn'[v] # Idle /\ txn'[v] \notin Buyer
      BY <2>2, BuyerFields DEF Posts
    <3>2. txn'[v] = txn[v]
      BY <1>2, <3>1 DEF Passes
    <3>3. QED
      BY <2>2, <3>2 DEF Posts
  <2>3. QED
    BY <2>1, <2>2, GoesKeys
<1>3. ASSUME NEW w \in Workers, NEW s \in Submissions, NEW m, Opens(w, s, m) PROVE KeysSound'
  BY <1>1, <1>3, OpensKeys
<1>4. ASSUME NEW w \in Workers, NEW m, Goes(w, m) PROVE KeysSound'
  <2>1. documents' = documents /\ entries' = entries /\ Posts(w)
    BY <1>4, PosterFields DEF Goes, tables, Posts
  <2>2. txn'[w] = m /\ \A v \in Workers : v # w => txn'[v] = txn[v]
    BY <1>1, <1>4, SetTxn DEF Goes
  <2>3. m.key = txn[w].key /\ m.type = txn[w].type /\ m.number = txn[w].number
    BY <1>4 DEF Goes, Same
  <2>4. ASSUME NEW v \in Workers, Posts(v)'
        PROVE  /\ Posts(v) /\ txn'[v].key = txn[v].key
               /\ txn'[v].type = txn[v].type /\ txn'[v].number = txn[v].number
    BY <2>1, <2>2, <2>3, <2>4 DEF Posts
  <2>5. QED
    BY <2>1, <2>4, GoesKeys
<1>5. ASSUME NEW w \in Workers, StoreReceipt(w) \/ StoreReturn(w) PROVE KeysSound'
  <2>1. PICK e \in {ReceiptEntry(txn[w]), ReturnEntry(txn[w])} :
          e \in Entry /\ \E s : MoveStored(w, txn[w], e, s)
    BY <1>5, ReceiptStored, ReceiptState, ReturnStored, ReturnState
  <2>2. /\ txn[w] # Idle /\ txn[w].type # "purchase_order" /\ StoresAs(w, txn[w], e)
        /\ e.key = txn[w].key
    BY <2>1 DEF MoveStored, Moves, ReceiptEntry, ReturnEntry, NewEntry
  <2>3. QED
    BY <2>1, <2>2, StoresKeys
<1>6. ASSUME NEW w \in Workers, InvoiceStored(w, txn[w]) PROVE KeysSound'
  BY <1>6, StoresKeys, InvoiceEntryType DEF InvoiceStored
<1>7. ASSUME NEW w \in Workers, NEW e, SettlingStored(w, txn[w], e) PROVE KeysSound'
  <2>1. /\ txn[w] # Idle /\ txn[w].type # "purchase_order" /\ StoresAs(w, txn[w], e)
        /\ txn[w] \in Poster /\ e \in {NoteEntry(txn[w]), PaymentEntry(txn[w])}
    BY <1>7 DEF SettlingStored, Settling
  <2>2. QED
    BY <2>1, StoresKeys, SettlingEntryType
<1>8. ASSUME NEW D, NEW c, Issued(D, c) PROVE KeysSound'
  BY <1>8, IssueKeys
<1>9. StepCase
  BY StepCases
<1>10. QED
  BY <1>2, <1>3, <1>4, <1>5, <1>6, <1>7, <1>8, <1>9 DEF StepCase

(* A document whose key was found is refused: its number is taken.         *)
LEMMA NotRepeated ==
    ASSUME IInv, KeysSound, SafeRetries, NEW w \in Workers, NEW t, t = txn[w], t # Idle,
           t.type # "purchase_order", t.entry # 0
    PROVE  /\ t.type \in Moves => NumberTaken(t)
           /\ t.type \notin Moves => t.type = "supplier_invoice" /\ NumberEntered(t.number)
<1>1. t \in Poster /\ PosterSound(t) /\ Posts(w) /\ t.key \in Keys
  BY PosterNow, PosterFields DEF Posts
<1>2. t.entry \in DOMAIN entries /\ entries[t.entry].key = t.key /\ t.key # NoRequest
  BY <1>1, PurchasingAssumption DEF PosterSound
<1>3. Posted(t.key) # {}
  BY <1>2 DEF Posted
<1>4. t.key \in RetriedKeys
  BY <1>1, <1>3 DEF KeysSound
<1>5. PICK d \in DOMAIN documents :
        documents[d].entry = t.entry /\ Sent(t.key, documents[d].type, documents[d].number)
  BY <1>2 DEF KeysSound, EntryKnown
<1>6. PICK s \in Submissions :
        /\ s.key = t.key /\ s.type = documents[d].type
        /\ documents[d].type = "supplier_invoice" => s.number = documents[d].number
  BY <1>5 DEF Sent
<1>7. PICK q \in Submissions :
        /\ q.key = t.key /\ q.type = t.type
        /\ t.type = "supplier_invoice" => q.number = t.number
  BY <1>1 DEF KeysSound, Sent
<1>8. /\ s.type = q.type /\ s.type \in Moves \cup {"supplier_invoice"}
      /\ s.type = "supplier_invoice" => s.number = q.number
  BY <1>4, <1>6, <1>7 DEF SafeRetries
<1>9. /\ documents[d].type = t.type /\ t.type \in Moves \cup {"supplier_invoice"}
      /\ t.type = "supplier_invoice" => documents[d].number = t.number
  BY <1>6, <1>7, <1>8
<1>10. QED
  BY <1>5, <1>9 DEF NumberTaken, NumberEntered, OfType

-----------------------------------------------------------------------------
(* The control accounts *)

Grni == Total(DOMAIN entries, LAMBDA e : entries[e].grni)
Goods == Total(DOMAIN entries, LAMBDA e : entries[e].inventory)
Payable == Total(DOMAIN entries, LAMBDA e : entries[e].payable)

(* An entry adds its amounts to them.                                      *)
LEMMA EntryStep ==
    ASSUME entries \in Seq(Entry), NEW E \in Entry, entries' = Append(entries, E)
    PROVE  /\ Grni \in Int /\ Goods \in Int /\ Payable \in Int
           /\ Grni' = Grni + E.grni /\ Goods' = Goods + E.inventory /\ Payable' = Payable + E.payable
<1>1. PICK n \in Nat : n = Len(entries)
  OBVIOUS
<1>2. /\ DOMAIN entries = 1 .. n /\ DOMAIN entries' = 1 .. n + 1 /\ entries'[n + 1] = E
      /\ \A e \in 1 .. n : entries'[e] = entries[e] /\ entries[e] \in Entry
      /\ \A e \in 1 .. n + 1 : entries'[e] \in Entry
  BY <1>1
<1>3. /\ \A e \in 1 .. n + 1 : /\ entries'[e].grni \in Int /\ entries'[e].inventory \in Int
                               /\ entries'[e].payable \in Int
      /\ \A e \in 1 .. n : /\ entries[e].grni \in Int /\ entries[e].inventory \in Int
                           /\ entries[e].payable \in Int
  BY <1>2 DEF Entry
<1>4. Grni' = Grni + E.grni /\ Grni \in Int
  <2> DEFINE f == [e \in 1 .. n |-> entries[e].grni]
             g == [e \in 1 .. n + 1 |-> entries'[e].grni]
  <2>1. f \in [1 .. n -> Int] /\ g \in [1 .. n + 1 -> Int] /\ \A e \in 1 .. n : g[e] = f[e]
    BY <1>2, <1>3
  <2>2. g[n + 1] = E.grni
    BY <1>1, <1>2
  <2>3. Grni = SumFunction(f) /\ Grni' = SumFunction(g)
    BY <1>2 DEF Grni, Total
  <2> HIDE DEF f, g
  <2>4. SumFunction(g) = SumFunction(f) + g[n + 1] /\ SumFunction(f) \in Int
    BY <2>1, SumAppended
  <2>5. QED
    BY <2>2, <2>3, <2>4
<1>5. Goods' = Goods + E.inventory /\ Goods \in Int
  <2> DEFINE f == [e \in 1 .. n |-> entries[e].inventory]
             g == [e \in 1 .. n + 1 |-> entries'[e].inventory]
  <2>1. f \in [1 .. n -> Int] /\ g \in [1 .. n + 1 -> Int] /\ \A e \in 1 .. n : g[e] = f[e]
    BY <1>2, <1>3
  <2>2. g[n + 1] = E.inventory
    BY <1>1, <1>2
  <2>3. Goods = SumFunction(f) /\ Goods' = SumFunction(g)
    BY <1>2 DEF Goods, Total
  <2> HIDE DEF f, g
  <2>4. SumFunction(g) = SumFunction(f) + g[n + 1] /\ SumFunction(f) \in Int
    BY <2>1, SumAppended
  <2>5. QED
    BY <2>2, <2>3, <2>4
<1>6. Payable' = Payable + E.payable /\ Payable \in Int
  <2> DEFINE f == [e \in 1 .. n |-> entries[e].payable]
             g == [e \in 1 .. n + 1 |-> entries'[e].payable]
  <2>1. f \in [1 .. n -> Int] /\ g \in [1 .. n + 1 -> Int] /\ \A e \in 1 .. n : g[e] = f[e]
    BY <1>2, <1>3
  <2>2. g[n + 1] = E.payable
    BY <1>1, <1>2
  <2>3. Payable = SumFunction(f) /\ Payable' = SumFunction(g)
    BY <1>2 DEF Payable, Total
  <2> HIDE DEF f, g
  <2>4. SumFunction(g) = SumFunction(f) + g[n + 1] /\ SumFunction(f) \in Int
    BY <2>1, SumAppended
  <2>5. QED
    BY <2>2, <2>3, <2>4
<1>7. QED
  BY <1>4, <1>5, <1>6

-----------------------------------------------------------------------------
(* What rounding leaves *)

(* Products of integers are integers, and a sum is multiplied part by part. *)
LEMMA Products ==
    /\ \A a, b \in Int : a * b \in Int
    /\ \A a, b, c \in Int : (a + b) * c = a * c + b * c
  OBVIOUS

(* A quotient and its remainder.                                           *)
LEMMA Quotient ==
    ASSUME NEW a \in Nat, NEW b \in Nat \ {0}
    PROVE  /\ b * (a \div b) <= a /\ a < b * (a \div b) + b
           /\ a % b = a - b * (a \div b)
  OBVIOUS

(* A line is worth what its quantity and price say, to half the smallest
   amount; exactly so if they say a whole amount.                          *)
LEMMA LineIsRounded ==
    ASSUME NEW n \in Nat, NEW c \in Nat
    PROVE  /\ -Unit <= 2 * (Unit * LineValue(n, c) - n * c)
           /\ 2 * (Unit * LineValue(n, c) - n * c) <= Unit
           /\ (n * c) % Unit = 0 => Unit * LineValue(n, c) = n * c
<1>1. PICK p \in Nat : p = n * c
  BY NatProduct
<1>2. PICK v : v = (2 * p + Unit) \div (2 * Unit)
  OBVIOUS
<1>3. Unit \in Nat \ {0} /\ 2 * p + Unit \in Nat /\ 2 * Unit \in Nat \ {0}
  BY UnitAssumption
<1>4. v \in Nat
  BY <1>2, <1>3, NatQuotient
<1>5. (2 * Unit) * v <= 2 * p + Unit /\ 2 * p + Unit < (2 * Unit) * v + 2 * Unit
  BY <1>2, <1>3, Quotient
<1>6. PICK x \in Nat : x = Unit * v
  BY <1>3, <1>4, NatProduct
<1>7. (2 * Unit) * v = 2 * x
  BY <1>3, <1>4, <1>6
<1>8. -Unit <= 2 * (x - p) /\ 2 * (x - p) <= Unit
  BY <1>3, <1>5, <1>7
<1>9. ASSUME p % Unit = 0 PROVE x = p
  <2>1. PICK k \in Nat : p = Unit * k
    <3>1. PICK k \in Nat : k = p \div Unit
      BY <1>3, NatQuotient
    <3>2. 0 = p - Unit * k /\ Unit * k \in Nat
      BY <1>3, <1>9, <3>1, NatProduct, Quotient
    <3>3. QED
      BY <3>2
  <2>2. PICK i \in Int : i = v - k
    BY <1>4
  <2>3. v = k + i
    BY <1>4, <2>2
  <2>4. x = p + Unit * i
    BY <1>3, <1>6, <2>1, <2>3
  <2>5. -Unit <= 2 * (Unit * i) /\ 2 * (Unit * i) <= Unit
    BY <1>3, <1>8, <2>4
  <2>6. i >= 1 => Unit * i >= Unit
    BY <1>3
  <2>7. i <= -1 => Unit * i <= -Unit
    BY <1>3
  <2>8. i = 0
    BY <1>3, <2>5, <2>6, <2>7
  <2>9. Unit * 0 = 0
    BY <1>3
  <2>10. QED
    BY <2>4, <2>8, <2>9
<1>10. LineValue(n, c) = v
  BY <1>1, <1>2 DEF LineValue, RoundedQuotient
<1>11. QED
  BY <1>1, <1>6, <1>8, <1>9, <1>10

(* x is what n rounded lines may leave, counted in Unit times less than the
   smallest amount.                                                        *)
Within(x, n) == -(Unit * n) <= 2 * x /\ 2 * x <= Unit * n

Exact(qty) == Total(DOMAIN qty, LAMBDA l : qty[l] * Price[l])
Rounded(qty) == {l \in DOMAIN qty : (qty[l] * Price[l]) % Unit # 0}

(* Nothing is within all bounds, what is within bounds adds up within their
   sum, and its opposite is within them, too.                              *)
LEMMA WithinAdds ==
    /\ \A n \in Nat : Within(Unit * 0 - 0, n)
    /\ \A x, y \in Int : \A m, n \in Nat : Within(x, m) /\ Within(y, n) => Within(x + y, m + n)
    /\ \A x \in Int : \A n \in Nat : Within(x, n) => Within(-x, n)
<1>1. Unit \in Nat \ {0}
  BY UnitAssumption
<1>2. ASSUME NEW n \in Nat PROVE Within(Unit * 0 - 0, n)
  <2>1. Unit * n \in Nat /\ Unit * 0 = 0
    BY <1>1, NatProduct
  <2>2. QED
    BY <2>1 DEF Within
<1>3. ASSUME NEW x \in Int, NEW y \in Int, NEW m \in Nat, NEW n \in Nat, Within(x, m), Within(y, n)
      PROVE  Within(x + y, m + n)
  <2>1. PICK a \in Nat : a = Unit * m
    BY <1>1, NatProduct
  <2>2. PICK b \in Nat : b = Unit * n
    BY <1>1, NatProduct
  <2>3. Unit * (m + n) = a + b
    BY <1>1, <2>1, <2>2
  <2>4. -a <= 2 * x /\ 2 * x <= a /\ -b <= 2 * y /\ 2 * y <= b
    BY <1>3, <2>1, <2>2 DEF Within
  <2>5. -(a + b) <= 2 * (x + y) /\ 2 * (x + y) <= a + b
    BY <2>4
  <2>6. QED
    BY <2>3, <2>5 DEF Within
<1>4. ASSUME NEW x \in Int, NEW n \in Nat, Within(x, n) PROVE Within(-x, n)
  <2>1. PICK a \in Nat : a = Unit * n
    BY <1>1, NatProduct
  <2>2. -a <= 2 * x /\ 2 * x <= a
    BY <1>4, <2>1 DEF Within
  <2>3. -a <= 2 * (-x) /\ 2 * (-x) <= a
    BY <2>2
  <2>4. QED
    BY <2>1, <2>3 DEF Within
<1>5. QED
  BY <1>2, <1>3, <1>4

(* A document has finitely many rounded lines.                             *)
LEMMA RoundedType ==
    ASSUME NEW qty \in Quantities
    PROVE  \A R \in SUBSET DOMAIN qty :
             /\ IsFiniteSet(R) /\ IsFiniteSet(R \cap Rounded(qty))
             /\ Cardinality(R \cap Rounded(qty)) \in Nat
  BY QuantityType, FS_Subset, FS_CardinalityType

(* What a line is worth at the order price is within bounds of its quantity
   times the price: of none, or of one if it was rounded.                  *)
LEMMA LineRounding ==
    ASSUME NEW qty \in Quantities, NEW l \in DOMAIN qty
    PROVE  /\ LineValue(qty[l], Price[l]) \in Nat /\ qty[l] * Price[l] \in Nat
           /\ Within(Unit * LineValue(qty[l], Price[l]) - qty[l] * Price[l],
                     IF l \in Rounded(qty) THEN 1 ELSE 0)
<1>1. PICK n \in Nat : n = qty[l]
  BY QuantityType
<1>2. PICK c \in Nat : c = Price[l]
  BY QuantityType, PurchasingAssumption
<1>3. LineValue(n, c) \in Nat /\ n * c \in Nat
  BY LineValueNat, NatProduct
<1>4. l \notin Rounded(qty) => (n * c) % Unit = 0
  BY <1>1, <1>2 DEF Rounded
<1>5. /\ Unit * 1 = Unit /\ Unit * 0 = 0 /\ Unit * LineValue(n, c) \in Nat
  BY <1>3, UnitAssumption, NatProduct
<1>6. Within(Unit * LineValue(n, c) - n * c, 1)
  BY <1>5, LineIsRounded DEF Within
<1>7. (n * c) % Unit = 0 => Within(Unit * LineValue(n, c) - n * c, 0)
  <2>1. ASSUME (n * c) % Unit = 0 PROVE Unit * LineValue(n, c) - n * c = 0
    BY <1>3, <1>5, <2>1, LineIsRounded
  <2>2. QED
    BY <1>5, <2>1 DEF Within
<1>8. QED
  BY <1>1, <1>2, <1>3, <1>4, <1>6, <1>7

(* What the lines of a document are worth is within as many as were
   rounded.                                                                *)
LEMMA WorthRounding ==
    ASSUME NEW qty \in Quantities
    PROVE  /\ Exact(qty) \in Int /\ Worth(qty, Price) \in Nat /\ Cardinality(Rounded(qty)) \in Nat
           /\ Within(Unit * Worth(qty, Price) - Exact(qty), Cardinality(Rounded(qty)))
<1> DEFINE S == DOMAIN qty
           f == [l \in S |-> LineValue(qty[l], Price[l])]
           g == [l \in S |-> qty[l] * Price[l]]
           worth(R) == SumFunctionOnSet(f, R)
           exact(R) == SumFunctionOnSet(g, R)
           rounded(R) == Cardinality(R \cap Rounded(qty))
           Good == {R \in SUBSET S : /\ worth(R) \in Int /\ exact(R) \in Int
                                     /\ Within(Unit * worth(R) - exact(R), rounded(R))}
<1>1. IsFiniteSet(S) /\ f \in [S -> Int] /\ g \in [S -> Int] /\ Unit \in Int
  BY QuantityType, LineRounding, UnitAssumption
<1>2. {} \in Good
  <2>1. worth({}) = 0 /\ exact({}) = 0
    BY SumOnEmpty
  <2>2. rounded({}) \in Nat
    BY RoundedType
  <2>3. QED
    BY <2>1, <2>2, WithinAdds
<1>3. ASSUME NEW R \in SUBSET S, NEW x \in R, R \ {x} \in Good PROVE R \in Good
  <2>1. worth(R) = f[x] + worth(R \ {x}) /\ exact(R) = g[x] + exact(R \ {x})
    <3>1. IsFiniteSet(R) /\ \A y \in R : f[y] \in Int /\ g[y] \in Int
      BY <1>1, FS_Subset
    <3> HIDE DEF f, g
    <3>2. SumFunctionOnSet(f, R) = f[x] + SumFunctionOnSet(f, R \ {x})
      BY <3>1, SumAny
    <3>3. SumFunctionOnSet(g, R) = g[x] + SumFunctionOnSet(g, R \ {x})
      BY <3>1, SumAny
    <3>4. QED
      BY <3>2, <3>3
  <2>2. f[x] \in Int /\ g[x] \in Int /\ worth(R \ {x}) \in Int /\ exact(R \ {x}) \in Int
    BY <1>1, <1>3
  <2>3. PICK one \in Nat : one = IF x \in Rounded(qty) THEN 1 ELSE 0
    OBVIOUS
  <2>4. rounded(R) = one + rounded(R \ {x}) /\ rounded(R \ {x}) \in Nat
    <3>1. IsFiniteSet((R \ {x}) \cap Rounded(qty)) /\ rounded(R \ {x}) \in Nat
      BY RoundedType
    <3>2. CASE x \in Rounded(qty)
      <4>1. R \cap Rounded(qty) = ((R \ {x}) \cap Rounded(qty)) \cup {x}
        BY <3>2
      <4>2. rounded(R) = rounded(R \ {x}) + 1
        BY <3>1, <4>1, FS_AddElement
      <4>3. QED
        BY <2>3, <3>1, <3>2, <4>2
    <3>3. CASE x \notin Rounded(qty)
      <4>1. R \cap Rounded(qty) = (R \ {x}) \cap Rounded(qty)
        BY <3>3
      <4>2. QED
        BY <2>3, <3>1, <3>3, <4>1
    <3>4. QED
      BY <3>2, <3>3
  <2>5. Within(Unit * f[x] - g[x], one)
    BY <2>3, LineRounding
  <2>6. Within(Unit * worth(R \ {x}) - exact(R \ {x}), rounded(R \ {x}))
    BY <1>3
  <2> HIDE DEF f, g, worth, exact, rounded
  <2>7. /\ Unit * f[x] - g[x] \in Int /\ Unit * worth(R \ {x}) - exact(R \ {x}) \in Int
        /\ Unit * worth(R) - exact(R)
             = (Unit * f[x] - g[x]) + (Unit * worth(R \ {x}) - exact(R \ {x}))
    <3>1. PICK a \in Int : a = f[x]
      BY <2>2
    <3>2. PICK b \in Int : b = worth(R \ {x})
      BY <2>2
    <3>3. Unit * (a + b) = Unit * a + Unit * b /\ Unit * a \in Int /\ Unit * b \in Int
      BY <1>1
    <3>4. QED
      BY <2>1, <2>2, <3>1, <3>2, <3>3
  <2>8. Within(Unit * worth(R) - exact(R), rounded(R))
    <3>1. PICK a \in Int : a = Unit * f[x] - g[x]
      BY <2>7
    <3>2. PICK b \in Int : b = Unit * worth(R \ {x}) - exact(R \ {x})
      BY <2>7
    <3>3. PICK k \in Nat : k = rounded(R \ {x})
      BY <2>4
    <3>4. Within(a, one) /\ Within(b, k)
      BY <2>5, <2>6, <3>1, <3>2, <3>3
    <3>5. Within(a + b, one + k)
      BY <3>4, WithinAdds
    <3>6. Unit * worth(R) - exact(R) = a + b /\ rounded(R) = one + k
      BY <2>4, <2>7, <3>1, <3>2, <3>3
    <3>7. QED
      BY <3>5, <3>6
  <2>9. QED
    BY <2>1, <2>2, <2>8
<1>4. S \in Good
  <2> HIDE DEF Good
  <2>1. QED
    BY <1>1, <1>2, <1>3, SubsetInduction
<1>5. Worth(qty, Price) = worth(S) /\ Exact(qty) = exact(S)
  BY DEF Worth, Exact, Total, SumFunction
<1>6. S \cap Rounded(qty) = Rounded(qty) /\ rounded(S) \in Nat
  BY RoundedType DEF Rounded
<1>7. QED
  BY <1>4, <1>5, <1>6, OrderWorthType

Roundings == Total(DOMAIN documents, LAMBDA d : Cardinality(RoundedLines(d)))

(* A document adds its own rounded lines.                                  *)
LEMMA RoundingsStep ==
    ASSUME NEW D, Appended(D)
    PROVE  /\ Roundings \in Nat /\ Cardinality(Rounded(D.qty)) \in Nat
           /\ Roundings' = Roundings + Cardinality(Rounded(D.qty))
<1>1. PICK n \in Nat : n = Len(documents)
  BY DEF Appended
<1> DEFINE f == [d \in 1 .. n |-> Cardinality(RoundedLines(d))]
           g == [d \in 1 .. n + 1 |-> Cardinality(RoundedLines(d)')]
<1>2. /\ DOMAIN documents = 1 .. n /\ DOMAIN documents' = 1 .. n + 1 /\ documents'[n + 1] = D
      /\ \A d \in 1 .. n : documents'[d] = documents[d]
      /\ documents \in Seq(Document) /\ documents' \in Seq(Document)
  BY <1>1, AppendedDocuments DEF Appended
<1>3. \A d : RoundedLines(d) = Rounded(documents[d].qty) /\ RoundedLines(d)' = Rounded(documents'[d].qty)
  BY DEF RoundedLines, Rounded
<1>4. \A qty \in Quantities : Cardinality(Rounded(qty)) \in Nat
  BY WorthRounding
<1>5. D.qty \in Quantities /\ \A d \in 1 .. n : documents[d].qty \in Quantities
  BY <1>2, FinitelyMany DEF Appended, Document
<1>6. \A d \in 1 .. n : g[d] = f[d] /\ f[d] \in Nat
  BY <1>2, <1>3, <1>4, <1>5
<1>7. g[n + 1] = Cardinality(Rounded(D.qty)) /\ g[n + 1] \in Nat
  BY <1>1, <1>2, <1>3, <1>4, <1>5
<1>8. f \in [1 .. n -> Nat] /\ f \in [1 .. n -> Int] /\ g \in [1 .. n + 1 -> Int]
  <2>1. \A d \in 1 .. n + 1 : d \in 1 .. n \/ d = n + 1
    OBVIOUS
  <2> DEFINE c(d) == Cardinality(RoundedLines(d))
             p(d) == Cardinality(RoundedLines(d)')
  <2>2. (\A d \in 1 .. n : c(d) \in Nat) /\ \A d \in 1 .. n : p(d) \in Nat
    BY <1>2, <1>3, <1>4, <1>5
  <2>3. p(n + 1) \in Nat
    BY <1>7
  <2> HIDE DEF c, p
  <2>4. \A d \in 1 .. n + 1 : p(d) \in Int
    BY <2>1, <2>2, <2>3
  <2>5. f = [d \in 1 .. n |-> c(d)] /\ g = [d \in 1 .. n + 1 |-> p(d)]
    BY DEF c, p
  <2>6. QED
    BY <2>2, <2>4, <2>5
<1>9. Roundings = SumFunction(f) /\ Roundings' = SumFunction(g)
  BY <1>2 DEF Roundings, Total
<1>10. IsFiniteSet(1 .. n)
  BY <1>1, FS_Interval
<1> HIDE DEF f, g
<1>11. SumFunction(g) = SumFunction(f) + g[n + 1]
  BY <1>6, <1>8, SumAppended
<1>12. SumFunction(f) \in Nat
  BY <1>8, <1>10, SumNat
<1>13. QED
  BY <1>4, <1>5, <1>7, <1>9, <1>11, <1>12

-----------------------------------------------------------------------------
(* What awaits an invoice *)

Asked(qty, l) == IF l \in DOMAIN qty THEN qty[l] ELSE 0
Valued(a) == SumFunction([l \in Lines |-> a[l] * Price[l]])
Awaited == Total(Lines, LAMBDA l : (invoiced[l] - received[l]) * Price[l])

(* Unrounded, the quantities of all lines are worth what those asked for are. *)
LEMMA ExactOnLines ==
    ASSUME NEW qty \in Quantities
    PROVE  SumFunction([l \in Lines |-> Asked(qty, l) * Price[l]]) = Exact(qty)
<1> DEFINE T == DOMAIN qty
           f == [l \in Lines |-> Asked(qty, l) * Price[l]]
           g == [l \in T |-> qty[l] * Price[l]]
<1>1. IsFiniteSet(Lines) /\ T \subseteq Lines /\ \A l \in Lines : Price[l] \in Int
  BY QuantityType, PurchasingAssumption
<1>2. \A l \in Lines : Asked(qty, l) \in Int
  BY QuantityType DEF Asked
<1>3. f \in [Lines -> Int]
  BY <1>1, <1>2, Products
<1>4. \A l \in T : f[l] = g[l] /\ f[l] \in Int
  BY <1>1, <1>3 DEF Asked
<1>5. g \in [T -> Int]
  BY <1>4
<1>6. \A l \in Lines \ T : f[l] = 0
  <2>1. \A l \in Lines \ T : f[l] = 0 * Price[l]
    BY DEF Asked
  <2>2. QED
    BY <1>1, <2>1
<1>7. Exact(qty) = SumFunction(g)
  BY DEF Exact, Total
<1> HIDE DEF f, g, T
<1>8. SumFunction(f) = SumFunction(g)
  BY <1>1, <1>3, <1>4, <1>5, <1>6, SumSupport
<1>9. QED
  BY <1>7, <1>8 DEF f

(* More on the lines is worth more.                                        *)
LEMMA ExactAdds ==
    ASSUME NEW a \in [Lines -> Int], NEW b \in [Lines -> Int], NEW qty \in Quantities,
           \A l \in Lines : b[l] = a[l] + Asked(qty, l)
    PROVE  Valued(b) = Valued(a) + Exact(qty) /\ Valued(a) \in Int /\ Valued(b) \in Int
<1> DEFINE f == [l \in Lines |-> a[l] * Price[l]]
           g == [l \in Lines |-> Asked(qty, l) * Price[l]]
           h == [l \in Lines |-> b[l] * Price[l]]
<1>1. IsFiniteSet(Lines) /\ \A l \in Lines : Price[l] \in Int
  BY PurchasingAssumption
<1>2. \A l \in Lines : Asked(qty, l) \in Int
  BY QuantityType DEF Asked
<1>3. f \in [Lines -> Int] /\ g \in [Lines -> Int] /\ h \in [Lines -> Int]
  BY <1>1, <1>2, Products
<1>4. \A l \in Lines : h[l] = f[l] + g[l]
  BY <1>1, <1>2, Products
<1> HIDE DEF f, g, h
<1>5. SumFunction(h) = SumFunction(f) + SumFunction(g)
  BY <1>1, <1>3, <1>4, SumPlus
<1>6. SumFunction(f) \in Int /\ SumFunction(h) \in Int
  BY <1>1, <1>3, SumInt
<1>7. QED
  BY <1>5, <1>6, ExactOnLines DEF f, g, h, Valued

(* What awaits invoices is worth what the lines say.                       *)
LEMMA AwaitedIs == ASSUME NEW a, a = [l \in Lines |-> invoiced[l] - received[l]] PROVE Awaited = Valued(a)
<1>1. [l \in Lines |-> (invoiced[l] - received[l]) * Price[l]] = [l \in Lines |-> a[l] * Price[l]]
  OBVIOUS
<1>2. QED
  BY <1>1 DEF Awaited, Total, Valued

(* It changes by what is received, returned or invoiced at the order price. *)
LEMMA AwaitedStep ==
    ASSUME received \in [Lines -> Nat], invoiced \in [Lines -> Nat],
           received' \in [Lines -> Nat], invoiced' \in [Lines -> Nat], NEW qty \in Quantities
    PROVE  /\ Awaited \in Int
           /\ (\A l \in Lines : invoiced'[l] - received'[l] = (invoiced[l] - received[l]) + Asked(qty, l))
                => Awaited' = Awaited + Exact(qty)
           /\ (\A l \in Lines : invoiced[l] - received[l] = (invoiced'[l] - received'[l]) + Asked(qty, l))
                => Awaited' = Awaited - Exact(qty)
<1>1. PICK a : a = [l \in Lines |-> invoiced[l] - received[l]]
  OBVIOUS
<1>2. PICK b : b = [l \in Lines |-> invoiced'[l] - received'[l]]
  OBVIOUS
<1>3. a \in [Lines -> Int] /\ b \in [Lines -> Int]
  BY <1>1, <1>2
<1>4. Awaited = Valued(a)
  BY <1>1, AwaitedIs
<1>5. Awaited' = Valued(b)
  <2>1. [l \in Lines |-> (invoiced'[l] - received'[l]) * Price[l]] = [l \in Lines |-> b[l] * Price[l]]
    BY <1>2
  <2>2. QED
    BY <2>1 DEF Awaited, Total, Valued
<1>6. Valued(a) \in Int
  <2>1. \A l \in Lines : a[l] = a[l] + Asked(NoLines, l)
    BY <1>3 DEF Asked, NoLines
  <2>2. QED
    BY <1>3, <2>1, NothingAsked, ExactAdds
<1>7. ASSUME \A l \in Lines : b[l] = a[l] + Asked(qty, l)
      PROVE  Valued(b) = Valued(a) + Exact(qty)
  BY <1>3, <1>7, ExactAdds
<1>8. ASSUME \A l \in Lines : a[l] = b[l] + Asked(qty, l)
      PROVE  Valued(b) = Valued(a) - Exact(qty)
  <2>1. Valued(a) = Valued(b) + Exact(qty) /\ Valued(b) \in Int
    BY <1>3, <1>8, ExactAdds
  <2>2. Exact(qty) \in Int
    BY WorthRounding
  <2>3. QED
    BY <2>1, <2>2
<1>9. QED
  BY <1>1, <1>2, <1>4, <1>5, <1>6, <1>7, <1>8

-----------------------------------------------------------------------------
(* What is owed *)

NoteOf(D, i) == IF D.type = "supplier_debit_note" /\ D.of = i THEN D.amount ELSE 0

(* What debit notes take grows by the new one.                             *)
LEMMA NotedStep ==
    ASSUME NEW D, Appended(D), NEW i
    PROVE  Noted(i)' = Noted(i) + NoteOf(D, i)
<1> DEFINE n == Len(documents) + 1
           S == NotesOf(i)
           T == S'
           f == [d \in S |-> documents[d].amount]
           g == [d \in T |-> documents'[d].amount]
<1>1. T = {d \in OfType("supplier_debit_note")' : documents'[d].of = i}
  BY DEF NotesOf
<1>2. /\ S \subseteq T /\ T \subseteq S \cup {n} /\ S \subseteq DOMAIN documents
      /\ n \in T <=> D.type = "supplier_debit_note" /\ D.of = i
  BY <1>1, AppendedDocuments, AppendedTypes DEF NotesOf
<1>3. documents \in Seq(Document) /\ D.amount \in Int
  BY DEF Appended, Document
<1>4. IsFiniteSet(S) /\ n \notin S /\ f \in [S -> Int]
  BY <1>2, <1>3, FinitelyMany, AppendedDocuments DEF Amount
<1>5. g \in [T -> Int] /\ (n \in T => g[n] = D.amount) /\ \A d \in S : g[d] = f[d]
  BY <1>2, <1>3, <1>4, FinitelyMany, AppendedDocuments DEF Amount
<1>6. Noted(i) = SumFunction(f) /\ Noted(i)' = SumFunction(g)
  BY DEF Noted, Total, Amount
<1> HIDE DEF f, g, S, T, n
<1>7. SumFunction(g) = SumFunction(f) + (IF n \in T THEN g[n] ELSE 0)
  BY <1>2, <1>4, <1>5, SumExtend
<1>8. (IF n \in T THEN g[n] ELSE 0) = NoteOf(D, i)
  <2>1. CASE n \in T
    BY <2>1, <1>2, <1>5 DEF NoteOf
  <2>2. CASE n \notin T
    BY <2>2, <1>2 DEF NoteOf
  <2>3. QED
    BY <2>1, <2>2
<1>9. QED
  BY <1>6, <1>7, <1>8

(* What an invoice still owes changes by what the document says of it; a
   new invoice is owed in full.                                            *)
LEMMA OutstandingStep ==
    ASSUME NEW D, Appended(D), NEW n, n = Len(documents) + 1
    PROVE  /\ \A i \in DOMAIN documents :
                /\ Outstanding(i) \in Int
                /\ Outstanding(i)' = Outstanding(i) - (NoteOf(D, i) + ShareOf(D, i))
                /\ NoteOf(D, i) + ShareOf(D, i) \in Int
           /\ D.type = "supplier_invoice" => Outstanding(n)' = D.amount
<1>1. documents \in Seq(Document) /\ DocumentsInOrder /\ D.amount \in Nat /\ D.share \in Nat
  BY DEF Appended, Document
<1>2. \A i : NoteOf(D, i) \in Nat /\ ShareOf(D, i) \in Nat
  BY <1>1 DEF NoteOf, ShareOf
<1>3. \A i : Noted(i)' = Noted(i) + NoteOf(D, i) /\ Settled(i)' = Settled(i) + ShareOf(D, i)
  BY NotedStep, SettledStep
<1>4. \A i : Noted(i) \in Nat /\ Settled(i) \in Nat
  BY <1>1, SettledType
<1>5. ASSUME NEW i \in DOMAIN documents
      PROVE  /\ Outstanding(i) \in Int
             /\ Outstanding(i)' = Outstanding(i) - (NoteOf(D, i) + ShareOf(D, i))
             /\ NoteOf(D, i) + ShareOf(D, i) \in Int
  <2>1. PICK a, s, m, x, y :
          a = Amount(i) /\ s = Settled(i) /\ m = Noted(i) /\ x = NoteOf(D, i) /\ y = ShareOf(D, i)
    OBVIOUS
  <2>2. a \in Nat /\ s \in Nat /\ m \in Nat /\ x \in Nat /\ y \in Nat
    BY <1>1, <1>2, <1>4, <2>1, FinitelyMany
  <2>3. Amount(i)' = a /\ Settled(i)' = s + y /\ Noted(i)' = m + x
    BY <1>3, <2>1, AppendedDocuments DEF Amount
  <2>4. Outstanding(i) = a - s - m /\ Outstanding(i)' = a - (s + y) - (m + x)
    BY <2>1, <2>3 DEF Outstanding, Noted
  <2>5. a - (s + y) - (m + x) = (a - s - m) - (x + y) /\ a - s - m \in Int /\ x + y \in Int
    BY <2>2
  <2>6. QED
    BY <2>1, <2>4, <2>5, Zenon
<1>6. ASSUME D.type = "supplier_invoice" PROVE Outstanding(n)' = D.amount
  <2>1. n \notin DOMAIN documents /\ n # 0
    BY AppendedDocuments
  <2>2. Noted(n) = 0 /\ Settled(n) = 0 /\ NoteOf(D, n) = 0 /\ ShareOf(D, n) = 0
    BY <1>1, <1>6, <2>1, NothingAhead DEF NoteOf, ShareOf
  <2>3. Noted(n)' = 0 /\ Settled(n)' = 0
    BY <1>3, <2>2
  <2>4. Amount(n)' = D.amount
    BY AppendedDocuments DEF Amount
  <2>5. Outstanding(n)' = D.amount - 0 - 0
    BY <2>3, <2>4 DEF Outstanding, Noted
  <2>6. QED
    BY <1>1, <2>5
<1>7. QED
  BY <1>5, <1>6

Owed == Total(OfType("supplier_invoice"), Outstanding)
OnAccount == Total(OfType("supplier_payment"), LAMBDA d : documents[d].amount - documents[d].share)

(* All invoices together.                                                  *)
LEMMA OwedStep ==
    ASSUME NEW D, Appended(D)
    PROVE  /\ Owed \in Int
           /\ Owed' = Owed + (IF D.type = "supplier_invoice" THEN D.amount
                              ELSE IF D.type = "supplier_debit_note" THEN -D.amount
                              ELSE IF D.type = "supplier_payment" THEN -D.share
                              ELSE 0)
<1>1. PICK n : n = Len(documents) + 1
  OBVIOUS
<1> DEFINE S == OfType("supplier_invoice")
           T == S'
           c(i) == NoteOf(D, i) + ShareOf(D, i)
           f == [i \in S |-> Outstanding(i)]
           h == [i \in S |-> f[i] - c(i)]
           g == [i \in T |-> Outstanding(i)']
<1>2. /\ documents \in Seq(Document) /\ Follows(n, D) /\ D.amount \in Nat /\ D.share \in Nat
  BY <1>1 DEF Appended, Document
<1>3. /\ S \subseteq T /\ T \subseteq S \cup {n} /\ S \subseteq DOMAIN documents /\ n \notin S
      /\ n \in T <=> D.type = "supplier_invoice"
  BY <1>1, AppendedTypes, AppendedDocuments
<1>4. IsFiniteSet(S)
  BY <1>2, <1>3, FinitelyMany
<1>5. \A i \in S : Outstanding(i) \in Int /\ Outstanding(i)' = Outstanding(i) - c(i) /\ c(i) \in Int
  BY <1>1, <1>3, OutstandingStep
<1>6. D.type = "supplier_invoice" => Outstanding(n)' = D.amount
  BY <1>1, OutstandingStep
<1>7. f \in [S -> Int] /\ h \in [S -> Int] /\ \A i \in S : h[i] = f[i] - c(i)
  BY <1>5
<1>8. \A i \in S : Outstanding(i)' = h[i]
  BY <1>5
<1>9. \A i \in T : Outstanding(i)' \in Int
  <2>1. ASSUME NEW i \in T PROVE Outstanding(i)' \in Int
    <3>1. CASE i \in S
      BY <1>7, <1>8, <3>1
    <3>2. CASE i = n
      BY <1>2, <1>3, <1>6, <2>1, <3>2
    <3>3. QED
      BY <1>3, <2>1, <3>1, <3>2
  <2>2. QED
    BY <2>1
<1>10. g \in [T -> Int] /\ (n \in T => g[n] = D.amount) /\ \A i \in S : g[i] = h[i]
  <2>1. g \in [T -> Int]
    BY <1>9
  <2>2. \A i \in T : g[i] = Outstanding(i)'
    OBVIOUS
  <2>3. QED
    BY <1>3, <1>6, <1>8, <2>1, <2>2
<1>11. Owed = SumFunction(f) /\ Owed' = SumFunction(g)
  BY DEF Owed, Total
<1>12. \A i : D.type \notin Settling \/ i # D.of => c(i) = 0
  BY DEF NoteOf, ShareOf, Settling
<1>13. c(D.of) = IF D.type = "supplier_debit_note" THEN D.amount
                 ELSE IF D.type = "supplier_payment" THEN D.share ELSE 0
  BY <1>2 DEF NoteOf, ShareOf
<1>14. D.type \in Settling => D.of \in S
  BY <1>2 DEF Follows
<1> HIDE DEF c, f, h, g, S, T
<1>15. SumFunction(g) = SumFunction(h) + (IF n \in T THEN g[n] ELSE 0)
  BY <1>3, <1>4, <1>7, <1>10, SumExtend
<1>16. SumFunction(f) \in Int
  BY <1>4, <1>7, SumInt
<1>17. CASE D.type \in Settling
  <2>1. PICK i \in S : i = D.of
    BY <1>14, <1>17
  <2>2. \A j \in S \ {i} : h[j] = f[j]
    BY <1>7, <1>12, <2>1
  <2>3. SumFunction(h) = SumFunction(f) - f[i] + h[i]
    BY <1>4, <1>7, <2>2, SumChange
  <2>4. f[i] \in Int /\ c(i) \in Int /\ h[i] = f[i] - c(i)
    BY <1>5, <1>7
  <2>5. SumFunction(h) = SumFunction(f) - c(i)
    BY <1>16, <2>3, <2>4
  <2>6. n \notin T
    BY <1>3, <1>17 DEF Settling
  <2>7. SumFunction(g) = SumFunction(f) - c(i)
    BY <1>15, <1>16, <2>4, <2>5, <2>6
  <2>8. QED
    BY <1>2, <1>11, <1>13, <1>16, <1>17, <2>1, <2>7 DEF Settling
<1>18. CASE D.type \notin Settling
  <2>1. \A i \in S : h[i] = f[i]
    BY <1>7, <1>12, <1>18
  <2>2. h = f
    BY <1>7, <2>1
  <2>3. SumFunction(g) = SumFunction(f) + (IF n \in T THEN D.amount ELSE 0)
    BY <1>10, <1>15, <2>2
  <2>4. QED
    BY <1>3, <1>11, <1>16, <1>18, <2>3 DEF Settling
<1>19. QED
  BY <1>17, <1>18

(* All payments together.                                                  *)
LEMMA OnAccountStep ==
    ASSUME NEW D, Appended(D)
    PROVE  /\ OnAccount \in Int
           /\ OnAccount' = OnAccount + (IF D.type = "supplier_payment" THEN D.amount - D.share ELSE 0)
<1> DEFINE n == Len(documents) + 1
           S == OfType("supplier_payment")
           T == S'
           f == [d \in S |-> documents[d].amount - documents[d].share]
           g == [d \in T |-> documents'[d].amount - documents'[d].share]
<1>1. documents \in Seq(Document) /\ D.amount \in Nat /\ D.share \in Nat
  BY DEF Appended, Document
<1>2. /\ S \subseteq T /\ T \subseteq S \cup {n} /\ S \subseteq DOMAIN documents /\ n \notin S
      /\ n \in T <=> D.type = "supplier_payment"
  BY AppendedTypes, AppendedDocuments
<1>3. IsFiniteSet(S) /\ f \in [S -> Int]
  BY <1>1, <1>2, FinitelyMany DEF Amount
<1>4. /\ (n \in T => g[n] = D.amount - D.share /\ g[n] \in Int)
      /\ \A d \in S : g[d] = f[d] /\ g[d] \in Int
  BY <1>1, <1>2, <1>3, AppendedDocuments
<1>5. g \in [T -> Int]
  BY <1>2, <1>4
<1>6. OnAccount = SumFunction(f) /\ OnAccount' = SumFunction(g)
  BY DEF OnAccount, Total
<1> HIDE DEF f, g, S, T, n
<1>7. SumFunction(g) = SumFunction(f) + (IF n \in T THEN g[n] ELSE 0)
  BY <1>2, <1>3, <1>4, <1>5, SumExtend
<1>8. SumFunction(f) \in Int
  BY <1>3, SumInt
<1>9. (IF n \in T THEN g[n] ELSE 0) = (IF D.type = "supplier_payment" THEN D.amount - D.share ELSE 0)
  BY <1>2, <1>4
<1>10. QED
  BY <1>6, <1>7, <1>8, <1>9

(* What a document makes the supplier's debt grow by.                      *)
Debt(D) ==
    IF D.type = "supplier_invoice" THEN D.amount
    ELSE IF D.type \in Settling THEN -D.amount ELSE 0

(* The ageing report grows by it.                                          *)
LEMMA AgeingStep ==
    ASSUME NEW D, Appended(D)
    PROVE  Ageing' = Ageing + Debt(D) /\ Ageing \in Int /\ Debt(D) \in Int
<1>1. D.amount \in Nat /\ D.share \in Nat
  BY DEF Appended, Document
<1>2. Ageing = Owed - OnAccount /\ Ageing' = Owed' - OnAccount'
  BY DEF Ageing, Owed, OnAccount
<1>3. PICK x : x = IF D.type = "supplier_invoice" THEN D.amount
                   ELSE IF D.type = "supplier_debit_note" THEN -D.amount
                   ELSE IF D.type = "supplier_payment" THEN -D.share
                   ELSE 0
  OBVIOUS
<1>4. PICK y : y = IF D.type = "supplier_payment" THEN D.amount - D.share ELSE 0
  OBVIOUS
<1>5. Owed \in Int /\ Owed' = Owed + x /\ OnAccount \in Int /\ OnAccount' = OnAccount + y
  BY <1>3, <1>4, OwedStep, OnAccountStep
<1>6. x \in Int /\ y \in Int /\ x - y = Debt(D)
  BY <1>1, <1>3, <1>4 DEF Debt, Settling
<1>7. QED
  BY <1>2, <1>5, <1>6

-----------------------------------------------------------------------------
(* The accounts match the documents *)

BooksTie ==
    /\ Within(Unit * Grni - Awaited, Roundings)
    /\ Goods = stock.value - OpeningStock.value /\ Payable = -Ageing

(* They do as long as every document has an entry for what it changes.     *)
LEMMA BooksStep ==
    ASSUME IInv, BooksTie, NEW D, Appended(D), NEW e \in Entry, entries' = Append(entries, e),
           NEW x \in Int, Awaited' = Awaited + x, Awaited \in Int,
           Within(Unit * e.grni - x, Cardinality(Rounded(D.qty))),
           stock'.value = stock.value + e.inventory, stock' \in State, e.payable = -Debt(D)
    PROVE  BooksTie'
<1>1. entries \in Seq(Entry) /\ stock \in State /\ OpeningStock \in State
  BY PurchasingAssumption DEF IInv, KindInv
<1>2. /\ Grni' = Grni + e.grni /\ Goods' = Goods + e.inventory /\ Payable' = Payable + e.payable
      /\ Grni \in Int
  BY <1>1, EntryStep
<1>3. Ageing' = Ageing + Debt(D) /\ Ageing \in Int /\ Debt(D) \in Int
  BY AgeingStep
<1>4. stock.value \in Int /\ OpeningStock.value \in Int /\ e.inventory \in Int
  BY <1>1 DEF State, Entry
<1>5. Within(Unit * Grni' - Awaited', Roundings')
  <2>1. e.grni \in Int /\ Unit \in Int
    BY UnitAssumption DEF Entry
  <2>2. PICK a \in Int : a = Unit * Grni
    BY <1>2, <2>1, Products
  <2>3. PICK b \in Int : b = Unit * e.grni
    BY <2>1, Products
  <2>4. Unit * Grni' = a + b
    BY <1>2, <2>1, <2>2, <2>3
  <2>5. Unit * Grni' - Awaited' = (a - Awaited) + (b - x)
    BY <2>4
  <2>6. Within(a - Awaited, Roundings) /\ Within(b - x, Cardinality(Rounded(D.qty)))
    BY <2>2, <2>3 DEF BooksTie
  <2>7. /\ Roundings \in Nat /\ Cardinality(Rounded(D.qty)) \in Nat
        /\ Roundings' = Roundings + Cardinality(Rounded(D.qty))
    BY RoundingsStep
  <2>8. a - Awaited \in Int /\ b - x \in Int
    OBVIOUS
  <2>9. QED
    BY <2>5, <2>6, <2>7, <2>8, WithinAdds
<1>6. Goods' = stock'.value - OpeningStock.value
  BY <1>2, <1>4 DEF BooksTie
<1>7. Payable' = -(Ageing')
  BY <1>2, <1>3 DEF BooksTie
<1>8. QED
  BY <1>5, <1>6, <1>7 DEF BooksTie

(* A debt of nothing, on either side.                                      *)
LEMMA NothingOwed == ASSUME NEW x \in Int, x <= 0, 0 <= x PROVE -x = 0
  OBVIOUS

(* A receipt brings goods that await an invoice.                           *)
LEMMA ReceiptBooks ==
    ASSUME IInv, KeysSound, SafeRetries, BooksTie, NEW w \in Workers, StoreReceipt(w)
    PROVE  BooksTie'
<1>1. PICK t : t = txn[w]
  OBVIOUS
<1>2. PICK D : D = NewDocument(t)
  OBVIOUS
<1>3. /\ t.type = "goods_receipt" /\ MoveStored(w, t, ReceiptEntry(t), ReceiveAll(stock, t.qty))
      /\ t \in Poster /\ ReceiptEntry(t) \in Entry /\ ReceiveAll(stock, t.qty) \in State
      /\ t.cost = Worth(t.qty, Price) /\ t.cost \in Nat
  BY <1>1, ReceiptStored, ReceiptState
<1>4. /\ t # Idle /\ t.type # "purchase_order" /\ ~NumberTaken(t)
      /\ StoresAs(w, t, ReceiptEntry(t)) /\ stock' = ReceiveAll(stock, t.qty) /\ invoiced' = invoiced
  BY <1>3 DEF MoveStored, MoveIsSound
<1>5. t.entry = 0
  BY <1>1, <1>3, <1>4, NotRepeated DEF Moves
<1>6. Appended(D) /\ D.type = t.type /\ D.qty = t.qty
  BY <1>1, <1>2, <1>3, <1>4, StoreAppends
<1>7. entries' = Append(entries, ReceiptEntry(t))
  BY <1>4, <1>5 DEF StoresAs
<1>8. PICK x : x = -t.cost
  OBVIOUS
<1>9. ReceiptEntry(t) = [key |-> t.key, inventory |-> t.cost, grni |-> x, payable |-> 0]
  <2>1. ReceiptEntry(t) = [[key |-> t.key, inventory |-> 0, grni |-> 0, payable |-> 0]
                             EXCEPT !.inventory = t.cost, !.grni = x]
    BY <1>8 DEF ReceiptEntry, NewEntry
  <2>2. QED
    BY <2>1
<1>10. /\ received \in [Lines -> Nat] /\ invoiced \in [Lines -> Nat] /\ received' \in [Lines -> Nat]
       /\ stock \in State /\ t.qty \in Quantities
  BY <1>3, CountersMove, PosterFields DEF IInv, KindInv
<1>11. \A l \in Lines : received'[l] = received[l] + Asked(t.qty, l) /\ Asked(t.qty, l) \in Int
  BY <1>3, CountersMove DEF MovedBy, Asked
<1>12. \A l \in Lines : invoiced[l] - received[l] = (invoiced'[l] - received'[l]) + Asked(t.qty, l)
  BY <1>4, <1>10, <1>11
<1>13. invoiced' \in [Lines -> Nat]
  BY <1>4, <1>10
<1>14. Awaited' = Awaited - Exact(t.qty) /\ Awaited \in Int
  BY <1>10, <1>12, <1>13, AwaitedStep
<1>15. PICK y \in Int :
         /\ Awaited' = Awaited + y
         /\ Within(Unit * ReceiptEntry(t).grni - y, Cardinality(Rounded(D.qty)))
  <2>1. PICK a \in Int : a = Exact(t.qty)
    BY <1>10, WorthRounding
  <2>2. Unit * t.cost \in Int /\ Unit * x = -(Unit * t.cost)
    BY <1>3, <1>8, UnitAssumption
  <2>3. Unit * x - (-a) = -(Unit * t.cost - a) /\ Unit * t.cost - a \in Int
    BY <2>2
  <2>4. Within(-(Unit * t.cost - a), Cardinality(Rounded(t.qty)))
    BY <1>3, <1>10, <2>1, <2>3, WorthRounding, WithinAdds
  <2>5. Awaited' = Awaited + (-a) /\ -a \in Int
    BY <1>14, <2>1
  <2>6. QED
    BY <1>6, <1>9, <2>3, <2>4, <2>5
<1>16. stock'.value = stock.value + ReceiptEntry(t).inventory
  BY <1>3, <1>4, <1>9 DEF ReceiveAll
<1>17. ReceiptEntry(t).payable = -Debt(D)
  <2>1. Debt(D) \in Int /\ Debt(D) <= 0 /\ 0 <= Debt(D)
    BY <1>3, <1>6 DEF Debt, Settling
  <2>2. ReceiptEntry(t).payable = 0
    BY <1>9
  <2>3. -Debt(D) = 0
    BY <2>1, NothingOwed
  <2>4. QED
    BY <2>2, <2>3
<1>18. stock' \in State
  BY <1>3, <1>4
<1>19. QED
  BY <1>3, <1>6, <1>7, <1>14, <1>15, <1>16, <1>17, <1>18, BooksStep

(* A return takes them back.                                               *)
LEMMA ReturnBooks ==
    ASSUME IInv, KeysSound, SafeRetries, BooksTie, NEW w \in Workers, StoreReturn(w)
    PROVE  BooksTie'
<1>1. PICK t : t = txn[w]
  OBVIOUS
<1>2. PICK D : D = NewDocument(t)
  OBVIOUS
<1>3. /\ t.type = "goods_return" /\ MoveStored(w, t, ReturnEntry(t), ReturnAll(stock, t.qty))
      /\ t \in Poster /\ ReturnEntry(t) \in Entry /\ ReturnAll(stock, t.qty) \in State
      /\ t.cost = stock.value - ReturnAll(stock, t.qty).value /\ t.cost \in Int
  BY <1>1, ReturnStored, ReturnState
<1>4. /\ t # Idle /\ t.type # "purchase_order" /\ ~NumberTaken(t)
      /\ StoresAs(w, t, ReturnEntry(t)) /\ stock' = ReturnAll(stock, t.qty) /\ invoiced' = invoiced
  BY <1>3 DEF MoveStored, MoveIsSound
<1>5. t.entry = 0
  BY <1>1, <1>3, <1>4, NotRepeated DEF Moves
<1>6. Appended(D) /\ D.type = t.type /\ D.qty = t.qty
  BY <1>1, <1>2, <1>3, <1>4, StoreAppends
<1>7. entries' = Append(entries, ReturnEntry(t))
  BY <1>4, <1>5 DEF StoresAs
<1>8. PICK x, y : x = -t.cost /\ y = Worth(t.qty, Price)
  OBVIOUS
<1>9. ReturnEntry(t) = [key |-> t.key, inventory |-> x, grni |-> y, payable |-> 0]
  <2>1. ReturnEntry(t) = [[key |-> t.key, inventory |-> 0, grni |-> 0, payable |-> 0]
                            EXCEPT !.inventory = x, !.grni = y]
    BY <1>8 DEF ReturnEntry, NewEntry
  <2>2. QED
    BY <2>1
<1>10. /\ received \in [Lines -> Nat] /\ invoiced \in [Lines -> Nat] /\ received' \in [Lines -> Nat]
       /\ stock \in State /\ t.qty \in Quantities
  BY <1>3, CountersMove, PosterFields DEF IInv, KindInv
<1>11. \A l \in Lines : received'[l] = received[l] - Asked(t.qty, l) /\ Asked(t.qty, l) \in Int
  <2>1. \A l \in Lines : Asked(t.qty, l) \in Int
    BY <1>10, QuantityType DEF Asked
  <2>2. \A l \in Lines : MovedBy(t, l) = -Asked(t.qty, l)
    BY <1>3, <2>1 DEF MovedBy, Asked
  <2>3. \A l \in Lines : received'[l] = received[l] + MovedBy(t, l)
    BY <1>3, CountersMove
  <2>4. QED
    BY <1>10, <2>1, <2>2, <2>3
<1>12. \A l \in Lines : invoiced'[l] - received'[l] = (invoiced[l] - received[l]) + Asked(t.qty, l)
  BY <1>4, <1>10, <1>11
<1>13. invoiced' \in [Lines -> Nat]
  BY <1>4, <1>10
<1>14. Awaited' = Awaited + Exact(t.qty) /\ Awaited \in Int /\ Exact(t.qty) \in Int
  BY <1>10, <1>12, <1>13, AwaitedStep, WorthRounding
<1>15. Within(Unit * ReturnEntry(t).grni - Exact(t.qty), Cardinality(Rounded(D.qty)))
  BY <1>6, <1>8, <1>9, <1>10, WorthRounding
<1>16. stock'.value = stock.value + ReturnEntry(t).inventory
  <2>1. stock.value \in Int /\ stock'.value \in Int
    BY <1>3, <1>4, <1>10 DEF State
  <2>2. ReturnEntry(t).inventory = x /\ t.cost = stock.value - stock'.value
    BY <1>3, <1>4, <1>9
  <2>3. QED
    BY <1>8, <2>1, <2>2
<1>17. ReturnEntry(t).payable = -Debt(D)
  <2>1. Debt(D) \in Int /\ Debt(D) <= 0 /\ 0 <= Debt(D)
    BY <1>3, <1>6 DEF Debt, Settling
  <2>2. ReturnEntry(t).payable = 0
    BY <1>9
  <2>3. -Debt(D) = 0
    BY <2>1, NothingOwed
  <2>4. QED
    BY <2>2, <2>3
<1>18. stock' \in State
  BY <1>3, <1>4
<1>19. QED
  BY <1>3, <1>6, <1>7, <1>14, <1>15, <1>16, <1>17, <1>18, BooksStep

(* An invoice turns what awaited it into a debt.                           *)
LEMMA InvoiceBooks ==
    ASSUME IInv, KeysSound, SafeRetries, BooksTie, NEW w \in Workers, InvoiceStored(w, txn[w])
    PROVE  BooksTie'
<1>1. PICK t : t = txn[w]
  OBVIOUS
<1>2. PICK D : D = NewDocument(t)
  OBVIOUS
<1>3. PICK e : e = InvoiceEntry(t)
  OBVIOUS
<1>4. /\ t # Idle /\ t.type = "supplier_invoice" /\ t \in Poster /\ ~NumberEntered(t.number)
      /\ e \in Entry /\ StoresAs(w, t, e) /\ received' = received /\ stock' = stock
      /\ invoiced' \in [Lines -> Nat]
      /\ \A l \in Lines : invoiced'[l] = invoiced[l] + InvoicedBy(t, l) /\ InvoicedBy(t, l) \in Nat
  BY <1>1, <1>3 DEF InvoiceStored, GoodsStay
<1>5. t.entry = 0
  BY <1>1, <1>4, NotRepeated DEF Moves
<1>6. Appended(D) /\ D.type = t.type /\ D.amount = t.amount /\ D.qty = t.qty
  BY <1>1, <1>2, <1>4, StoreAppends
<1>7. entries' = Append(entries, e)
  BY <1>4, <1>5 DEF StoresAs
<1>8. e.inventory = 0 /\ e.grni = Worth(t.qty, Price) /\ e.payable = -t.amount
  BY <1>3, <1>4, InvoiceEntryType
<1>9. /\ received \in [Lines -> Nat] /\ invoiced \in [Lines -> Nat] /\ received' \in [Lines -> Nat]
      /\ stock \in State /\ t.qty \in Quantities
  BY <1>4, PosterFields DEF IInv, KindInv
<1>10. \A l \in Lines : invoiced'[l] - received'[l] = (invoiced[l] - received[l]) + Asked(t.qty, l)
  <2>1. \A l \in Lines : InvoicedBy(t, l) = Asked(t.qty, l)
    BY DEF InvoicedBy, Asked
  <2>2. QED
    BY <1>4, <1>9, <2>1
<1>11. /\ Awaited' = Awaited + Exact(t.qty) /\ Awaited \in Int /\ Exact(t.qty) \in Int
       /\ Within(Unit * e.grni - Exact(t.qty), Cardinality(Rounded(D.qty)))
  BY <1>4, <1>6, <1>8, <1>9, <1>10, AwaitedStep, WorthRounding
<1>12. stock'.value = stock.value + e.inventory /\ stock' \in State
  BY <1>4, <1>8, <1>9 DEF State
<1>13. e.payable = -Debt(D)
  BY <1>4, <1>6, <1>8 DEF Debt
<1>14. QED
  BY <1>4, <1>6, <1>7, <1>11, <1>12, <1>13, BooksStep

(* What awaits an invoice stays when neither counter changes.              *)
LEMMA AwaitedStays ==
    ASSUME received' = received, invoiced' = invoiced, IInv
    PROVE  Awaited' = Awaited /\ Awaited \in Int
<1>1. Awaited' = Awaited
  BY DEF Awaited, Total
<1>2. received \in [Lines -> Nat] /\ invoiced \in [Lines -> Nat]
  BY DEF IInv, KindInv
<1>3. Awaited \in Int
  BY <1>2, NothingAsked, AwaitedStep
<1>4. QED
  BY <1>1, <1>3

(* A debit note and a payment lessen the debt.                             *)
LEMMA SettlingBooks ==
    ASSUME IInv, KeysSound, SafeRetries, BooksTie, NEW w \in Workers, NEW e, SettlingStored(w, txn[w], e)
    PROVE  BooksTie'
<1>1. PICK t : t = txn[w]
  OBVIOUS
<1>2. PICK D : D = NewDocument(t)
  OBVIOUS
<1>3. /\ t # Idle /\ t.type \in Settling /\ t \in Poster /\ e \in {NoteEntry(t), PaymentEntry(t)}
      /\ StoresAs(w, t, e) /\ received' = received /\ stock' = stock /\ invoiced' = invoiced
  BY <1>1 DEF SettlingStored, GoodsStay
<1>4. t.type # "purchase_order" /\ t.type \notin Moves /\ t.type # "supplier_invoice"
  BY <1>3 DEF Settling, Moves
<1>5. t.entry = 0
  BY <1>1, <1>3, <1>4, NotRepeated
<1>6. e \in Entry /\ e.inventory = 0 /\ e.grni = 0 /\ e.payable = t.amount
  BY <1>3, SettlingEntryType
<1>7. Appended(D) /\ D.type = t.type /\ D.amount = t.amount
  BY <1>1, <1>2, <1>3, <1>4, <1>6, StoreAppends
<1>8. entries' = Append(entries, e)
  BY <1>3, <1>5 DEF StoresAs
<1>9. /\ Awaited' = Awaited + 0 /\ Awaited \in Int
      /\ Within(Unit * e.grni - 0, Cardinality(Rounded(D.qty)))
  BY <1>3, <1>6, <1>7, AwaitedStays, RoundingsStep, WithinAdds
<1>10. stock'.value = stock.value + e.inventory /\ stock' \in State
  BY <1>3, <1>6 DEF IInv, KindInv, State
<1>11. e.payable = -Debt(D)
  <2>1. t.amount \in Nat
    BY <1>3, PosterFields
  <2>2. QED
    BY <1>3, <1>4, <1>6, <1>7, <2>1 DEF Debt
<1>12. QED
  BY <1>6, <1>7, <1>8, <1>9, <1>10, <1>11, BooksStep

(* A stock issue takes its value from both.                                *)
LEMMA IssueBooks ==
    ASSUME IInv, BooksTie, NEW D, NEW c, Issued(D, c)
    PROVE  BooksTie'
<1>1. PICK e : e = IssueEntry(c)
  OBVIOUS
<1>2. /\ Appended(D) /\ D.type = "stock_issue" /\ entries' = Append(entries, e) /\ e \in Entry
      /\ c \in Int /\ stock' \in State /\ stock'.value = stock.value + c
      /\ received' = received /\ invoiced' = invoiced
  BY <1>1 DEF Issued
<1>3. e.inventory = c /\ e.grni = 0 /\ e.payable = 0
  BY <1>1 DEF IssueEntry
<1>4. /\ Awaited' = Awaited + 0 /\ Awaited \in Int
      /\ Within(Unit * e.grni - 0, Cardinality(Rounded(D.qty)))
  BY <1>2, <1>3, AwaitedStays, RoundingsStep, WithinAdds
<1>5. e.payable = -Debt(D)
  <2>1. Debt(D) \in Int /\ Debt(D) <= 0 /\ 0 <= Debt(D)
    BY <1>2 DEF Debt, Settling
  <2>2. -Debt(D) = 0
    BY <2>1, NothingOwed
  <2>3. QED
    BY <1>3, <2>2
<1>6. QED
  BY <1>2, <1>3, <1>4, <1>5, BooksStep

(* Every step keeps the books.                                             *)
LEMMA NextBooks ==
    ASSUME IInv, KeysSound, SafeRetries, BooksTie, [Next]_vars
    PROVE  BooksTie'
<1>1. CASE GoodsKept
  <2>1. received' = received /\ invoiced' = invoiced /\ documents' = documents /\ entries' = entries
        /\ stock' = stock
    BY <1>1 DEF GoodsKept
  <2>2. Grni' = Grni /\ Goods' = Goods /\ Payable' = Payable
    BY <2>1 DEF Grni, Goods, Payable, Total
  <2>3. Awaited' = Awaited /\ Roundings' = Roundings
    BY <2>1, AwaitedStays DEF Roundings, RoundedLines, Total
  <2>4. Ageing' = Ageing
    <3>1. \A i : Outstanding(i)' = Outstanding(i)
      BY <2>1 DEF Outstanding, Amount, Settled, NotesOf, PaymentsOf, OfType, Total
    <3>2. OfType("supplier_invoice")' = OfType("supplier_invoice")
          /\ OfType("supplier_payment")' = OfType("supplier_payment")
      BY <2>1 DEF OfType
    <3>3. Owed' = Owed
      BY <3>1, <3>2 DEF Owed, Total
    <3>4. OnAccount' = OnAccount
      BY <2>1, <3>2 DEF OnAccount, Total
    <3>5. QED
      BY <3>3, <3>4 DEF Ageing, Owed, OnAccount
  <2>5. QED
    BY <2>1, <2>2, <2>3, <2>4 DEF BooksTie
<1>2. ASSUME NEW w \in Workers, StoreReceipt(w) \/ StoreReturn(w) PROVE BooksTie'
  BY <1>2, ReceiptBooks, ReturnBooks
<1>3. ASSUME NEW w \in Workers, InvoiceStored(w, txn[w]) PROVE BooksTie'
  BY <1>3, InvoiceBooks
<1>4. ASSUME NEW w \in Workers, NEW e, SettlingStored(w, txn[w], e) PROVE BooksTie'
  BY <1>4, SettlingBooks
<1>5. ASSUME NEW D, NEW c, Issued(D, c) PROVE BooksTie'
  BY <1>5, IssueBooks
<1>6. StepCase
  BY StepCases
<1>7. QED
  BY <1>1, <1>2, <1>3, <1>4, <1>5, <1>6, CarryOn DEF StepCase

(* They tie at first.                                                      *)
LEMMA InitBooks == Init => KeysSound /\ BooksTie
<1> SUFFICES ASSUME Init PROVE KeysSound /\ BooksTie
  OBVIOUS
<1>1. /\ received = [l \in Lines |-> 0] /\ invoiced = [l \in Lines |-> 0] /\ stock = OpeningStock
      /\ documents = << >> /\ entries = << >> /\ txn = [w \in Workers |-> Idle]
  BY DEF Init
<1>2. KeysSound
  BY <1>1 DEF KeysSound, Posts
<1>3. Grni = 0 /\ Goods = 0 /\ Payable = 0
  <2>1. DOMAIN entries = {}
    BY <1>1
  <2>2. QED
    BY <2>1, SumEmpty DEF Grni, Goods, Payable, Total
<1>4. Ageing = 0
  <2>1. OfType("supplier_invoice") = {} /\ OfType("supplier_payment") = {}
    BY <1>1 DEF OfType
  <2>2. Owed = 0 /\ OnAccount = 0
    BY <2>1, SumEmpty DEF Owed, OnAccount, Total
  <2>3. Ageing = Owed - OnAccount
    BY DEF Ageing, Owed, OnAccount
  <2>4. QED
    BY <2>2, <2>3
<1>5. Awaited = 0
  <2> DEFINE f == [l \in Lines |-> (invoiced[l] - received[l]) * Price[l]]
  <2>1. IsFiniteSet(Lines) /\ \A l \in Lines : Price[l] \in Int
    BY PurchasingAssumption
  <2>2. \A l \in Lines : f[l] = 0
    <3>1. ASSUME NEW l \in Lines PROVE (invoiced[l] - received[l]) * Price[l] = 0
      <4>1. invoiced[l] - received[l] = 0
        BY <1>1
      <4>2. 0 * Price[l] = 0
        BY <2>1
      <4>3. QED
        BY <4>1, <4>2
    <3>2. QED
      BY <3>1
  <2>3. f \in [Lines -> Int]
    BY <2>2
  <2>4. Awaited = SumFunction(f)
    BY DEF Awaited, Total
  <2> HIDE DEF f
  <2>5. QED
    BY <2>1, <2>2, <2>3, <2>4, SumZero
<1>6. stock.value - OpeningStock.value = 0
  <2>1. OpeningStock.value \in Nat
    BY PurchasingAssumption DEF State
  <2>2. QED
    BY <1>1, <2>1
<1>7. Payable = -Ageing
  <2>1. Ageing \in Int /\ Ageing <= 0 /\ 0 <= Ageing
    BY <1>4
  <2>2. -Ageing = 0
    BY <2>1, NothingOwed
  <2>3. QED
    BY <1>3, <2>2
<1>8. Within(Unit * Grni - Awaited, Roundings) /\ Goods = stock.value - OpeningStock.value
  <2>1. DOMAIN documents = {}
    BY <1>1
  <2>2. Roundings = 0
    BY <2>1, SumEmpty DEF Roundings, Total
  <2>3. QED
    BY <1>3, <1>5, <1>6, <2>2, WithinAdds
<1>9. QED
  BY <1>2, <1>7, <1>8 DEF BooksTie

(* ... and always, if clients send again only what they sent.              *)
LEMMA BooksInvariance ==
    ASSUME SafeRetries
    PROVE  Spec => []BooksTie
<1>1. IInv /\ KeysSound /\ BooksTie /\ [Next]_vars => KeysSound' /\ BooksTie'
  BY NextKeys, NextBooks
<1>2. QED
  BY <1>1, InitBooks, Invariance, PTL DEF Spec

(* What is owed is a number.                                               *)
LEMMA AgeingType == ASSUME documents \in Seq(Document) PROVE Ageing \in Int
<1>1. ASSUME NEW i \in OfType("supplier_invoice") PROVE Outstanding(i) \in Int
  <2>1. Amount(i) \in Nat /\ Noted(i) \in Nat /\ Settled(i) \in Nat
    BY <1>1, FinitelyMany, SettledType DEF OfType
  <2>2. Outstanding(i) = Amount(i) - Settled(i) - Noted(i)
    BY DEF Outstanding, Noted
  <2>3. QED
    BY <2>1, <2>2
<1>2. Owed \in Int
  <2> DEFINE S == OfType("supplier_invoice")
             f == [i \in S |-> Outstanding(i)]
  <2>1. f \in [S -> Int]
    BY <1>1
  <2>2. IsFiniteSet(S)
    BY FinitelyMany DEF OfType
  <2>3. Owed = SumFunction(f)
    BY DEF Owed, Total
  <2> HIDE DEF f, S
  <2>4. QED
    BY <2>1, <2>2, <2>3, SumInt
<1>3. OnAccount \in Int
  <2> DEFINE S == OfType("supplier_payment")
             f == [d \in S |-> documents[d].amount - documents[d].share]
  <2>1. IsFiniteSet(S) /\ f \in [S -> Int]
    BY FinitelyMany DEF OfType, Amount
  <2>2. OnAccount = SumFunction(f)
    BY DEF OnAccount, Total
  <2> HIDE DEF f, S
  <2>3. QED
    BY <2>1, <2>2, SumInt
<1>4. Ageing = Owed - OnAccount
  BY DEF Ageing, Owed, OnAccount
<1>5. QED
  BY <1>2, <1>3, <1>4

(* The control accounts hold what the documents say: GRNI what was received
   and awaits its invoice at the order price, but for half the smallest
   amount on every document line that was rounded, and exactly if none was;
   Inventory what the stock row is worth, Payables what the ageing report
   says is owed; and no invoice is paid beyond its amount.  Whoever repeats a request repeats what it asked for, and only
   receipts, returns and invoices are repeated: a debit note or a payment
   that is sent again is stored again.                                     *)
THEOREM Accounts_match_the_documents ==
    ASSUME SafeRetries
    PROVE  Spec => []AccountsMatchTheDocuments
<1>1. ASSUME IInv, BooksTie, PaidAtMostOnce PROVE AccountsMatchTheDocuments
  <2>1. GrniIsWhatAwaitsInvoices
    BY <1>1 DEF BooksTie, Within, Grni, Awaited, Roundings, GrniIsWhatAwaitsInvoices
  <2>2. StockMatchesInventoryAccount
    BY <1>1 DEF BooksTie, Goods, StockMatchesInventoryAccount
  <2>3. PayablesMatchAgeing
    <3>1. Ageing \in Int
      <4>1. documents \in Seq(Document)
        BY <1>1 DEF IInv, KindInv
      <4>2. QED
        BY <4>1, AgeingType
    <3>2. Payable = -Ageing
      BY <1>1 DEF BooksTie
    <3>3. -Payable = Ageing
      BY <3>1, <3>2
    <3>4. QED
      BY <3>3 DEF Payable, PayablesMatchAgeing
  <2>4. QED
    BY <1>1, <2>1, <2>2, <2>3 DEF AccountsMatchTheDocuments
<1>2. QED
  BY <1>1, Invariance, BooksInvariance, Invoices_are_paid_once, PTL

=============================================================================
