-------------------------- MODULE ReceivablesProofs --------------------------
(***************************************************************************)
(* Theorems of Receivables, for any set of customers, orders, quotations,  *)
(* requests and workers.  What a stored document changes in every sum is   *)
(* computed once (Appended); the invariant says besides what a             *)
(* transaction has checked and locked, so that nothing that another one    *)
(* commits in the meantime can make its check stale.                       *)
(***************************************************************************)
EXTENDS Receivables, SumTheorems

-----------------------------------------------------------------------------
(* The kinds of the values *)

Shares == UNION {[I -> Nat \ {0}] : I \in SUBSET Nat}
Claims == UNION {[L -> Nat \ {0}] : L \in SUBSET OrderLines}
Statuses == {"NONE", "OPEN", "PARTIALLY_INVOICED", "INVOICED", "CANCELLED"}

Document ==
    [type : Types, customer : Customers, day : Days, amount : Nat \ {0}, of : Nat,
     settles : Shares, claims : Claims, goods : Nat, entry : Nat]
Entry == [key : Keys, type : Types, day : Days, receivable : Int, inventory : Int]
Request ==
    [pc : {"lock", "goods", "post", "store"}, type : Types, key : Keys, day : Days,
     amount : Nat \ {0}, customer : Customers, of : Nat, settles : Shares, claims : Claims,
     goods : Nat, cost : Nat, taken : BOOLEAN, entry : Nat]
Conversion ==
    [pc : {"convert"}, type : {"sales_order"}, key : {NoQuotation}, customer : Customers,
     of : Quotations, taken : {FALSE}]

KindInv ==
    /\ documents \in Seq(Document) /\ entries \in Seq(Entry)
    /\ invoiced \in [OrderLines -> Nat] /\ status \in [Orders -> Statuses]
    /\ quotation \in [Quotations -> {"NONE", "OPEN", "CONVERTED", "CLOSED"}]
    /\ stock \in State
    /\ txn \in [Workers -> Request \cup Conversion \cup {Idle}]

(* Documents name only invoices that were posted before them, of the same
   customer.                                                               *)
Follows(d, D) ==
    /\ IF D.type \in Notes
       THEN D.of \in Invoices /\ D.of < d /\ documents[D.of].customer = D.customer
       ELSE D.of = 0
    /\ \A i \in DOMAIN D.settles :
         /\ D.type = "customer_receipt"
         /\ i \in Invoices /\ i < d /\ documents[i].customer = D.customer

DocumentsInOrder == \A d \in DOMAIN documents : Follows(d, documents[d])
EntriesExist == \A d \in DOMAIN documents : documents[d].entry \in DOMAIN entries

(* The last day is after every document: nothing is cut off.              *)
LEMMA LastDayIsLast == LastDay \in Days /\ \A d \in Days : d <= LastDay
  BY ReceivablesAssumption DEF LastDay

(* With the last day as cut-off no document is left out.                 *)
LEMMA NothingCutOff ==
    ASSUME documents \in Seq(Document), NEW S, S \subseteq DOMAIN documents
    PROVE  UpTo(LastDay, S) = S
<1>1. ASSUME NEW i \in S PROVE documents[i].day <= LastDay
  <2>1. documents[i] \in Document
    OBVIOUS
  <2>2. QED
    BY <2>1, LastDayIsLast DEF Document
<1>2. QED
  BY <1>1 DEF UpTo

(* The sets of documents are finite, and their amounts positive.          *)
LEMMA FinitelyMany ==
    ASSUME documents \in Seq(Document)
    PROVE  /\ DOMAIN documents = 1 .. Len(documents) /\ Len(documents) \in Nat
           /\ IsFiniteSet(DOMAIN documents)
           /\ \A S \in SUBSET DOMAIN documents : IsFiniteSet(S)
           /\ \A i \in DOMAIN documents : documents[i] \in Document /\ Amount(i) \in Nat \ {0}
<1>1. DOMAIN documents = 1 .. Len(documents) /\ Len(documents) \in Nat
  OBVIOUS
<1>2. IsFiniteSet(DOMAIN documents)
  BY <1>1, FS_Interval
<1>3. \A S \in SUBSET DOMAIN documents : IsFiniteSet(S)
  BY <1>2, FS_Subset
<1>4. ASSUME NEW i \in DOMAIN documents
      PROVE  documents[i] \in Document /\ Amount(i) \in Nat \ {0}
  <2>1. documents[i] \in Document
    OBVIOUS
  <2>2. QED
    BY <2>1 DEF Amount, Document
<1>5. QED
  BY <1>1, <1>2, <1>3, <1>4

(* What a document settles is a finite sum of positive shares.            *)
LEMMA SharesType ==
    ASSUME NEW s \in Shares
    PROVE  \A i \in DOMAIN s : i \in Nat /\ s[i] \in Nat \ {0}
  BY DEF Shares

-----------------------------------------------------------------------------
(* What a document adds to the sums *)

(* `D` is appended to the documents.                                      *)
Appended(D) ==
    /\ documents \in Seq(Document) /\ DocumentsInOrder
    /\ D \in Document /\ Follows(Len(documents) + 1, D)
    /\ documents' = Append(documents, D)

(* The documents there were keep their places.                           *)
LEMMA AppendedDocuments ==
    ASSUME NEW D, Appended(D)
    PROVE  /\ documents' \in Seq(Document)
           /\ Len(documents') = Len(documents) + 1 /\ Len(documents) \in Nat
           /\ DOMAIN documents' = DOMAIN documents \cup {Len(documents) + 1}
           /\ DOMAIN documents = 1 .. Len(documents)
           /\ Len(documents) + 1 \notin DOMAIN documents
           /\ documents'[Len(documents) + 1] = D
           /\ \A i \in DOMAIN documents : documents'[i] = documents[i]
  BY DEF Appended

(* The notes of a type against an invoice, and what receipts took of it.  *)
Noted(type, i) == Total(Against(type, i), Amount)
Taken(i) == AllocatedTo(i, LastDay)
Settling(i) == {p \in Receipts : i \in DOMAIN documents[p].settles}

NoteOn(type, D, i) == IF D.type = type /\ D.of = i THEN D.amount ELSE 0
ShareIn(D, i) == IF i \in DOMAIN D.settles THEN D.settles[i] ELSE 0

(* Both are natural numbers, ...                                          *)
LEMMA NotedType ==
    ASSUME documents \in Seq(Document), NEW type, NEW i
    PROVE  Noted(type, i) \in Nat
<1>1. /\ Against(type, i) \subseteq DOMAIN documents /\ IsFiniteSet(Against(type, i))
      /\ [n \in Against(type, i) |-> Amount(n)] \in [Against(type, i) -> Nat]
  <2>1. Against(type, i) \subseteq DOMAIN documents
    BY DEF Against, OfType
  <2>2. QED
    BY <2>1, FinitelyMany
<1>2. SumFunction([n \in Against(type, i) |-> Amount(n)]) \in Nat
  BY <1>1, SumNat
<1>3. QED
  BY <1>2 DEF Noted, Total

TakenIsSum(i) ==
    /\ Taken(i) = SumFunction([p \in Settling(i) |-> documents[p].settles[i]])
    /\ Settling(i) \subseteq DOMAIN documents /\ IsFiniteSet(Settling(i))
    /\ \A p \in Settling(i) : documents[p].settles[i] \in Nat \ {0}
    /\ Taken(i) \in Nat

(* What receipts took of an invoice, as a sum over them, ...             *)
LEMMA TakenSum ==
    ASSUME documents \in Seq(Document), NEW i
    PROVE  TakenIsSum(i)
<1>1. Receipts \subseteq DOMAIN documents /\ Settling(i) \subseteq DOMAIN documents
  BY DEF Receipts, OfType, Settling
<1>2. Taken(i) = SumFunction([p \in Settling(i) |-> documents[p].settles[i]])
  <2>1. UpTo(LastDay, Receipts) = Receipts
    BY <1>1, NothingCutOff
  <2>2. QED
    BY <2>1 DEF Taken, AllocatedTo, Total, Settling
<1>3. \A p \in Settling(i) : documents[p].settles[i] \in Nat \ {0}
  <2>1. ASSUME NEW p \in Settling(i) PROVE documents[p].settles[i] \in Nat \ {0}
    <3>1. documents[p] \in Document /\ i \in DOMAIN documents[p].settles
      BY <1>1 DEF Settling
    <3>2. documents[p].settles \in Shares
      BY <3>1 DEF Document
    <3>3. QED
      BY <3>1, <3>2, SharesType
  <2>2. QED
    BY <2>1
<1>4. IsFiniteSet(Settling(i))
  BY <1>1, FinitelyMany
<1>5. SumFunction([p \in Settling(i) |-> documents[p].settles[i]]) \in Nat
  BY <1>3, <1>4, SumNat
<1>6. QED
  BY <1>1, <1>2, <1>3, <1>4, <1>5 DEF TakenIsSum

(* ... in every state, ...                                               *)
LEMMA TakenAlways == \A j : documents \in Seq(Document) => TakenIsSum(j)
  BY TakenSum

(* ... the next one included.                                            *)
LEMMA TakenSumNext ==
    ASSUME documents' \in Seq(Document), NEW i
    PROVE  TakenIsSum(i)'
<1>1. (\A j : documents \in Seq(Document) => TakenIsSum(j))'
  BY TakenAlways, PTL
<1>2. QED
  BY <1>1

(* ... nothing as long as the invoice is not there, ...                   *)
LEMMA NothingAhead ==
    ASSUME documents \in Seq(Document), DocumentsInOrder, NEW i, i \notin DOMAIN documents, i # 0,
           NEW type
    PROVE  Noted(type, i) = 0 /\ Taken(i) = 0
<1>1. ASSUME NEW d \in DOMAIN documents PROVE documents[d].of # i /\ i \notin DOMAIN documents[d].settles
  BY DEF DocumentsInOrder, Follows, Invoices, OfType
<1>2. Against(type, i) = {} /\ Settling(i) = {}
  BY <1>1 DEF Against, OfType, Settling, Receipts
<1>3. QED
  BY <1>2, TakenSum, SumEmpty DEF Noted, Total, TakenIsSum

(* ... and change by what the new document says of the invoice.           *)
LEMMA NotedStep ==
    ASSUME NEW D, Appended(D), NEW type, NEW i
    PROVE  Noted(type, i)' = Noted(type, i) + NoteOn(type, D, i)
<1> DEFINE n == Len(documents) + 1
           S == Against(type, i)
           T == S'
           f == [x \in S |-> documents[x].amount]
           g == [x \in T |-> documents'[x].amount]
<1>1. /\ S \subseteq DOMAIN documents /\ IsFiniteSet(S) /\ n \notin S
      /\ f \in [S -> Int] /\ \A x \in S : documents[x].amount \in Int
  <2>1. S \subseteq DOMAIN documents /\ documents \in Seq(Document)
    BY DEF Against, OfType, Appended
  <2>2. n \notin S
    BY <2>1, AppendedDocuments
  <2>3. \A x \in S : documents[x].amount \in Int
    BY <2>1, FinitelyMany DEF Amount
  <2>4. QED
    BY <2>1, <2>2, <2>3, FinitelyMany
<1>2. T = {x \in DOMAIN documents' : documents'[x].type = type /\ documents'[x].of = i}
  BY DEF Against, OfType
<1>3. /\ S \subseteq T /\ T \subseteq S \cup {n}
      /\ n \in T <=> D.type = type /\ D.of = i
  BY <1>2, AppendedDocuments DEF Against, OfType
<1>4. D.amount \in Int
  BY DEF Appended, Document
<1>5. g \in [T -> Int] /\ (n \in T => g[n] = D.amount) /\ \A x \in S : g[x] = f[x]
  BY <1>1, <1>3, <1>4, AppendedDocuments
<1>6. Noted(type, i) = SumFunction(f) /\ Noted(type, i)' = SumFunction(g)
  BY DEF Noted, Total, Amount
<1> HIDE DEF f, g, S, T, n
<1>7. SumFunction(g) = SumFunction(f) + (IF n \in T THEN g[n] ELSE 0)
  BY <1>1, <1>3, <1>5, SumExtend
<1>8. (IF n \in T THEN g[n] ELSE 0) = NoteOn(type, D, i)
  <2>1. CASE n \in T
    BY <2>1, <1>3, <1>5 DEF NoteOn
  <2>2. CASE n \notin T
    BY <2>2, <1>3 DEF NoteOn
  <2>3. QED
    BY <2>1, <2>2
<1>9. QED
  BY <1>6, <1>7, <1>8


(* What receipts took grows by the share of the new one.                 *)
LEMMA TakenStep ==
    ASSUME NEW D, Appended(D), NEW i
    PROVE  Taken(i)' = Taken(i) + ShareIn(D, i)
<1> DEFINE n == Len(documents) + 1
           S == Settling(i)
           T == S'
           f == [p \in S |-> documents[p].settles[i]]
           g == [p \in T |-> documents'[p].settles[i]]
<1>1. /\ documents \in Seq(Document) /\ documents' \in Seq(Document)
      /\ S \subseteq DOMAIN documents /\ IsFiniteSet(S) /\ n \notin S
      /\ f \in [S -> Int] /\ g \in [T -> Int]
      /\ Taken(i) = SumFunction(f)
  <2>1. documents \in Seq(Document) /\ documents' \in Seq(Document)
    BY AppendedDocuments DEF Appended
  <2>2. TakenIsSum(i) /\ TakenIsSum(i)'
    BY <2>1, TakenSum, TakenSumNext
  <2>3. S \subseteq DOMAIN documents /\ n \notin S
    BY <2>2, AppendedDocuments DEF TakenIsSum
  <2>4. QED
    BY <2>1, <2>2, <2>3 DEF TakenIsSum
<1>2. T = {p \in DOMAIN documents' : documents'[p].type = "customer_receipt"
                                       /\ i \in DOMAIN documents'[p].settles}
  BY DEF Settling, Receipts, OfType
<1>3. /\ S \subseteq T /\ T \subseteq S \cup {n}
      /\ n \in T <=> i \in DOMAIN D.settles
  <2>1. i \in DOMAIN D.settles => D.type = "customer_receipt"
    BY DEF Appended, Follows
  <2>2. QED
    BY <1>2, <2>1, AppendedDocuments DEF Settling, Receipts, OfType
<1>5. (n \in T => g[n] = D.settles[i]) /\ \A p \in S : g[p] = f[p]
  BY <1>1, <1>3, AppendedDocuments
<1>6. Taken(i)' = SumFunction(g)
  BY <1>1, TakenSumNext DEF TakenIsSum
<1> HIDE DEF f, g, S, T, n
<1>7. SumFunction(g) = SumFunction(f) + (IF n \in T THEN g[n] ELSE 0)
  <2>1. IsFiniteSet(S) /\ n \notin S /\ f \in [S -> Int] /\ g \in [T -> Int]
    BY <1>1
  <2>2. S \subseteq T /\ T \subseteq S \cup {n} /\ \A p \in S : g[p] = f[p]
    BY <1>3, <1>5
  <2>3. QED
    BY <2>1, <2>2, SumExtend
<1>8. (IF n \in T THEN g[n] ELSE 0) = ShareIn(D, i)
  <2>1. CASE n \in T
    BY <2>1, <1>3, <1>5 DEF ShareIn
  <2>2. CASE n \notin T
    BY <2>2, <1>3 DEF ShareIn
  <2>3. QED
    BY <2>1, <2>2
<1>9. QED
  BY <1>1, <1>6, <1>7, <1>8


(* What an invoice still owes, and what the document changes of it.       *)
Due(i) == Outstanding(i, LastDay)
DueChange(D, i) ==
    NoteOn("sales_debit_note", D, i) - NoteOn("sales_credit_note", D, i) - ShareIn(D, i)

DueIs(i) ==
    /\ Due(i) = documents[i].amount - Taken(i) - Noted("sales_credit_note", i)
                  + Noted("sales_debit_note", i)
    /\ documents[i].amount \in Nat \ {0} /\ Taken(i) \in Nat
    /\ Noted("sales_credit_note", i) \in Nat /\ Noted("sales_debit_note", i) \in Nat

(* The four amounts that what is due consists of.                        *)
LEMMA DueSum ==
    \A i : documents \in Seq(Document) /\ i \in DOMAIN documents => DueIs(i)
<1> SUFFICES ASSUME documents \in Seq(Document), NEW i \in DOMAIN documents
             PROVE  DueIs(i)
  OBVIOUS
<1>1. \A type : UpTo(LastDay, Against(type, i)) = Against(type, i)
  <2>1. \A type : Against(type, i) \subseteq DOMAIN documents
    BY DEF Against, OfType
  <2>2. QED
    BY <2>1, NothingCutOff
<1>2. Due(i) = documents[i].amount - Taken(i) - Noted("sales_credit_note", i)
                 + Noted("sales_debit_note", i)
  BY <1>1 DEF Due, Outstanding, Amount, Taken, Noted
<1>3. documents[i].amount \in Nat \ {0}
  BY FinitelyMany DEF Amount
<1>4. QED
  BY <1>2, <1>3, NotedType, TakenSum DEF DueIs, TakenIsSum

(* The same of the next state.                                           *)
LEMMA DueNext == ASSUME documents' \in Seq(Document) PROVE \A j \in DOMAIN documents' : DueIs(j)'
<1>1. (\A i : documents \in Seq(Document) /\ i \in DOMAIN documents => DueIs(i))'
  BY DueSum, PTL
<1>2. QED
  BY <1>1

(* What is due changes by what the new document says; a new invoice is
   due in full.                                                          *)
LEMMA DueStep ==
    ASSUME NEW D, Appended(D), NEW n, n = Len(documents) + 1
    PROVE  /\ \A i \in DOMAIN documents :
                /\ Due(i) \in Int /\ DueChange(D, i) \in Int
                /\ Due(i)' = Due(i) + DueChange(D, i)
           /\ Due(n)' = D.amount
<1>1. (\A i : documents \in Seq(Document) /\ i \in DOMAIN documents => DueIs(i))'
  BY DueSum, PTL
<1>2. documents \in Seq(Document) /\ documents' \in Seq(Document) /\ DocumentsInOrder
  BY AppendedDocuments DEF Appended
<1>3. \A i \in DOMAIN documents : DueIs(i)
  BY <1>2, DueSum
<1>4. \A i \in DOMAIN documents \cup {n} : DueIs(i)'
  BY <1>1, <1>2, AppendedDocuments
<1>5. /\ \A i \in DOMAIN documents : documents'[i].amount = documents[i].amount
      /\ documents'[n].amount = D.amount
  BY AppendedDocuments
<1>6. \A i : /\ Taken(i)' = Taken(i) + ShareIn(D, i)
             /\ Noted("sales_credit_note", i)' = Noted("sales_credit_note", i)
                                                   + NoteOn("sales_credit_note", D, i)
             /\ Noted("sales_debit_note", i)' = Noted("sales_debit_note", i)
                                                  + NoteOn("sales_debit_note", D, i)
  BY TakenStep, NotedStep
<1>7. \A i : NoteOn("sales_credit_note", D, i) \in Nat /\ NoteOn("sales_debit_note", D, i) \in Nat
             /\ ShareIn(D, i) \in Nat
  <2>1. D.amount \in Nat /\ D.settles \in Shares
    BY DEF Appended, Document
  <2>2. QED
    BY <2>1, SharesType DEF NoteOn, ShareIn
<1>8. ASSUME NEW i \in DOMAIN documents
      PROVE  /\ Due(i) \in Int /\ DueChange(D, i) \in Int
             /\ Due(i)' = Due(i) + DueChange(D, i)
  <2>1. /\ DueIs(i) /\ DueIs(i)' /\ documents'[i].amount = documents[i].amount
    BY <1>3, <1>4, <1>5
  <2>2. /\ Taken(i)' = Taken(i) + ShareIn(D, i)
        /\ Noted("sales_credit_note", i)' = Noted("sales_credit_note", i)
                                              + NoteOn("sales_credit_note", D, i)
        /\ Noted("sales_debit_note", i)' = Noted("sales_debit_note", i)
                                             + NoteOn("sales_debit_note", D, i)
    BY <1>6
  <2>3. NoteOn("sales_credit_note", D, i) \in Nat /\ NoteOn("sales_debit_note", D, i) \in Nat
        /\ ShareIn(D, i) \in Nat
    BY <1>7
  <2>4. DueChange(D, i) \in Int
    BY <2>3 DEF DueChange
  <2>5. Due(i)' = documents[i].amount - (Taken(i) + ShareIn(D, i))
                    - (Noted("sales_credit_note", i) + NoteOn("sales_credit_note", D, i))
                    + (Noted("sales_debit_note", i) + NoteOn("sales_debit_note", D, i))
    BY <2>1, <2>2 DEF DueIs
  <2>6. /\ Due(i) = documents[i].amount - Taken(i) - Noted("sales_credit_note", i)
                      + Noted("sales_debit_note", i)
        /\ documents[i].amount \in Nat /\ Taken(i) \in Nat
        /\ Noted("sales_credit_note", i) \in Nat /\ Noted("sales_debit_note", i) \in Nat
    BY <2>1 DEF DueIs
  <2>7. \A a, t, c, d, s, k, e \in Int :
          a - (t + s) - (c + k) + (d + e) = (a - t - c + d) + (e - k - s)
    OBVIOUS
  <2>8. Due(i) \in Int
    BY <2>6
  <2>9. DueChange(D, i) = NoteOn("sales_debit_note", D, i)
                            - NoteOn("sales_credit_note", D, i) - ShareIn(D, i)
    BY DEF DueChange
  <2>10. Due(i)' = Due(i) + (NoteOn("sales_debit_note", D, i)
                            - NoteOn("sales_credit_note", D, i) - ShareIn(D, i))
    BY <2>3, <2>5, <2>6, <2>7
  <2>11. Due(i)' = Due(i) + DueChange(D, i)
    BY <2>9, <2>10, Zenon
  <2>12. QED
    BY <2>4, <2>8, <2>11
<1>9. Due(n)' = D.amount
  <2>1. /\ Taken(n) = 0
        /\ Noted("sales_credit_note", n) = 0 /\ Noted("sales_debit_note", n) = 0
    <3>1. n \notin DOMAIN documents /\ n # 0
      BY AppendedDocuments
    <3>2. QED
      BY <1>2, <3>1, NothingAhead
  <2>2. /\ NoteOn("sales_credit_note", D, n) = 0 /\ NoteOn("sales_debit_note", D, n) = 0
        /\ ShareIn(D, n) = 0
    <3>1. D.of # n /\ n \notin DOMAIN D.settles
      <4>1. Len(documents) \in Nat
        BY AppendedDocuments
      <4>2. D.of \in Nat /\ D.of # n
        BY <4>1 DEF Appended, Follows, Document
      <4>3. n \notin DOMAIN D.settles
        BY <4>1 DEF Appended, Follows
      <4>4. QED
        BY <4>2, <4>3
    <3>2. QED
      BY <3>1 DEF NoteOn, ShareIn
  <2>3. DueIs(n)'
    BY <1>4
  <2>4. QED
    BY <1>5, <1>6, <2>1, <2>2, <2>3 DEF DueIs
<1>10. QED
  BY <1>8, <1>9


-----------------------------------------------------------------------------
(* What a document adds to the ageing report and to the statements *)

PartyReceipts(c) == {p \in Receipts : documents[p].customer = c}
OpenOf(c) == Total(PartyInvoices(c), Due)
OnAccount(c) == Total(PartyReceipts(c), LAMBDA p : Amount(p) - SettledBy(p))

(* The balance a document changes, and by how much.                       *)
Effect(D) == IF D.type \in {"sales_invoice", "sales_debit_note"} THEN D.amount ELSE -D.amount
EffectOn(c, D) == IF D.customer = c THEN Effect(D) ELSE 0

(* What a receipt settles in all.                                         *)
SharesOf(D) == SumFunction([i \in DOMAIN D.settles |-> D.settles[i]])

AgeingIsSum(c) == Ageing(c, LastDay) = OpenOf(c) - OnAccount(c)

(* A row of the ageing report: what is due less what is on account.      *)
LEMMA AgeingSum == \A b : documents \in Seq(Document) => AgeingIsSum(b)
<1> SUFFICES ASSUME documents \in Seq(Document), NEW c
             PROVE  AgeingIsSum(c)
  OBVIOUS
<1>1. UpTo(LastDay, Invoices) = Invoices /\ UpTo(LastDay, Receipts) = Receipts
  <2>1. Invoices \subseteq DOMAIN documents /\ Receipts \subseteq DOMAIN documents
    BY DEF Invoices, Receipts, OfType
  <2>2. QED
    BY <2>1, NothingCutOff
<1>2. QED
  BY <1>1 DEF Ageing, OpenOf, OnAccount, PartyInvoices, PartyReceipts, Total, Due, AgeingIsSum

(* Only the parties' own documents count.                                 *)
LEMMA PartySets ==
    ASSUME NEW D, Appended(D), NEW n, n = Len(documents) + 1, NEW c
    PROVE  /\ PartyInvoices(c) \subseteq DOMAIN documents /\ IsFiniteSet(PartyInvoices(c))
           /\ PartyReceipts(c) \subseteq DOMAIN documents /\ IsFiniteSet(PartyReceipts(c))
           /\ PartyInvoices(c)' = PartyInvoices(c) \cup
                (IF D.type = "sales_invoice" /\ D.customer = c THEN {n} ELSE {})
           /\ PartyReceipts(c)' = PartyReceipts(c) \cup
                (IF D.type = "customer_receipt" /\ D.customer = c THEN {n} ELSE {})
           /\ n \notin DOMAIN documents
<1>1. documents \in Seq(Document)
  BY DEF Appended
<1>2. PartyInvoices(c) \subseteq DOMAIN documents /\ PartyReceipts(c) \subseteq DOMAIN documents
  BY DEF PartyInvoices, PartyReceipts, Invoices, Receipts, OfType
<1>3. PartyInvoices(c)' = PartyInvoices(c) \cup
                (IF D.type = "sales_invoice" /\ D.customer = c THEN {n} ELSE {})
  BY AppendedDocuments DEF PartyInvoices, Invoices, OfType
<1>4. PartyReceipts(c)' = PartyReceipts(c) \cup
                (IF D.type = "customer_receipt" /\ D.customer = c THEN {n} ELSE {})
  BY AppendedDocuments DEF PartyReceipts, Receipts, OfType
<1>5. QED
  BY <1>1, <1>2, <1>3, <1>4, FinitelyMany, AppendedDocuments

(* What the open invoices of a customer add up to.                        *)
OpenEffect(c, D) ==
    IF D.customer # c THEN 0
    ELSE IF D.type = "customer_receipt" THEN -SharesOf(D) ELSE Effect(D)

(* The shares of a new receipt are finitely many and positive.           *)
LEMMA SharesFinite ==
    ASSUME NEW D, Appended(D)
    PROVE  /\ DOMAIN D.settles \subseteq DOMAIN documents /\ IsFiniteSet(DOMAIN D.settles)
           /\ \A i \in DOMAIN D.settles : D.settles[i] \in Nat \ {0}
           /\ SharesOf(D) \in Nat
<1>1. documents \in Seq(Document) /\ D.settles \in Shares
  BY DEF Appended, Document
<1>2. DOMAIN D.settles \subseteq DOMAIN documents
  BY DEF Appended, Follows, Invoices, OfType
<1>3. IsFiniteSet(DOMAIN D.settles)
  BY <1>1, <1>2, FinitelyMany
<1>4. \A i \in DOMAIN D.settles : D.settles[i] \in Nat \ {0}
  BY <1>1, SharesType
<1>5. [i \in DOMAIN D.settles |-> D.settles[i]] \in [DOMAIN D.settles -> Nat]
  BY <1>4
<1>6. QED
  BY <1>2, <1>3, <1>4, <1>5, SumNat DEF SharesOf

(* What a customer's open invoices add up to changes by what the
   document is worth, or by what a receipt settles.                      *)
LEMMA OpenStep ==
    ASSUME NEW D, Appended(D), NEW c
    PROVE  OpenOf(c)' = OpenOf(c) + OpenEffect(c, D) /\ OpenOf(c) \in Int
<1>1. PICK n : n = Len(documents) + 1
  OBVIOUS
<1> DEFINE S == PartyInvoices(c)
           T == PartyInvoices(c)'
           f == [i \in S |-> Due(i)]
           g == [i \in T |-> Due(i)']
<1>2. /\ S \subseteq DOMAIN documents /\ IsFiniteSet(S) /\ n \notin S
      /\ T = S \cup (IF D.type = "sales_invoice" /\ D.customer = c THEN {n} ELSE {})
  BY <1>1, PartySets
<1>3. /\ \A i \in S : Due(i) \in Int /\ DueChange(D, i) \in Int
                        /\ Due(i)' = Due(i) + DueChange(D, i)
      /\ Due(n)' = D.amount
  BY <1>1, <1>2, DueStep
<1>4. D.amount \in Nat \ {0} /\ D.type \in Types
  BY DEF Appended, Document
<1>5. OpenOf(c) = SumFunction(f) /\ OpenOf(c)' = SumFunction(g)
  BY DEF OpenOf, Total
<1>6. f \in [S -> Int] /\ g \in [T -> Int]
  <2>1. \A i \in T : Due(i)' \in Int
    BY <1>2, <1>3, <1>4
  <2>2. QED
    BY <2>1, <1>3
<1>7. SumFunction(f) \in Int
  <2> HIDE DEF f, S
  <2>1. QED
    BY <1>2, <1>6, SumInt
<1>8. \A i \in S : documents[i].customer = c /\ documents[i].type = "sales_invoice" /\ i # 0
  <2>1. DOMAIN documents = 1 .. Len(documents)
    BY AppendedDocuments
  <2>2. QED
    BY <2>1, <1>2 DEF PartyInvoices, Invoices, OfType
<1>9. \A i \in S : D.customer # c => DueChange(D, i) = 0
  <2>1. ASSUME NEW i \in S, D.customer # c PROVE DueChange(D, i) = 0
    <3>1. i \notin DOMAIN D.settles /\ (D.type \in Notes => D.of # i) /\ (D.type \notin Notes => D.of = 0)
      BY <1>8, <2>1 DEF Appended, Follows
    <3>2. ShareIn(D, i) = 0
      BY <3>1 DEF ShareIn
    <3>3. NoteOn("sales_debit_note", D, i) = 0 /\ NoteOn("sales_credit_note", D, i) = 0
      BY <3>1, <1>8 DEF NoteOn, Notes
    <3>4. QED
      BY <3>2, <3>3 DEF DueChange
  <2>2. QED
    BY <2>1
<1>10. CASE D.customer # c
  <2>1. T = S /\ \A i \in S : Due(i)' = Due(i)
    BY <1>10, <1>2, <1>3, <1>9
  <2>2. g = f
    BY <2>1
  <2>3. QED
    BY <2>2, <1>5, <1>7, <1>10 DEF OpenEffect
<1>11. CASE D.customer = c /\ D.type = "sales_invoice"
  <2>1. \A i \in S : Due(i)' = Due(i)
    <3>1. ASSUME NEW i \in S PROVE DueChange(D, i) = 0
      <4>1. i \notin DOMAIN D.settles
        BY <1>11 DEF Appended, Follows
      <4>2. QED
        BY <4>1, <1>11 DEF DueChange, NoteOn, ShareIn
    <3>2. QED
      BY <3>1, <1>3
  <2>2. T = S \cup {n} /\ g[n] = D.amount /\ \A i \in S : g[i] = f[i]
    BY <2>1, <1>11, <1>2, <1>3
  <2> HIDE DEF f, g, S, T
  <2>3. g \in [S \cup {n} -> Int]
    BY <2>2, <1>6
  <2>4. SumFunction(g) = SumFunction(f) + D.amount
    BY <2>2, <2>3, <1>2, <1>6, SumInsert
  <2>5. OpenEffect(c, D) = D.amount
    BY <1>11 DEF OpenEffect, Effect
  <2>6. QED
    BY <2>4, <2>5, <1>5, <1>7
<1>12. CASE D.customer = c /\ D.type \in Notes
  <2>1. D.of \in S /\ DOMAIN D.settles = {} /\ T = S /\ D.type # "sales_invoice"
        /\ D.type # "customer_receipt"
    <3>1. D.type # "sales_invoice" /\ D.type # "customer_receipt"
      BY <1>12 DEF Notes
    <3>2. DOMAIN D.settles = {}
      BY <3>1 DEF Appended, Follows
    <3>3. D.of \in S
      BY <1>12 DEF Appended, Follows, PartyInvoices
    <3>4. T = S
      BY <3>1, <1>2
    <3>5. QED
      BY <3>1, <3>2, <3>3, <3>4
  <2>2. \A i \in S : DueChange(D, i) = IF i = D.of THEN Effect(D) ELSE 0
    <3>1. ASSUME NEW i \in S PROVE DueChange(D, i) = IF i = D.of THEN Effect(D) ELSE 0
      <4>1. ShareIn(D, i) = 0
        BY <2>1 DEF ShareIn
      <4>2. CASE D.type = "sales_credit_note"
        BY <4>1, <4>2, <1>4 DEF DueChange, NoteOn, Effect
      <4>3. CASE D.type = "sales_debit_note"
        BY <4>1, <4>3, <1>4 DEF DueChange, NoteOn, Effect
      <4>4. QED
        BY <4>2, <4>3, <1>12 DEF Notes
    <3>2. QED
      BY <3>1
  <2>3. g \in [S -> Int] /\ \A i \in S \ {D.of} : g[i] = f[i]
    BY <2>1, <2>2, <1>3, <1>6
  <2>4. f[D.of] \in Int /\ Effect(D) \in Int /\ g[D.of] = f[D.of] + Effect(D)
    BY <2>1, <2>2, <1>3, <1>4 DEF Effect
  <2>5. OpenEffect(c, D) = Effect(D)
    BY <2>1, <1>12 DEF OpenEffect
  <2> HIDE DEF f, g, S, T
  <2>6. SumFunction(g) = SumFunction(f) - f[D.of] + g[D.of]
    BY <2>1, <2>3, <1>2, <1>6, SumChange
  <2>7. QED
    BY <2>4, <2>5, <2>6, <1>5, <1>7
<1>13. CASE D.customer = c /\ D.type = "customer_receipt"
  <2> DEFINE h == [i \in S |-> ShareIn(D, i)]
             k == [i \in DOMAIN D.settles |-> D.settles[i]]
  <2>1. DOMAIN D.settles \subseteq S
    BY <1>13 DEF Appended, Follows, PartyInvoices
  <2>2. T = S /\ \A i \in S : DueChange(D, i) = -ShareIn(D, i) /\ ShareIn(D, i) \in Int
    <3>1. \A i \in S : ShareIn(D, i) \in Int
      BY SharesFinite DEF ShareIn
    <3>2. \A i \in S : NoteOn("sales_debit_note", D, i) = 0 /\ NoteOn("sales_credit_note", D, i) = 0
      BY <1>13 DEF NoteOn
    <3>3. QED
      BY <3>1, <3>2, <1>13, <1>2 DEF DueChange
  <2>3. g \in [S -> Int] /\ h \in [S -> Int] /\ \A i \in S : f[i] = g[i] + h[i]
    BY <2>2, <1>3, <1>6
  <2>4. /\ k \in [DOMAIN D.settles -> Int]
        /\ \A i \in DOMAIN D.settles : h[i] = k[i]
        /\ \A i \in S \ DOMAIN D.settles : h[i] = 0
    BY <2>1, SharesFinite DEF ShareIn
  <2>5. SharesOf(D) = SumFunction(k) /\ SharesOf(D) \in Int
    BY SharesFinite DEF SharesOf
  <2> HIDE DEF f, g, h, k, S, T
  <2>6. SumFunction(f) = SumFunction(g) + SumFunction(h)
    BY <2>3, <1>2, <1>6, SumPlus
  <2>7. SumFunction(h) = SumFunction(k)
    BY <2>1, <2>3, <2>4, <1>2, SumSupport
  <2>8. SumFunction(g) \in Int
    BY <2>3, <1>2, SumInt
  <2>9. OpenEffect(c, D) = -SharesOf(D)
    BY <1>13 DEF OpenEffect
  <2>10. SumFunction(g) = SumFunction(f) + (-SharesOf(D))
    BY <2>5, <2>6, <2>7, <2>8
  <2>11. QED
    BY <2>9, <2>10, <1>5, <1>7
<1>14. QED
  BY <1>4, <1>10, <1>11, <1>12, <1>13 DEF Types


(* What receipts left on account.                                         *)
AccountEffect(c, D) ==
    IF D.type = "customer_receipt" /\ D.customer = c THEN D.amount - SharesOf(D) ELSE 0

(* What a stored receipt settles in all.                                 *)
LEMMA SettledByType ==
    ASSUME documents \in Seq(Document), DocumentsInOrder, NEW p \in DOMAIN documents
    PROVE  SettledBy(p) = SharesOf(documents[p]) /\ SettledBy(p) \in Nat
<1>1. documents[p] \in Document
  BY FinitelyMany
<1>2. documents[p].settles \in Shares
  BY <1>1 DEF Document
<1>3. DOMAIN documents[p].settles \subseteq DOMAIN documents
  BY DEF DocumentsInOrder, Follows, Invoices, OfType
<1>4. IsFiniteSet(DOMAIN documents[p].settles)
  BY <1>3, FinitelyMany
<1>5. [i \in DOMAIN documents[p].settles |-> documents[p].settles[i]]
        \in [DOMAIN documents[p].settles -> Nat]
  BY <1>2, SharesType
<1>6. SharesOf(documents[p]) \in Nat
  BY <1>4, <1>5, SumNat DEF SharesOf
<1>7. SettledBy(p) = SharesOf(documents[p])
  BY DEF SettledBy, Total, SharesOf
<1>8. QED
  BY <1>6, <1>7

(* What is on account grows by what a receipt does not settle.           *)
LEMMA AccountStep ==
    ASSUME NEW D, Appended(D), NEW c
    PROVE  OnAccount(c)' = OnAccount(c) + AccountEffect(c, D) /\ OnAccount(c) \in Int
<1>1. PICK n : n = Len(documents) + 1
  OBVIOUS
<1> DEFINE S == PartyReceipts(c)
           T == PartyReceipts(c)'
           f == [p \in S |-> documents[p].amount - SharesOf(documents[p])]
           g == [p \in T |-> documents'[p].amount - SharesOf(documents'[p])]
<1>2. /\ S \subseteq DOMAIN documents /\ IsFiniteSet(S) /\ n \notin S
      /\ T = S \cup (IF D.type = "customer_receipt" /\ D.customer = c THEN {n} ELSE {})
  BY <1>1, PartySets
<1>3. /\ \A p \in S : documents'[p] = documents[p]
      /\ documents'[n] = D
  BY <1>1, <1>2, AppendedDocuments
<1>4. D.amount \in Int /\ SharesOf(D) \in Int
  <2>1. D.amount \in Int
    BY DEF Appended, Document
  <2>2. SharesOf(D) \in Nat
    BY SharesFinite
  <2>3. QED
    BY <2>1, <2>2
<1>5. documents \in Seq(Document) /\ DocumentsInOrder
  BY DEF Appended
<1>6. \A p \in S : documents[p].amount \in Int /\ SharesOf(documents[p]) \in Int
                     /\ SettledBy(p) = SharesOf(documents[p])
  <2>1. ASSUME NEW p \in S
        PROVE  documents[p].amount \in Int /\ SharesOf(documents[p]) \in Int
                 /\ SettledBy(p) = SharesOf(documents[p])
    <3>1. p \in DOMAIN documents
      BY <1>2
    <3>2. SettledBy(p) = SharesOf(documents[p]) /\ SettledBy(p) \in Int
      BY <3>1, <1>5, SettledByType
    <3>3. documents[p].amount \in Int
      BY <3>1, <1>5, FinitelyMany DEF Amount
    <3>4. QED
      BY <3>2, <3>3
  <2>2. QED
    BY <2>1
<1>7. OnAccount(c) = SumFunction(f)
  <2>1. f = [p \in S |-> Amount(p) - SettledBy(p)]
    BY <1>6 DEF Amount
  <2>2. QED
    BY <2>1 DEF OnAccount, Total
<1>8. OnAccount(c)' = SumFunction(g)
  BY DEF OnAccount, Total, SettledBy, Amount, SharesOf
<1>9. f \in [S -> Int] /\ g \in [T -> Int]
  <2>1. \A p \in T : documents'[p].amount - SharesOf(documents'[p]) \in Int
    BY <1>2, <1>3, <1>4, <1>6
  <2>2. QED
    BY <2>1, <1>6
<1>10. (n \in T => g[n] = D.amount - SharesOf(D)) /\ \A p \in S : g[p] = f[p]
  BY <1>2, <1>3
<1>11. n \in T <=> D.type = "customer_receipt" /\ D.customer = c
  BY <1>2
<1>12. S \subseteq T /\ T \subseteq S \cup {n}
  BY <1>2
<1> HIDE DEF f, g, S, T
<1>13. SumFunction(g) = SumFunction(f) + (IF n \in T THEN g[n] ELSE 0) /\ SumFunction(f) \in Int
  BY <1>2, <1>9, <1>10, <1>12, SumExtend, SumInt
<1>14. (IF n \in T THEN g[n] ELSE 0) = AccountEffect(c, D)
  <2>1. CASE n \in T
    BY <2>1, <1>10, <1>11 DEF AccountEffect
  <2>2. CASE n \notin T
    BY <2>2, <1>11 DEF AccountEffect
  <2>3. QED
    BY <2>1, <2>2
<1>15. QED
  BY <1>7, <1>8, <1>13, <1>14

(* The ageing report changes by what the document is worth, ...           *)
LEMMA AgeingStep ==
    ASSUME NEW D, Appended(D), NEW c
    PROVE  /\ Ageing(c, LastDay)' = Ageing(c, LastDay) + EffectOn(c, D)
           /\ Ageing(c, LastDay) \in Int /\ EffectOn(c, D) \in Int
<1>1. documents \in Seq(Document) /\ documents' \in Seq(Document)
  BY AppendedDocuments DEF Appended
<1>2. Ageing(c, LastDay) = OpenOf(c) - OnAccount(c)
  BY <1>1, AgeingSum DEF AgeingIsSum
<1>3. Ageing(c, LastDay)' = OpenOf(c)' - OnAccount(c)'
  <2>1. (\A b : documents \in Seq(Document) => AgeingIsSum(b))'
    BY AgeingSum, PTL
  <2>2. QED
    BY <1>1, <2>1 DEF AgeingIsSum
<1>4. /\ OpenOf(c)' = OpenOf(c) + OpenEffect(c, D) /\ OpenOf(c) \in Int
      /\ OnAccount(c)' = OnAccount(c) + AccountEffect(c, D) /\ OnAccount(c) \in Int
  BY OpenStep, AccountStep
<1>5. D.amount \in Nat \ {0} /\ D.type \in Types /\ SharesOf(D) \in Nat
  BY SharesFinite DEF Appended, Document
<1>6. /\ EffectOn(c, D) = OpenEffect(c, D) - AccountEffect(c, D)
      /\ EffectOn(c, D) \in Int /\ OpenEffect(c, D) \in Int /\ AccountEffect(c, D) \in Int
  BY <1>5 DEF EffectOn, OpenEffect, AccountEffect, Effect, Types, Notes
<1>7. QED
  BY <1>2, <1>3, <1>4, <1>6

(* ... and so does the statement.                                         *)
Bills == {"sales_invoice", "sales_debit_note"}
Payments == {"sales_credit_note", "customer_receipt"}
PartyBills(c, kinds) == {i \in DOMAIN documents : documents[i].type \in kinds /\ documents[i].customer = c}
Billed(c, kinds) == Total(PartyBills(c, kinds), Amount)

StatementIsSum(c) == Statement(c, LastDay) = Billed(c, Bills) - Billed(c, Payments)

(* The closing balance: bills less payments.                             *)
LEMMA StatementSum == \A b : documents \in Seq(Document) => StatementIsSum(b)
<1> SUFFICES ASSUME documents \in Seq(Document), NEW c
             PROVE  StatementIsSum(c)
  OBVIOUS
<1>1. \A type : UpTo(LastDay, OfType(type)) = OfType(type)
  <2>1. \A type : OfType(type) \subseteq DOMAIN documents
    BY DEF OfType
  <2>2. QED
    BY <2>1, NothingCutOff
<1> DEFINE mine(type) == {i \in OfType(type) : documents[i].customer = c}
<1>2. Statement(c, LastDay) = Total(mine("sales_invoice") \cup mine("sales_debit_note"), Amount)
         - Total(mine("sales_credit_note") \cup mine("customer_receipt"), Amount)
  BY <1>1 DEF Statement, Total
<1>3. /\ mine("sales_invoice") \cup mine("sales_debit_note") = PartyBills(c, Bills)
      /\ mine("sales_credit_note") \cup mine("customer_receipt") = PartyBills(c, Payments)
  BY DEF PartyBills, Bills, Payments, OfType
<1>4. QED
  BY <1>2, <1>3 DEF Billed, StatementIsSum

(* Bills, or payments, grow by the amount of the new document.           *)
LEMMA BilledStep ==
    ASSUME NEW D, Appended(D), NEW c, NEW kinds
    PROVE  /\ Billed(c, kinds)' = Billed(c, kinds) +
                (IF D.type \in kinds /\ D.customer = c THEN D.amount ELSE 0)
           /\ Billed(c, kinds) \in Int
<1>1. PICK n : n = Len(documents) + 1
  OBVIOUS
<1> DEFINE S == PartyBills(c, kinds)
           T == PartyBills(c, kinds)'
           f == [p \in S |-> documents[p].amount]
           g == [p \in T |-> documents'[p].amount]
<1>2. /\ S \subseteq DOMAIN documents /\ IsFiniteSet(S) /\ n \notin S
      /\ T = S \cup (IF D.type \in kinds /\ D.customer = c THEN {n} ELSE {})
  <2>1. documents \in Seq(Document) /\ S \subseteq DOMAIN documents
    BY DEF Appended, PartyBills
  <2>2. T = S \cup (IF D.type \in kinds /\ D.customer = c THEN {n} ELSE {})
    BY <1>1, AppendedDocuments DEF PartyBills
  <2>3. QED
    BY <1>1, <2>1, <2>2, FinitelyMany, AppendedDocuments
<1>3. /\ \A p \in S : documents'[p] = documents[p] /\ documents[p].amount \in Int
      /\ documents'[n] = D /\ D.amount \in Int
  BY <1>1, <1>2, AppendedDocuments, FinitelyMany DEF Appended, Document, Amount
<1>4. Billed(c, kinds) = SumFunction(f) /\ Billed(c, kinds)' = SumFunction(g)
  BY DEF Billed, Total, Amount
<1>5. f \in [S -> Int] /\ g \in [T -> Int]
  BY <1>2, <1>3
<1>6. (n \in T => g[n] = D.amount) /\ \A p \in S : g[p] = f[p]
  BY <1>2, <1>3
<1>7. n \in T <=> D.type \in kinds /\ D.customer = c
  BY <1>2
<1>8. S \subseteq T /\ T \subseteq S \cup {n}
  BY <1>2
<1> HIDE DEF f, g, S, T
<1>9. SumFunction(g) = SumFunction(f) + (IF n \in T THEN g[n] ELSE 0) /\ SumFunction(f) \in Int
  BY <1>2, <1>5, <1>6, <1>8, SumExtend, SumInt
<1>10. QED
  BY <1>4, <1>6, <1>7, <1>9

(* The statement changes by what the document is worth.                  *)
LEMMA StatementStep ==
    ASSUME NEW D, Appended(D), NEW c
    PROVE  /\ Statement(c, LastDay)' = Statement(c, LastDay) + EffectOn(c, D)
           /\ Statement(c, LastDay) \in Int
<1>1. documents \in Seq(Document) /\ documents' \in Seq(Document)
  BY AppendedDocuments DEF Appended
<1>2. Statement(c, LastDay) = Billed(c, Bills) - Billed(c, Payments)
  BY <1>1, StatementSum DEF StatementIsSum
<1>3. Statement(c, LastDay)' = Billed(c, Bills)' - Billed(c, Payments)'
  <2>1. (\A b : documents \in Seq(Document) => StatementIsSum(b))'
    BY StatementSum, PTL
  <2>2. QED
    BY <1>1, <2>1 DEF StatementIsSum
<1>4. /\ Billed(c, Bills)' = Billed(c, Bills) +
           (IF D.type \in Bills /\ D.customer = c THEN D.amount ELSE 0)
      /\ Billed(c, Payments)' = Billed(c, Payments) +
           (IF D.type \in Payments /\ D.customer = c THEN D.amount ELSE 0)
      /\ Billed(c, Bills) \in Int /\ Billed(c, Payments) \in Int
  BY BilledStep
<1>5. D.amount \in Nat \ {0} /\ D.type \in Types
  BY DEF Appended, Document
<1>6. EffectOn(c, D) = (IF D.type \in Bills /\ D.customer = c THEN D.amount ELSE 0)
                         - (IF D.type \in Payments /\ D.customer = c THEN D.amount ELSE 0)
  BY <1>5 DEF EffectOn, Effect, Bills, Payments, Types, Notes
<1>7. (IF D.type \in Bills /\ D.customer = c THEN D.amount ELSE 0) \in Int
      /\ (IF D.type \in Payments /\ D.customer = c THEN D.amount ELSE 0) \in Int
  BY <1>5
<1>8. QED
  BY <1>2, <1>3, <1>4, <1>6, <1>7


(* All customers together: the ageing report's total.                     *)
LEMMA AgeingTotalStep ==
    ASSUME NEW D, Appended(D)
    PROVE  /\ AgeingTotal(LastDay)' = AgeingTotal(LastDay) + Effect(D)
           /\ AgeingTotal(LastDay) \in Int /\ Effect(D) \in Int
<1> DEFINE f == [c \in Customers |-> Ageing(c, LastDay)]
           g == [c \in Customers |-> Ageing(c, LastDay)']
<1>1. IsFiniteSet(Customers) /\ D.customer \in Customers
  BY ReceivablesAssumption DEF Appended, Document
<1>2. \A c : /\ Ageing(c, LastDay)' = Ageing(c, LastDay) + EffectOn(c, D)
             /\ Ageing(c, LastDay) \in Int /\ EffectOn(c, D) \in Int
  BY AgeingStep
<1>3. f \in [Customers -> Int] /\ g \in [Customers -> Int]
  <2>1. \A c : Ageing(c, LastDay)' \in Int
    BY <1>2
  <2>2. QED
    BY <2>1, <1>2
<1>4. EffectOn(D.customer, D) = Effect(D)
  BY DEF EffectOn
<1>5. Effect(D) \in Int /\ f[D.customer] \in Int /\ g[D.customer] = f[D.customer] + Effect(D)
  BY <1>1, <1>2, <1>4
<1>6. \A c \in Customers \ {D.customer} : g[c] = f[c]
  BY <1>2 DEF EffectOn
<1>7. AgeingTotal(LastDay) = SumFunction(f) /\ AgeingTotal(LastDay)' = SumFunction(g)
  BY DEF AgeingTotal, Total
<1> HIDE DEF f, g
<1>8. SumFunction(g) = SumFunction(f) - f[D.customer] + g[D.customer] /\ SumFunction(f) \in Int
  BY <1>1, <1>3, <1>6, SumChange, SumInt
<1>9. QED
  BY <1>5, <1>7, <1>8

-----------------------------------------------------------------------------
(* What a document adds to the counters of order lines and goods *)

Claiming(l) == {i \in Invoices : l \in DOMAIN documents[i].claims}
Claimed(l) == Total(Claiming(l), LAMBDA i : documents[i].claims[l])
ClaimIn(D, l) == IF D.type = "sales_invoice" /\ l \in DOMAIN D.claims THEN D.claims[l] ELSE 0
Sold == Total(Invoices, LAMBDA i : documents[i].goods)
GoodsIn(D) == IF D.type = "sales_invoice" THEN D.goods ELSE 0

(* What an invoice takes of order lines is positive.                     *)
LEMMA ClaimsType ==
    ASSUME NEW s \in Claims
    PROVE  \A l \in DOMAIN s : l \in OrderLines /\ s[l] \in Nat \ {0}
  BY DEF Claims

(* What invoices took of a line grows by what the new one takes.         *)
LEMMA ClaimedStep ==
    ASSUME NEW D, Appended(D), NEW l
    PROVE  Claimed(l)' = Claimed(l) + ClaimIn(D, l)
<1>1. PICK n : n = Len(documents) + 1
  OBVIOUS
<1> DEFINE S == Claiming(l)
           T == Claiming(l)'
           f == [p \in S |-> documents[p].claims[l]]
           g == [p \in T |-> documents'[p].claims[l]]
<1>2. /\ S \subseteq DOMAIN documents /\ IsFiniteSet(S) /\ n \notin S
      /\ T = S \cup (IF D.type = "sales_invoice" /\ l \in DOMAIN D.claims THEN {n} ELSE {})
  <2>1. documents \in Seq(Document) /\ S \subseteq DOMAIN documents
    BY DEF Appended, Claiming, Invoices, OfType
  <2>2. T = S \cup (IF D.type = "sales_invoice" /\ l \in DOMAIN D.claims THEN {n} ELSE {})
    BY <1>1, AppendedDocuments DEF Claiming, Invoices, OfType
  <2>3. QED
    BY <1>1, <2>1, <2>2, FinitelyMany, AppendedDocuments
<1>3. \A p \in S : documents'[p] = documents[p] /\ documents[p].claims[l] \in Int
  <2>1. ASSUME NEW p \in S
        PROVE  documents'[p] = documents[p] /\ documents[p].claims[l] \in Int
    <3>1. documents[p] \in Document /\ documents'[p] = documents[p]
      BY <1>2, AppendedDocuments, FinitelyMany DEF Appended
    <3>2. documents[p].claims \in Claims /\ l \in DOMAIN documents[p].claims
      BY <3>1 DEF Document, Claiming
    <3>3. QED
      BY <3>1, <3>2, ClaimsType
  <2>2. QED
    BY <2>1
<1>4. documents'[n] = D /\ (l \in DOMAIN D.claims => D.claims[l] \in Int)
  <2>1. D.claims \in Claims
    BY DEF Appended, Document
  <2>2. QED
    BY <1>1, <2>1, ClaimsType, AppendedDocuments
<1>5. Claimed(l) = SumFunction(f) /\ Claimed(l)' = SumFunction(g)
  BY DEF Claimed, Total
<1>6. f \in [S -> Int] /\ g \in [T -> Int]
  BY <1>2, <1>3, <1>4
<1>7. (n \in T => g[n] = D.claims[l]) /\ \A p \in S : g[p] = f[p]
  BY <1>2, <1>3, <1>4
<1>8. n \in T <=> D.type = "sales_invoice" /\ l \in DOMAIN D.claims
  BY <1>2
<1>9. S \subseteq T /\ T \subseteq S \cup {n}
  BY <1>2
<1> HIDE DEF f, g, S, T
<1>10. SumFunction(g) = SumFunction(f) + (IF n \in T THEN g[n] ELSE 0)
  BY <1>2, <1>6, <1>7, <1>9, SumExtend
<1>11. (IF n \in T THEN g[n] ELSE 0) = ClaimIn(D, l)
  <2>1. CASE n \in T
    BY <2>1, <1>7, <1>8 DEF ClaimIn
  <2>2. CASE n \notin T
    BY <2>2, <1>8 DEF ClaimIn
  <2>3. QED
    BY <2>1, <2>2
<1>12. QED
  BY <1>5, <1>10, <1>11

(* What was sold grows by the goods of a new invoice.                    *)
LEMMA SoldStep ==
    ASSUME NEW D, Appended(D)
    PROVE  Sold' = Sold + GoodsIn(D) /\ Sold \in Int
<1>1. PICK n : n = Len(documents) + 1
  OBVIOUS
<1> DEFINE S == Invoices
           T == Invoices'
           f == [p \in S |-> documents[p].goods]
           g == [p \in T |-> documents'[p].goods]
<1>2. /\ S \subseteq DOMAIN documents /\ IsFiniteSet(S) /\ n \notin S
      /\ T = S \cup (IF D.type = "sales_invoice" THEN {n} ELSE {})
  <2>1. documents \in Seq(Document) /\ S \subseteq DOMAIN documents
    BY DEF Appended, Invoices, OfType
  <2>2. T = S \cup (IF D.type = "sales_invoice" THEN {n} ELSE {})
    BY <1>1, AppendedDocuments DEF Invoices, OfType
  <2>3. QED
    BY <1>1, <2>1, <2>2, FinitelyMany, AppendedDocuments
<1>3. /\ \A p \in S : documents'[p] = documents[p] /\ documents[p].goods \in Int
      /\ documents'[n] = D /\ D.goods \in Int
  <2>1. ASSUME NEW p \in S PROVE documents'[p] = documents[p] /\ documents[p].goods \in Int
    <3>1. documents[p] \in Document /\ documents'[p] = documents[p]
      BY <1>2, AppendedDocuments, FinitelyMany DEF Appended
    <3>2. QED
      BY <3>1 DEF Document
  <2>2. D.goods \in Int
    BY DEF Appended, Document
  <2>3. documents'[n] = D
    BY <1>1, AppendedDocuments
  <2>4. QED
    BY <2>1, <2>2, <2>3
<1>4. Sold = SumFunction(f) /\ Sold' = SumFunction(g)
  BY DEF Sold, Total
<1>5. f \in [S -> Int] /\ g \in [T -> Int]
  BY <1>2, <1>3
<1>6. (n \in T => g[n] = D.goods) /\ \A p \in S : g[p] = f[p]
  BY <1>2, <1>3
<1>7. n \in T <=> D.type = "sales_invoice"
  BY <1>2
<1>8. S \subseteq T /\ T \subseteq S \cup {n}
  BY <1>2
<1> HIDE DEF f, g, S, T
<1>9. SumFunction(g) = SumFunction(f) + (IF n \in T THEN g[n] ELSE 0) /\ SumFunction(f) \in Int
  BY <1>2, <1>5, <1>6, <1>8, SumExtend, SumInt
<1>10. QED
  BY <1>4, <1>6, <1>7, <1>9 DEF GoodsIn

-----------------------------------------------------------------------------
(* What an entry adds to the accounts *)

Receivable == Total(DOMAIN entries, LAMBDA e : entries[e].receivable)
Inventory == Total(DOMAIN entries, LAMBDA e : entries[e].inventory)

(* The control account's balance on the last day is the sum of all
   entries.                                                              *)
LEMMA LedgerSum == entries \in Seq(Entry) => LedgerBalance(LastDay) = Receivable
<1> SUFFICES ASSUME entries \in Seq(Entry)
             PROVE  LedgerBalance(LastDay) = Receivable
  OBVIOUS
<1>1. \A e \in DOMAIN entries : entries[e] \in Entry
  OBVIOUS
<1>2. {e \in DOMAIN entries : entries[e].day <= LastDay} = DOMAIN entries
  BY <1>1, LastDayIsLast DEF Entry
<1>3. QED
  BY <1>2 DEF LedgerBalance, Receivable

(* An entry adds its own amounts to the two accounts.                    *)
LEMMA EntryStep ==
    ASSUME entries \in Seq(Entry), NEW E \in Entry, entries' = Append(entries, E)
    PROVE  /\ entries' \in Seq(Entry)
           /\ LedgerBalance(LastDay)' = LedgerBalance(LastDay) + E.receivable
           /\ Inventory' = Inventory + E.inventory
           /\ LedgerBalance(LastDay) \in Int /\ Inventory \in Int
<1>1. PICK n \in Nat : n = Len(entries)
  OBVIOUS
<1> DEFINE f == [e \in 1 .. n |-> entries[e].receivable]
           g == [e \in 1 .. n + 1 |-> entries'[e].receivable]
           h == [e \in 1 .. n |-> entries[e].inventory]
           k == [e \in 1 .. n + 1 |-> entries'[e].inventory]
<1>2. /\ DOMAIN entries = 1 .. n /\ DOMAIN entries' = 1 .. n + 1
      /\ entries'[n + 1] = E /\ entries' \in Seq(Entry)
      /\ \A e \in 1 .. n : entries'[e] = entries[e] /\ entries[e] \in Entry
      /\ \A e \in 1 .. n + 1 : entries'[e] \in Entry
  BY <1>1
<1>3. /\ \A e \in 1 .. n + 1 : entries'[e].receivable \in Int /\ entries'[e].inventory \in Int
      /\ \A e \in 1 .. n : entries[e].receivable \in Int /\ entries[e].inventory \in Int
  BY <1>2 DEF Entry
<1>4. f \in [1 .. n -> Int] /\ g \in [1 .. n + 1 -> Int] /\ \A e \in 1 .. n : g[e] = f[e]
  BY <1>2, <1>3
<1>5. h \in [1 .. n -> Int] /\ k \in [1 .. n + 1 -> Int] /\ \A e \in 1 .. n : k[e] = h[e]
  BY <1>2, <1>3
<1>6. g[n + 1] = E.receivable /\ k[n + 1] = E.inventory
  BY <1>1, <1>2
<1>7. /\ Receivable = SumFunction(f) /\ Receivable' = SumFunction(g)
      /\ Inventory = SumFunction(h) /\ Inventory' = SumFunction(k)
  BY <1>2 DEF Receivable, Inventory, Total
<1>8. LedgerBalance(LastDay) = Receivable /\ LedgerBalance(LastDay)' = Receivable'
  <2>1. (entries \in Seq(Entry) => LedgerBalance(LastDay) = Receivable)'
    BY LedgerSum, PTL
  <2>2. QED
    BY <1>2, <2>1, LedgerSum
<1> HIDE DEF f, g, h, k
<1>9. SumFunction(g) = SumFunction(f) + g[n + 1] /\ SumFunction(f) \in Int
  BY <1>4, SumAppended
<1>10. SumFunction(k) = SumFunction(h) + k[n + 1] /\ SumFunction(h) \in Int
  BY <1>5, SumAppended
<1>11. QED
  BY <1>2, <1>6, <1>7, <1>8, <1>9, <1>10


-----------------------------------------------------------------------------
(* The invariant *)

(* What a request names.  An entry is found only when it posts; the goods of
   an invoice are taken before it does.                                    *)
Linked(t) ==
    /\ IF t.type \in Notes
       THEN t.of \in Invoices /\ documents[t.of].customer = t.customer
       ELSE t.of = 0
    /\ t.type # "sales_invoice" => DOMAIN t.claims = {} /\ t.goods = 0
    /\ t.type # "customer_receipt" => DOMAIN t.settles = {}
    /\ DOMAIN t.settles \subseteq Invoices
    /\ t.entry # 0 => t.pc = "store" /\ t.entry \in DOMAIN entries
    /\ t.taken <=> t.pc \in {"post", "store"} /\ t.goods > 0
    /\ ~t.taken => t.cost = 0
    /\ t.pc = "goods" => t.goods > 0

(* What was checked under the customer's lock stays true until COMMIT: the
   lines are still to be invoiced, the note fits its invoice, the shares are
   open.                                                                   *)
Checked(t) ==
    /\ \A l \in DOMAIN t.claims :
         /\ CustomerOf[OrderOf[l]] = t.customer /\ status[OrderOf[l]] # "NONE"
         /\ invoiced[l] + t.claims[l] <= Ordered[l]
    /\ t.type \in Notes => WithinInvoice(t)
    /\ \A i \in DOMAIN t.settles :
         documents[i].customer = t.customer /\ t.settles[i] <= Due(i)

(* The goods are still there, and cost what was charged.                   *)
InStock(t) == CanIssue(stock, t.goods) /\ t.cost = IssuedValue(stock, t.goods)

Sound(t) ==
    IF t.pc = "convert"
    THEN quotation[t.of] = "OPEN" /\ t.customer = QuotedTo[t.of]
    ELSE /\ Linked(t)
         /\ t.pc # "lock" => Checked(t)
         /\ t.taken => InStock(t)

(* No two transactions hold the same row.                                  *)
Locks(t) == t.pc \notin {"lock", "convert"}
Apart(s, t) ==
    /\ ~(Locks(s) /\ Locks(t) /\ s.customer = t.customer)
    /\ ~(s.taken /\ t.taken)
    /\ ~(s.pc = "convert" /\ t.pc = "convert" /\ s.of = t.of)

TxnInv == \A w \in Workers : txn[w] # Idle => Sound(txn[w])
LockInv ==
    \A v, w \in Workers :
      v # w /\ txn[v] # Idle /\ txn[w] # Idle => Apart(txn[v], txn[w])

(* The credit notes of an invoice never exceed it.                         *)
NotesFit == \A i \in Invoices : Noted("sales_credit_note", i) <= documents[i].amount

(* The three parts of OrdersTellWhatHappened: lines, orders, quotations.   *)
LinesTold == \A l \in OrderLines : invoiced[l] = Claimed(l) /\ invoiced[l] <= Ordered[l]

LinesOf(o) == {l \in OrderLines : OrderOf[l] = o}
OrderTold(o) ==
    /\ status[o] = "INVOICED" <=> \A l \in LinesOf(o) : invoiced[l] = Ordered[l]
    /\ status[o] = "PARTIALLY_INVOICED" => \E l \in LinesOf(o) : invoiced[l] > 0
    /\ status[o] \in {"NONE", "OPEN", "CANCELLED"} => \A l \in LinesOf(o) : invoiced[l] = 0
OrdersTold == \A o \in Orders : OrderTold(o)

MadeOrders(q) == {o \in Orders : MadeFrom[o] = q /\ status[o] # "NONE"}
QuotationsTold ==
    \A q \in Quotations :
      IF quotation[q] = "CONVERTED" THEN \E o : MadeOrders(q) = {o} ELSE MadeOrders(q) = {}

IInv ==
    /\ KindInv /\ DocumentsInOrder /\ EntriesExist
    /\ TxnInv /\ LockInv /\ NotesFit
    /\ LinesTold /\ OrdersTold /\ QuotationsTold

(* When no key is sent again, every document has an entry of its own.      *)
KeyInv ==
    /\ \A w \in Workers : txn[w] # Idle /\ txn[w].pc # "convert" =>
         txn[w].entry = 0 /\ Posted(txn[w].key) = {}
    /\ \A v, w \in Workers :
         /\ v # w
         /\ txn[v] # Idle /\ txn[v].pc # "convert"
         /\ txn[w] # Idle /\ txn[w].pc # "convert"
         => txn[v].key # txn[w].key

BooksInv == KeyInv /\ AgeingTiesToLedger /\ SoldGoodsLeaveTheBooks


-----------------------------------------------------------------------------
(* Steps that only move a transaction *)

(* What leaves the stock row is a value it has.                            *)
LEMMA NatProduct == \A a, b \in Nat : a * b \in Nat
  OBVIOUS

(* Quotients of naturals are naturals.                                   *)
LEMMA NatQuotient == \A a \in Nat : \A b \in Nat \ {0} : a \div b \in Nat
  OBVIOUS

(* An issue takes from the row what it charges, and never more than is
   there.                                                                *)
LEMMA IssueType ==
    ASSUME NEW s \in State, NEW q \in Nat, CanIssue(s, q)
    PROVE  /\ IssuedValue(s, q) \in Nat
           /\ AfterIssue(s, q) = [quantity |-> s.quantity - q, value |-> s.value - IssuedValue(s, q)]
           /\ AfterIssue(s, q) \in State
<1>1. s.quantity \in Nat \ {0} /\ s.value \in Nat /\ q <= s.quantity
  BY DEF State, CanIssue
<1>2. Share(s, q) \in Nat
  <2>1. PICK n \in Nat : n = q * s.value
    BY <1>1, NatProduct
  <2>2. 2 * n + s.quantity \in Nat /\ 2 * s.quantity \in Nat \ {0}
    BY <1>1
  <2>3. RoundedQuotient(n, s.quantity) \in Nat
    BY <2>2, NatQuotient DEF RoundedQuotient
  <2>4. QED
    BY <1>1, <2>1, <2>3 DEF Share
<1>3. IssuedValue(s, q) \in Nat /\ IssuedValue(s, q) <= s.value
  BY <1>1, <1>2 DEF IssuedValue, Lesser
<1>4. AfterIssue(s, q) = [quantity |-> s.quantity - q, value |-> s.value - IssuedValue(s, q)]
  BY <1>1, <1>3 DEF AfterIssue, AtLeastZero
<1>5. QED
  BY <1>1, <1>3, <1>4 DEF State

(* The tables as they are carry the parts of the invariant about them.     *)
TablesInv ==
    /\ documents \in Seq(Document) /\ entries \in Seq(Entry)
    /\ invoiced \in [OrderLines -> Nat] /\ status \in [Orders -> Statuses]
    /\ quotation \in [Quotations -> {"NONE", "OPEN", "CONVERTED", "CLOSED"}]
    /\ stock \in State
    /\ DocumentsInOrder /\ EntriesExist /\ NotesFit /\ LinesTold /\ OrdersTold /\ QuotationsTold

(* The invariant is about tables, transactions, and their locks.         *)
LEMMA InvParts ==
    IInv <=> /\ TablesInv /\ TxnInv /\ LockInv
             /\ txn \in [Workers -> Request \cup Conversion \cup {Idle}]
  BY DEF IInv, KindInv, TablesInv

(* What is computed from the documents stays with them.                  *)
LEMMA DocumentsKept ==
    ASSUME UNCHANGED documents
    PROVE  /\ Invoices' = Invoices
           /\ \A type, i : Noted(type, i)' = Noted(type, i)
           /\ \A l : Claimed(l)' = Claimed(l)
           /\ \A i : Due(i)' = Due(i) /\ Taken(i)' = Taken(i)
           /\ \A t : WithinInvoice(t)' = WithinInvoice(t)
<1>1. Invoices' = Invoices
  BY DEF Invoices, OfType
<1>2. \A type, i : Noted(type, i)' = Noted(type, i)
  BY DEF Noted, Total, Against, OfType, Amount
<1>3. \A l : Claimed(l)' = Claimed(l)
  BY DEF Claimed, Total, Claiming, Invoices, OfType
<1>4. \A i : Taken(i)' = Taken(i)
  BY DEF Taken, AllocatedTo, Total, UpTo, Receipts, OfType
<1>5. \A i : Due(i)' = Due(i)
  BY DEF Due, Outstanding, AllocatedTo, Total, UpTo, Receipts, Against, OfType, Amount
<1>6. \A t : WithinInvoice(t)' = WithinInvoice(t)
  BY DEF WithinInvoice, Total, Against, OfType, Amount
<1>7. QED
  BY <1>1, <1>2, <1>3, <1>4, <1>5, <1>6

(* What a transaction relies on stays with the tables.                   *)
LEMMA SoundKept ==
    ASSUME UNCHANGED tables, NEW t
    PROVE  Sound(t)' = Sound(t)
  BY DocumentsKept DEF tables, Sound, Linked, Checked, InStock

(* So does what the tables say of each other.                            *)
LEMMA TablesKept ==
    ASSUME TablesInv, UNCHANGED tables
    PROVE  TablesInv'
<1>1. DocumentsInOrder' /\ EntriesExist'
  BY DEF TablesInv, tables, DocumentsInOrder, Follows, Invoices, OfType, EntriesExist
<1>2. NotesFit' /\ LinesTold'
  BY DocumentsKept DEF TablesInv, tables, NotesFit, LinesTold
<1>3. OrdersTold'
  BY DEF TablesInv, tables, OrdersTold, OrderTold, LinesOf
<1>4. QuotationsTold'
  <2>1. \A q : MadeOrders(q)' = MadeOrders(q)
    BY DEF tables, MadeOrders
  <2>2. QED
    BY <2>1 DEF TablesInv, tables, QuotationsTold
<1>5. QED
  BY <1>1, <1>2, <1>3, <1>4 DEF TablesInv, tables

(* A step of one transaction.                                              *)
LEMMA TxnMoves ==
    ASSUME IInv, UNCHANGED tables, NEW w \in Workers, NEW t, Set(w, t),
           t \in Request \cup Conversion \cup {Idle},
           t # Idle => Sound(t),
           t # Idle => \A v \in Workers \ {w} :
                         txn[v] # Idle => Apart(txn[v], t)
    PROVE  IInv'
<1>1. /\ txn' \in [Workers -> Request \cup Conversion \cup {Idle}]
      /\ txn'[w] = t /\ \A v \in Workers \ {w} : txn'[v] = txn[v]
  BY InvParts DEF Set
<1>2. TablesInv'
  BY InvParts, TablesKept
<1>3. TxnInv'
  <2>1. ASSUME NEW v \in Workers, NEW s, s = txn'[v], s # Idle PROVE Sound(s)'
    <3>1. Sound(s)
      BY <1>1, <2>1, InvParts DEF TxnInv
    <3>2. QED
      BY <3>1, SoundKept
  <2>2. QED
    BY <2>1 DEF TxnInv
<1>4. LockInv'
  <2>1. ASSUME NEW v \in Workers, NEW u \in Workers, v # u, txn'[v] # Idle, txn'[u] # Idle
        PROVE  Apart(txn'[v], txn'[u])
    <3>1. CASE v # w /\ u # w
      BY <1>1, <2>1, <3>1, InvParts DEF LockInv
    <3>2. CASE u = w
      BY <1>1, <2>1, <3>2
    <3>3. CASE v = w
      <4>1. Apart(txn'[u], txn'[v])
        BY <1>1, <2>1, <3>3
      <4>2. QED
        BY <4>1 DEF Apart
    <3>4. QED
      BY <3>1, <3>2, <3>3
  <2>2. QED
    BY <2>1 DEF LockInv, Apart, Locks
<1>5. QED
  <2>1. (IInv <=> /\ TablesInv /\ TxnInv /\ LockInv
                  /\ txn \in [Workers -> Request \cup Conversion \cup {Idle}])'
    BY InvParts, PTL
  <2>2. QED
    BY <1>1, <1>2, <1>3, <1>4, <2>1


(* No shares and no claims are a set of them like any other.             *)
LEMMA NoLinesType == NoLines \in Shares /\ NoLines \in Claims /\ DOMAIN NoLines = {}
<1>1. DOMAIN NoLines = {} /\ NoLines \in [{} -> Nat \ {0}]
  BY DEF NoLines
<1>2. NoLines \in Shares
  BY <1>1 DEF Shares
<1>3. NoLines \in Claims
  BY <1>1 DEF Claims
<1>4. QED
  BY <1>1, <1>2, <1>3

(* The values of a submitted request.                                    *)
LEMMA RequestType ==
    ASSUME NEW r \in Requests
    PROVE  /\ r.type \in Types /\ r.key \in Keys /\ r.day \in Days /\ r.amount \in Nat \ {0}
           /\ r.type = "sales_invoice" =>
                r.customer \in Customers /\ r.goods \in Nat /\ r.claims \in Claims
           /\ r.type = "customer_receipt" =>
                r.customer \in Customers /\ r.shares \subseteq Nat \ {0}
<1>1. SoundRequest(r) /\ r.type \in Types /\ r.key \in Keys /\ r.day \in Days /\ r.amount \in Nat \ {0}
  BY ReceivablesAssumption
<1>2. ASSUME r.type = "sales_invoice"
      PROVE  r.customer \in Customers /\ r.goods \in Nat /\ r.claims \in Claims
  <2>1. /\ r.customer \in Customers /\ r.goods \in Nat
        /\ DOMAIN r.claims \subseteq OrderLines /\ r.claims \in [DOMAIN r.claims -> Nat \ {0}]
    BY <1>1, <1>2 DEF SoundRequest
  <2>2. QED
    BY <2>1 DEF Claims
<1>3. ASSUME r.type = "customer_receipt"
      PROVE  r.customer \in Customers /\ r.shares \subseteq Nat \ {0}
  BY <1>1, <1>3 DEF SoundRequest, Notes
<1>4. QED
  BY <1>1, <1>2, <1>3

(* A request begins with nothing checked and nothing taken.              *)
LEMMA BeginSound ==
    ASSUME documents \in Seq(Document), NEW r \in Requests, NEW customer \in Customers, NEW of, NEW settles \in Shares,
           IF r.type \in Notes
           THEN of \in Invoices /\ documents[of].customer = customer ELSE of = 0,
           r.type # "customer_receipt" => DOMAIN settles = {},
           DOMAIN settles \subseteq Invoices,
           r.type = "sales_invoice" => r.customer = customer
    PROVE  Begin(r, customer, of, settles) \in Request /\ Sound(Begin(r, customer, of, settles))
<1> DEFINE claims == IF r.type = "sales_invoice" THEN r.claims ELSE NoLines
           goods == IF r.type = "sales_invoice" THEN r.goods ELSE 0
           t == Begin(r, customer, of, settles)
<1>1. of \in Nat
  BY FinitelyMany DEF Invoices, OfType
<1>2. claims \in Claims /\ (r.type # "sales_invoice" => DOMAIN claims = {})
  BY NoLinesType, RequestType
<1>3. goods \in Nat /\ (r.type # "sales_invoice" => goods = 0)
  BY RequestType
<1>4. t = [pc |-> "lock", type |-> r.type, key |-> r.key, day |-> r.day, amount |-> r.amount,
           customer |-> customer, of |-> of, settles |-> settles,
           claims |-> claims, goods |-> goods, cost |-> 0, taken |-> FALSE, entry |-> 0]
  BY DEF Begin
<1> HIDE DEF claims, goods, t
<1>5. t \in Request
  BY <1>1, <1>2, <1>3, <1>4, RequestType DEF Request
<1>6. Sound(t)
  BY <1>2, <1>3, <1>4 DEF Sound, Linked
<1>7. QED
  BY <1>5, <1>6 DEF t

(* A submitted request keeps the invariant.                              *)
LEMMA SubmitStep ==
    ASSUME IInv, NEW w \in Workers, NEW r \in Requests, Submit(w, r)
    PROVE  IInv'
<1>1. /\ documents \in Seq(Document)
      /\ \A i \in Invoices : i \in Nat /\ documents[i].customer \in Customers
  <2>1. documents \in Seq(Document)
    BY InvParts DEF TablesInv
  <2>2. \A i \in Invoices : i \in DOMAIN documents /\ documents[i] \in Document /\ i \in Nat
    BY <2>1, FinitelyMany DEF Invoices, OfType
  <2>3. QED
    BY <2>1, <2>2 DEF Document
<1>2. ASSUME NEW customer \in Customers, NEW of, NEW settles \in Shares,
             IF r.type \in Notes
             THEN of \in Invoices /\ documents[of].customer = customer ELSE of = 0,
             r.type # "customer_receipt" => DOMAIN settles = {},
             DOMAIN settles \subseteq Invoices,
             r.type = "sales_invoice" => r.customer = customer,
             Set(w, Begin(r, customer, of, settles))
      PROVE  IInv'
  <2>1. PICK t : t = Begin(r, customer, of, settles)
    OBVIOUS
  <2>2. t \in Request /\ Sound(t)
    BY <1>1, <1>2, <2>1, BeginSound
  <2>3. t.pc = "lock" /\ t.taken = FALSE
    BY <2>1 DEF Begin
  <2>4. \A s : Apart(s, t)
    BY <2>3 DEF Apart, Locks
  <2>5. UNCHANGED tables /\ Set(w, t)
    BY <1>2, <2>1 DEF Submit
  <2>6. QED
    BY <2>2, <2>4, <2>5, TxnMoves
<1>3. CASE SubmitInvoice(w, r)
  BY <1>2, <1>3, RequestType, NoLinesType DEF SubmitInvoice, Notes
<1>4. CASE SubmitNote(w, r)
  <2>1. PICK i \in Invoices : Set(w, Begin(r, documents[i].customer, i, NoLines))
    BY <1>4 DEF SubmitNote
  <2>2. r.type \in Notes /\ r.type # "sales_invoice" /\ r.type # "customer_receipt"
    BY <1>4 DEF SubmitNote, Notes
  <2>3. QED
    BY <1>1, <1>2, <2>1, <2>2, NoLinesType
<1>5. CASE SubmitReceipt(w, r)
  <2>1. PICK I \in SUBSET Invoices : \E settles \in [I -> r.shares] :
          Set(w, Begin(r, r.customer, 0, settles))
    BY <1>5 DEF SubmitReceipt
  <2>2. PICK settles \in [I -> r.shares] : Set(w, Begin(r, r.customer, 0, settles))
    BY <2>1
  <2>3. r.type = "customer_receipt" /\ r.type \notin Notes /\ r.customer \in Customers
        /\ r.shares \subseteq Nat \ {0}
    BY <1>5, RequestType DEF SubmitReceipt, Notes
  <2>4. settles \in [I -> Nat \ {0}] /\ I \in SUBSET Nat
    BY <1>1, <2>1, <2>2, <2>3
  <2>5. settles \in Shares /\ DOMAIN settles \subseteq Invoices
    BY <2>4 DEF Shares
  <2>6. QED
    BY <1>2, <2>2, <2>3, <2>5
<1>6. QED
  BY <1>3, <1>4, <1>5 DEF Submit


(* What the invariant says of one open request.                            *)
LEMMA RequestFacts ==
    ASSUME IInv, NEW w \in Workers, NEW pc \in {"lock", "goods", "post", "store"}, At(w, pc)
    PROVE  /\ txn[w] \in Request /\ txn[w].pc = pc /\ w \in Active
           /\ Linked(txn[w])
           /\ pc # "lock" => Checked(txn[w])
           /\ txn[w].taken => InStock(txn[w])
<1>1. txn[w] # Idle /\ txn[w].pc = pc /\ txn[w] \in Request \cup Conversion
  BY InvParts DEF At
<1>2. txn[w] \in Request
  BY <1>1 DEF Conversion
<1>3. Sound(txn[w])
  BY <1>1, InvParts DEF TxnInv
<1>4. QED
  BY <1>1, <1>2, <1>3 DEF Sound, Active

(* A request that moves on keeps what it asks for.                       *)
LEMMA MovedType ==
    ASSUME NEW t \in Request, NEW pc \in {"lock", "goods", "post", "store"},
           NEW m, m = [t EXCEPT !.pc = pc]
    PROVE  /\ m \in Request /\ m.pc = pc
           /\ m.type = t.type /\ m.key = t.key /\ m.day = t.day /\ m.amount = t.amount
           /\ m.customer = t.customer /\ m.of = t.of /\ m.settles = t.settles
           /\ m.claims = t.claims /\ m.goods = t.goods /\ m.cost = t.cost
           /\ m.taken = t.taken /\ m.entry = t.entry
  BY DEF Request

(* A rollback gives up what was locked.                                  *)
LEMMA FailStep ==
    ASSUME IInv, NEW w \in Workers, Fail(w)
    PROVE  IInv'
  BY TxnMoves DEF Fail

(* The customer's row is taken and the document checked.                 *)
LEMMA LockStep ==
    ASSUME IInv, NEW w \in Workers, LockCustomer(w)
    PROVE  IInv'
<1>1. CASE Fail(w)
  BY <1>1, FailStep
<1>2. CASE /\ Acceptable(txn[w]) /\ UNCHANGED tables
           /\ Step(w, IF txn[w].goods > 0 THEN "goods" ELSE "post")
  <2>1. PICK t : t = txn[w]
    OBVIOUS
  <2>2. PICK pc \in {"lock", "goods", "post", "store"} : pc = IF t.goods > 0 THEN "goods" ELSE "post"
    OBVIOUS
  <2>3. PICK m : m = [t EXCEPT !.pc = pc]
    OBVIOUS
  <2>4. t \in Request /\ t.pc = "lock" /\ Linked(t)
    BY <2>1, RequestFacts DEF LockCustomer
  <2>moves. pc # "lock" /\ pc # "convert" /\ pc # "store"
    BY <2>2
  <2>5. /\ m \in Request /\ m.pc = pc
        /\ m.type = t.type /\ m.amount = t.amount
        /\ m.customer = t.customer /\ m.of = t.of /\ m.settles = t.settles
        /\ m.claims = t.claims /\ m.goods = t.goods /\ m.taken = t.taken /\ m.entry = t.entry
        /\ m.cost = t.cost
    BY <2>3, <2>4, MovedType
  <2>6. t.taken = FALSE /\ t.goods \in Nat /\ t.entry = 0
    BY <2>4 DEF Linked, Request
  <2>7. Linked(m)
    BY <2>2, <2>4, <2>5, <2>6, <2>moves DEF Linked
  <2>8. Checked(m)
    <3>1. Acceptable(t)
      BY <1>2, <2>1
    <3>2. ASSUME NEW l \in DOMAIN t.claims
          PROVE  /\ CustomerOf[OrderOf[l]] = t.customer /\ status[OrderOf[l]] # "NONE"
                 /\ invoiced[l] + t.claims[l] <= Ordered[l]
      BY <2>4, <3>1 DEF Linked, Acceptable, Claimable
    <3>3. t.type \in Notes => WithinInvoice(t)
      BY <3>1 DEF Acceptable
    <3>4. ASSUME NEW i \in DOMAIN t.settles
          PROVE  documents[i].customer = t.customer /\ t.settles[i] <= Due(i)
      BY <2>4, <3>1 DEF Linked, Acceptable, Payable, PartyInvoices, Due
    <3>5. WithinInvoice(m) <=> WithinInvoice(t)
      BY <2>5 DEF WithinInvoice
    <3>6. QED
      BY <2>5, <3>2, <3>3, <3>4, <3>5 DEF Checked
  <2>9. Sound(m)
    BY <2>5, <2>6, <2>7, <2>8, <2>moves DEF Sound
  <2>10. \A v \in Workers \ {w} : txn[v] # Idle => Apart(txn[v], m)
    BY <2>1, <2>5, <2>6 DEF LockCustomer, Locked, Active, Apart, Locks
  <2>11. Set(w, m)
    BY <1>2, <2>1, <2>2, <2>3 DEF Step
  <2>12. QED
    BY <1>2, <2>5, <2>9, <2>10, <2>11, TxnMoves
<1>3. QED
  BY <1>1, <1>2 DEF LockCustomer

(* The stock row is taken and the cost of the goods read.                *)
LEMMA TakeStep ==
    ASSUME IInv, NEW w \in Workers, TakeGoods(w)
    PROVE  IInv'
<1>1. CASE Fail(w)
  BY <1>1, FailStep
<1>2. CASE /\ CanIssue(stock, txn[w].goods) /\ UNCHANGED tables
           /\ Set(w, [txn[w] EXCEPT !.pc = "post", !.taken = TRUE,
                              !.cost = IssuedValue(stock, txn[w].goods)])
  <2>1. PICK t : t = txn[w]
    OBVIOUS
  <2>2. PICK cost : cost = IssuedValue(stock, t.goods)
    OBVIOUS
  <2>3. PICK m : m = [t EXCEPT !.pc = "post", !.taken = TRUE, !.cost = cost]
    OBVIOUS
  <2>4. t \in Request /\ t.pc = "goods" /\ Linked(t) /\ Checked(t)
    BY <2>1, RequestFacts DEF TakeGoods
  <2>5. stock \in State /\ t.goods \in Nat /\ CanIssue(stock, t.goods)
    BY <1>2, <2>1, <2>4, InvParts DEF TablesInv, Request
  <2>6. cost \in Nat
    BY <2>2, <2>5, IssueType
  <2>7. /\ m \in Request /\ m.pc = "post" /\ m.taken = TRUE /\ m.cost = cost
        /\ m.type = t.type /\ m.amount = t.amount
        /\ m.customer = t.customer /\ m.of = t.of /\ m.settles = t.settles
        /\ m.claims = t.claims /\ m.goods = t.goods /\ m.entry = t.entry
    BY <2>3, <2>4, <2>6 DEF Request
  <2>8. t.taken = FALSE /\ t.goods > 0 /\ t.entry = 0
    BY <2>4 DEF Linked, Request
  <2>9. Linked(m)
    BY <2>4, <2>7, <2>8 DEF Linked
  <2>10. Checked(m)
    BY <2>4, <2>7 DEF Checked, WithinInvoice
  <2>11. InStock(m)
    BY <2>2, <2>5, <2>7 DEF InStock
  <2>12. Sound(m)
    BY <2>7, <2>9, <2>10, <2>11 DEF Sound
  <2>13. ASSUME NEW v \in Workers \ {w}, txn[v] # Idle PROVE Apart(txn[v], m)
    <3>1. Apart(txn[v], t) /\ Locks(t)
      BY <2>1, <2>4, <2>13, InvParts DEF LockInv, TakeGoods, At, Locks
    <3>2. ~txn[v].taken
      BY <2>13 DEF TakeGoods, Taking, Active
    <3>3. QED
      BY <2>7, <3>1, <3>2 DEF Apart, Locks
  <2>14. Set(w, m)
    BY <1>2, <2>1, <2>2, <2>3
  <2>15. QED
    BY <1>2, <2>7, <2>12, <2>13, <2>14, TxnMoves
<1>3. QED
  BY <1>1, <1>2 DEF TakeGoods

(* The entry is new or found by its key.                                 *)
LEMMA PostStep ==
    ASSUME IInv, NEW w \in Workers, PostEntry(w)
    PROVE  IInv'
<1>1. PICK t : t = txn[w]
  OBVIOUS
<1>2. PICK e \in Nat : (e = 0 \/ e \in DOMAIN entries) /\ Set(w, [t EXCEPT !.pc = "store", !.entry = e])
  <2>1. t \in Request /\ Linked(t) /\ t.pc = "post"
    BY <1>1, RequestFacts DEF PostEntry
  <2>2. entries \in Seq(Entry)
    BY InvParts DEF TablesInv
  <2>3. CASE Step(w, "store")
    <3>1. t.entry = 0
      BY <2>1 DEF Linked
    <3>2. [t EXCEPT !.pc = "store"] = [t EXCEPT !.pc = "store", !.entry = 0]
      BY <2>1, <3>1 DEF Request
    <3>3. QED
      BY <1>1, <2>3, <3>2 DEF Step
  <2>4. CASE \E e \in Posted(txn[w].key) : Set(w, [txn[w] EXCEPT !.pc = "store", !.entry = e])
    <3>1. PICK e \in Posted(t.key) : Set(w, [t EXCEPT !.pc = "store", !.entry = e])
      BY <1>1, <2>4
    <3>2. e \in DOMAIN entries /\ e \in Nat
      BY <2>2 DEF Posted
    <3>3. QED
      BY <3>1, <3>2
  <2>5. QED
    BY <2>3, <2>4 DEF PostEntry
<1>3. PICK m : m = [t EXCEPT !.pc = "store", !.entry = e]
  OBVIOUS
<1>4. t \in Request /\ t.pc = "post" /\ Linked(t) /\ Checked(t) /\ (t.taken => InStock(t))
  BY <1>1, RequestFacts DEF PostEntry
<1>5. /\ m \in Request /\ m.pc = "store" /\ m.entry = e
      /\ m.type = t.type /\ m.amount = t.amount /\ m.cost = t.cost /\ m.taken = t.taken
      /\ m.customer = t.customer /\ m.of = t.of /\ m.settles = t.settles
      /\ m.claims = t.claims /\ m.goods = t.goods
  BY <1>2, <1>3, <1>4 DEF Request
<1>6. Linked(m)
  BY <1>2, <1>4, <1>5 DEF Linked
<1>7. Checked(m) /\ (m.taken => InStock(m))
  BY <1>4, <1>5 DEF Checked, WithinInvoice, InStock
<1>8. Sound(m)
  BY <1>5, <1>6, <1>7 DEF Sound
<1>9. ASSUME NEW v \in Workers \ {w}, txn[v] # Idle PROVE Apart(txn[v], m)
  <2>1. Apart(txn[v], t)
    BY <1>1, <1>4, <1>9, InvParts DEF LockInv, PostEntry, At
  <2>2. QED
    BY <1>4, <1>5, <2>1 DEF Apart, Locks
<1>10. QED
  BY <1>2, <1>3, <1>5, <1>8, <1>9, TxnMoves DEF PostEntry

(* A conversion finds its quotation open and locks it.                   *)
LEMMA StartConversionStep ==
    ASSUME IInv, NEW w \in Workers, NEW q \in Quotations, StartConversion(w, q)
    PROVE  IInv'
<1>1. PICK m : m = [pc |-> "convert", type |-> "sales_order", key |-> NoQuotation,
                    customer |-> QuotedTo[q], of |-> q, taken |-> FALSE]
  OBVIOUS
<1>2. m \in Conversion
  BY <1>1, ReceivablesAssumption DEF Conversion
<1>3. Sound(m)
  BY <1>1 DEF StartConversion, OpenQuotation, Sound
<1>4. \A v \in Workers \ {w} : txn[v] # Idle => Apart(txn[v], m)
  BY <1>1 DEF StartConversion, OpenQuotation, Converting, Active, At, Apart, Locks
<1>5. QED
  BY <1>1, <1>2, <1>3, <1>4, TxnMoves DEF StartConversion


-----------------------------------------------------------------------------
(* Steps of quotations and orders *)

(* Documents and counters stay, no order is unmade, and a conversion still
   finds its quotation open.                                               *)
LEMMA OrdersMove ==
    ASSUME IInv, UNCHANGED <<documents, entries, invoiced, stock>>,
           status' \in [Orders -> Statuses],
           quotation' \in [Quotations -> {"NONE", "OPEN", "CONVERTED", "CLOSED"}],
           OrdersTold', QuotationsTold',
           \A o \in Orders : status[o] # "NONE" => status'[o] # "NONE",
           txn' \in [Workers -> Request \cup Conversion \cup {Idle}],
           \A w \in Workers : txn'[w] # Idle =>
             /\ txn'[w] = txn[w]
             /\ txn[w].pc = "convert" => quotation'[txn[w].of] = "OPEN"
    PROVE  IInv'
<1>1. TablesInv'
  <2>1. DocumentsInOrder' /\ EntriesExist'
    BY InvParts DEF TablesInv, DocumentsInOrder, Follows, Invoices, OfType, EntriesExist
  <2>2. NotesFit' /\ LinesTold'
    BY InvParts, DocumentsKept DEF TablesInv, NotesFit, LinesTold
  <2>3. QED
    BY <2>1, <2>2, InvParts DEF TablesInv
<1>2. TxnInv'
  <2>1. ASSUME NEW w \in Workers, NEW t, t = txn'[w], t # Idle PROVE Sound(t)'
    <3>1. t = txn[w] /\ Sound(t) /\ t \in Request \cup Conversion
      BY <2>1, InvParts DEF TxnInv
    <3>2. CASE t.pc = "convert"
      BY <2>1, <3>1, <3>2 DEF Sound
    <3>3. CASE t.pc # "convert"
      <4>1. t \in Request
        BY <3>1, <3>3 DEF Conversion
      <4>2. Linked(t)'
        BY <3>1, <3>3, DocumentsKept DEF Sound, Linked
      <4>3. ASSUME t.pc # "lock" PROVE Checked(t)'
        <5>1. Checked(t)
          BY <3>1, <3>3, <4>3 DEF Sound
        <5>2. \A l \in DOMAIN t.claims : OrderOf[l] \in Orders
          <6>1. t.claims \in Claims
            BY <4>1 DEF Request
          <6>2. QED
            BY <6>1, ClaimsType, ReceivablesAssumption
        <5>3. QED
          BY <5>1, <5>2, DocumentsKept DEF Checked
      <4>4. t.taken => InStock(t)'
        BY <3>1, <3>3 DEF Sound, InStock
      <4>5. QED
        BY <3>3, <4>2, <4>3, <4>4 DEF Sound
    <3>4. QED
      BY <3>2, <3>3
  <2>2. QED
    BY <2>1 DEF TxnInv
<1>3. LockInv'
  BY InvParts DEF LockInv, Apart, Locks
<1>4. QED
  <2>1. (IInv <=> /\ TablesInv /\ TxnInv /\ LockInv
                  /\ txn \in [Workers -> Request \cup Conversion \cup {Idle}])'
    BY InvParts, PTL
  <2>2. QED
    BY <1>1, <1>2, <1>3, <2>1

(* An order without invoices is made or cancelled.                         *)
LEMMA OrderChanges ==
    ASSUME IInv, UNCHANGED invoiced, NEW o \in Orders, status[o] \in {"NONE", "OPEN"},
           NEW s \in {"OPEN", "CANCELLED"}, status' = [status EXCEPT ![o] = s]
    PROVE  /\ OrdersTold' /\ status' \in [Orders -> Statuses]
           /\ \A p \in Orders : status'[p] = IF p = o THEN s ELSE status[p]
<1>1. \A p \in Orders : status'[p] = IF p = o THEN s ELSE status[p]
  BY InvParts DEF TablesInv
<1>2. ASSUME NEW p \in Orders PROVE OrderTold(p)'
  <2>1. OrderTold(p) /\ OrderTold(o)
    BY InvParts DEF TablesInv, OrdersTold
  <2>2. CASE p # o
    BY <1>1, <2>1, <2>2 DEF OrderTold, LinesOf
  <2>3. CASE p = o
    BY <1>1, <2>1, <2>3 DEF OrderTold, LinesOf
  <2>4. QED
    BY <2>2, <2>3
<1>3. QED
  BY <1>1, <1>2, InvParts DEF OrdersTold, TablesInv, Statuses

(* A quotation's status changes, and no order with it.                     *)
LEMMA QuotationStep ==
    ASSUME IInv, NEW q \in Quotations, CreateQuotation(q) \/ CloseQuotation(q)
    PROVE  IInv'
<1>1. PICK s \in {"OPEN", "CLOSED"} : quotation' = [quotation EXCEPT ![q] = s]
  BY DEF CreateQuotation, CloseQuotation
<1>2. UNCHANGED <<documents, entries, invoiced, status, stock, txn>>
  BY DEF CreateQuotation, CloseQuotation
<1>3. quotation \in [Quotations -> {"NONE", "OPEN", "CONVERTED", "CLOSED"}]
      /\ quotation[q] \in {"NONE", "OPEN"}
  BY InvParts DEF TablesInv, CreateQuotation, CloseQuotation, OpenQuotation
<1>4. \A r \in Quotations : quotation'[r] = IF r = q THEN s ELSE quotation[r]
  BY <1>1, <1>3
<1>5. QuotationsTold'
  <2>1. \A r : MadeOrders(r)' = MadeOrders(r)
    BY <1>2 DEF MadeOrders
  <2>2. QED
    BY <1>3, <1>4, <2>1, InvParts DEF TablesInv, QuotationsTold
<1>6. OrdersTold'
  BY <1>2, InvParts DEF TablesInv, OrdersTold, OrderTold, LinesOf
<1>7. ASSUME NEW w \in Workers, txn[w] # Idle, txn[w].pc = "convert"
      PROVE  quotation'[txn[w].of] = "OPEN"
  <2>1. quotation[txn[w].of] = "OPEN" /\ txn[w] \in Request \cup Conversion
    BY <1>7, InvParts DEF TxnInv, Sound
  <2>2. txn[w].of \in Quotations
    BY <1>7, <2>1 DEF Request, Conversion
  <2>3. txn[w].of # q
    BY <1>7, <2>1 DEF CreateQuotation, CloseQuotation, OpenQuotation, Converting, Active, At
  <2>4. QED
    BY <1>4, <2>1, <2>2, <2>3
<1>8. /\ status' \in [Orders -> Statuses]
      /\ quotation' \in [Quotations -> {"NONE", "OPEN", "CONVERTED", "CLOSED"}]
      /\ txn' \in [Workers -> Request \cup Conversion \cup {Idle}]
  BY <1>1, <1>2, InvParts DEF TablesInv
<1>9. QED
  BY <1>2, <1>5, <1>6, <1>7, <1>8, OrdersMove

(* An order is made or cancelled without a quotation.                    *)
LEMMA CreateOrderStep ==
    ASSUME IInv, NEW o \in Orders, CreateOrder(o) \/ CancelOrder(o)
    PROVE  IInv'
<1>1. UNCHANGED <<documents, entries, invoiced, quotation, stock, txn>>
  BY DEF CreateOrder, CancelOrder
<1>2. /\ OrdersTold' /\ status' \in [Orders -> Statuses]
      /\ \E s \in {"OPEN", "CANCELLED"} :
           \A p \in Orders : status'[p] = IF p = o THEN s ELSE status[p]
  BY <1>1, OrderChanges DEF CreateOrder, CancelOrder
<1>3. MadeFrom[o] = NoQuotation \/ status[o] # "NONE"
  BY DEF CreateOrder, CancelOrder
<1>4. \A q \in Quotations : MadeOrders(q)' = MadeOrders(q)
  BY <1>2, <1>3, ReceivablesAssumption DEF MadeOrders
<1>5. QuotationsTold'
  BY <1>1, <1>4, InvParts DEF TablesInv, QuotationsTold
<1>6. \A w \in Workers : txn[w] # Idle /\ txn[w].pc = "convert" => quotation'[txn[w].of] = "OPEN"
  BY <1>1, InvParts DEF TxnInv, Sound
<1>7. \A p \in Orders : status[p] # "NONE" => status'[p] # "NONE"
  BY <1>2
<1>8. /\ quotation' \in [Quotations -> {"NONE", "OPEN", "CONVERTED", "CLOSED"}]
      /\ txn' \in [Workers -> Request \cup Conversion \cup {Idle}]
      /\ \A w \in Workers : txn'[w] = txn[w]
  BY <1>1, InvParts DEF TablesInv
<1>9. QED
  BY <1>1, <1>2, <1>5, <1>6, <1>7, <1>8, OrdersMove

(* An order made from a quotation uses it up.                              *)
LEMMA MakeOrderStep ==
    ASSUME IInv, NEW w \in Workers, MakeOrder(w)
    PROVE  IInv'
<1>1. PICK q : q = txn[w].of
  OBVIOUS
<1>2. PICK o \in Orders : /\ status[o] = "NONE" /\ MadeFrom[o] = q
                          /\ status' = [status EXCEPT ![o] = "OPEN"]
  BY <1>1 DEF MakeOrder
<1>3. /\ quotation' = [quotation EXCEPT ![q] = "CONVERTED"] /\ Set(w, Idle)
      /\ UNCHANGED <<documents, entries, invoiced, stock>>
  BY <1>1 DEF MakeOrder
<1>4. /\ OrdersTold' /\ status' \in [Orders -> Statuses]
      /\ \A p \in Orders : status'[p] = IF p = o THEN "OPEN" ELSE status[p]
  BY <1>2, <1>3, OrderChanges
<1>5. quotation[q] = "OPEN" /\ q \in Quotations
  <2>1. txn[w] \in Request \cup Conversion /\ txn[w].pc = "convert" /\ Sound(txn[w])
    BY InvParts DEF MakeOrder, At, TxnInv
  <2>2. QED
    BY <1>1, <2>1 DEF Sound, Request, Conversion
<1>6. /\ quotation' \in [Quotations -> {"NONE", "OPEN", "CONVERTED", "CLOSED"}]
      /\ \A r \in Quotations : quotation'[r] = IF r = q THEN "CONVERTED" ELSE quotation[r]
  BY <1>3, InvParts DEF TablesInv
<1>7. QuotationsTold'
  <2>1. MadeOrders(q) = {}
    BY <1>5, InvParts DEF TablesInv, QuotationsTold
  <2>2. MadeOrders(q)' = {o}
    <3>1. \A p \in Orders : MadeFrom[p] = q => status[p] = "NONE"
      BY <2>1 DEF MadeOrders
    <3>2. QED
      BY <1>2, <1>4, <3>1 DEF MadeOrders
  <2>3. \A r \in Quotations \ {q} : MadeOrders(r)' = MadeOrders(r)
    BY <1>2, <1>4 DEF MadeOrders
  <2>4. QED
    BY <1>6, <2>2, <2>3, InvParts DEF TablesInv, QuotationsTold
<1>8. /\ txn' \in [Workers -> Request \cup Conversion \cup {Idle}]
      /\ txn'[w] = Idle /\ \A v \in Workers \ {w} : txn'[v] = txn[v]
  BY <1>3, InvParts DEF Set
<1>9. ASSUME NEW v \in Workers, txn'[v] # Idle
      PROVE  txn'[v] = txn[v] /\ (txn[v].pc = "convert" => quotation'[txn[v].of] = "OPEN")
  <2>1. v # w /\ txn'[v] = txn[v] /\ txn[v] # Idle
    BY <1>8, <1>9
  <2>2. ASSUME txn[v].pc = "convert" PROVE quotation'[txn[v].of] = "OPEN"
    <3>1. quotation[txn[v].of] = "OPEN" /\ txn[v] \in Request \cup Conversion
      BY <2>1, <2>2, InvParts DEF TxnInv, Sound
    <3>2. txn[v].of \in Quotations
      BY <2>2, <3>1 DEF Request, Conversion
    <3>3. txn[v].of # q
      BY <1>1, <2>1, <2>2, InvParts DEF LockInv, Apart, MakeOrder, At
    <3>4. QED
      BY <1>6, <3>1, <3>2, <3>3
  <2>3. QED
    BY <2>1, <2>2
<1>10. \A p \in Orders : status[p] # "NONE" => status'[p] # "NONE"
  BY <1>4
<1>11. QED
  BY <1>3, <1>4, <1>6, <1>7, <1>8, <1>9, <1>10, OrdersMove


-----------------------------------------------------------------------------
(* Storing a document *)

(* What the four kinds of documents have in common, E being the entry.     *)
Stored(w, E) ==
    LET t == txn[w] IN
    /\ At(w, "store") /\ Set(w, Idle) /\ UNCHANGED quotation
    /\ documents' = Append(documents, NewDocument(t))
    /\ entries' = IF t.entry = 0 THEN Append(entries, E) ELSE entries
    /\ CountClaims(t)
    /\ stock' = IF t.taken THEN AfterIssue(stock, t.goods) ELSE stock

EntryFor(t, E) ==
    /\ E \in Entry /\ E.key = t.key
    /\ E.receivable = Effect(t) /\ E.inventory = -t.cost

(* A document without lines leaves the counters as they are.               *)
LEMMA NothingClaimed ==
    ASSUME IInv, NEW t, DOMAIN t.claims = {}, UNCHANGED <<invoiced, status>>
    PROVE  CountClaims(t)
<1>1. invoiced \in [OrderLines -> Nat] /\ status \in [Orders -> Statuses]
  BY InvParts DEF TablesInv
<1>2. invoiced = [l \in OrderLines |-> invoiced[l]] /\ status = [o \in Orders |-> status[o]]
  BY <1>1
<1>3. QED
  BY <1>2 DEF CountClaims

(* The four kinds of documents store themselves alike.                   *)
LEMMA StoreCases ==
    ASSUME IInv, NEW w \in Workers,
           StoreInvoice(w) \/ StoreCreditNote(w) \/ StoreDebitNote(w) \/ StoreReceipt(w)
    PROVE  \E E : Stored(w, E) /\ EntryFor(txn[w], E)
<1>1. PICK t : t = txn[w]
  OBVIOUS
<1>2. t \in Request /\ t.pc = "store" /\ Linked(t)
  BY <1>1, RequestFacts DEF StoreInvoice, StoreCreditNote, StoreDebitNote, StoreReceipt, Store
<1>3. /\ t.type \in Types /\ t.key \in Keys /\ t.day \in Days /\ t.amount \in Nat \ {0}
      /\ t.cost \in Nat /\ t.goods \in Nat /\ t.taken \in BOOLEAN
  BY <1>2 DEF Request
<1>4. t.type # "sales_invoice" => DOMAIN t.claims = {} /\ t.taken = FALSE /\ t.cost = 0
  BY <1>2, <1>3 DEF Linked
<1>5. CASE StoreInvoice(w)
  <2>1. PICK E : E = InvoiceEntry(t)
    OBVIOUS
  <2>2. t.type = "sales_invoice"
    BY <1>1, <1>5 DEF StoreInvoice, Store
  <2>3. EntryFor(t, E)
    <3>1. E = [key |-> t.key, type |-> t.type, day |-> t.day,
               receivable |-> t.amount, inventory |-> -t.cost]
      BY <2>1 DEF InvoiceEntry, NewEntry
    <3>2. QED
      BY <1>3, <2>2, <3>1 DEF EntryFor, Entry, Effect
  <2>4. Stored(w, E)
    BY <1>1, <1>5, <2>1 DEF StoreInvoice, Store, Stored
  <2>5. QED
    BY <1>1, <2>3, <2>4
<1>6. CASE StoreCreditNote(w)
  <2>1. PICK E : E = CreditNoteEntry(t)
    OBVIOUS
  <2>2. t.type = "sales_credit_note"
    BY <1>1, <1>6 DEF StoreCreditNote, Store
  <2>3. EntryFor(t, E)
    <3>1. E = [key |-> t.key, type |-> t.type, day |-> t.day,
               receivable |-> -t.amount, inventory |-> 0]
      BY <2>1 DEF CreditNoteEntry, NewEntry
    <3>2. QED
      BY <1>3, <1>4, <2>2, <3>1 DEF EntryFor, Entry, Effect
  <2>4. CountClaims(t)
    BY <1>4, <1>6, <2>2, NothingClaimed DEF StoreCreditNote
  <2>5. Stored(w, E)
    BY <1>1, <1>4, <1>6, <2>1, <2>2, <2>4 DEF StoreCreditNote, Store, Stored
  <2>6. QED
    BY <1>1, <2>3, <2>5
<1>7. CASE StoreDebitNote(w)
  <2>1. PICK E : E = DebitNoteEntry(t)
    OBVIOUS
  <2>2. t.type = "sales_debit_note"
    BY <1>1, <1>7 DEF StoreDebitNote, Store
  <2>3. EntryFor(t, E)
    <3>1. E = [key |-> t.key, type |-> t.type, day |-> t.day,
               receivable |-> t.amount, inventory |-> 0]
      BY <2>1 DEF DebitNoteEntry, NewEntry
    <3>2. QED
      BY <1>3, <1>4, <2>2, <3>1 DEF EntryFor, Entry, Effect
  <2>4. CountClaims(t)
    BY <1>4, <1>7, <2>2, NothingClaimed DEF StoreDebitNote
  <2>5. Stored(w, E)
    BY <1>1, <1>4, <1>7, <2>1, <2>2, <2>4 DEF StoreDebitNote, Store, Stored
  <2>6. QED
    BY <1>1, <2>3, <2>5
<1>8. CASE StoreReceipt(w)
  <2>1. PICK E : E = ReceiptEntry(t)
    OBVIOUS
  <2>2. t.type = "customer_receipt"
    BY <1>1, <1>8 DEF StoreReceipt, Store
  <2>3. EntryFor(t, E)
    <3>1. E = [key |-> t.key, type |-> t.type, day |-> t.day,
               receivable |-> -t.amount, inventory |-> 0]
      BY <2>1 DEF ReceiptEntry, NewEntry
    <3>2. QED
      BY <1>3, <1>4, <2>2, <3>1 DEF EntryFor, Entry, Effect
  <2>4. CountClaims(t)
    BY <1>4, <1>8, <2>2, NothingClaimed DEF StoreReceipt
  <2>5. Stored(w, E)
    BY <1>1, <1>4, <1>8, <2>1, <2>2, <2>4 DEF StoreReceipt, Store, Stored
  <2>6. QED
    BY <1>1, <2>3, <2>5
<1>9. QED
  BY <1>5, <1>6, <1>7, <1>8

(* The new document, and the sums it leaves.                               *)
StoredFacts(t, D) ==
    /\ Appended(D) /\ D = NewDocument(t)
    /\ D.type = t.type /\ D.customer = t.customer /\ D.amount = t.amount /\ D.of = t.of
    /\ D.settles = t.settles /\ D.claims = t.claims /\ D.goods = t.goods
    /\ t \in Request /\ Linked(t) /\ Checked(t) /\ Locks(t)
    /\ t.taken => InStock(t)

(* The document is of the right kind and names what is there.            *)
LEMMA StoredDocument ==
    ASSUME IInv, NEW w \in Workers, NEW E, Stored(w, E), NEW t, t = txn[w]
    PROVE  \E D : StoredFacts(t, D)
<1>1. PICK D : D = NewDocument(t)
  OBVIOUS
<1>2. /\ t \in Request /\ t.pc = "store" /\ Linked(t) /\ Checked(t)
      /\ t.taken => InStock(t)
  BY RequestFacts DEF Stored
<1>3. /\ D.type = t.type /\ D.customer = t.customer /\ D.amount = t.amount /\ D.of = t.of
      /\ D.settles = t.settles /\ D.claims = t.claims /\ D.goods = t.goods
  BY <1>1 DEF NewDocument
<1>4. documents \in Seq(Document) /\ DocumentsInOrder /\ Len(entries) \in Nat
  BY InvParts DEF TablesInv
<1>5. D \in Document
  <2>1. PICK e : e = IF t.entry = 0 THEN Len(entries) + 1 ELSE t.entry
    OBVIOUS
  <2>2. e \in Nat
    BY <1>2, <1>4, <2>1 DEF Request
  <2>3. D = [type |-> t.type, customer |-> t.customer, day |-> t.day, amount |-> t.amount,
             of |-> t.of, settles |-> t.settles, claims |-> t.claims, goods |-> t.goods,
             entry |-> e]
    BY <1>1, <2>1 DEF NewDocument
  <2>4. QED
    BY <1>2, <2>2, <2>3 DEF Request, Document
<1>6. Follows(Len(documents) + 1, D)
  <2>1. \A i \in Invoices : i < Len(documents) + 1
    BY <1>4 DEF Invoices, OfType
  <2>2. QED
    BY <1>2, <1>3, <2>1 DEF Follows, Linked, Checked
<1>7. documents' = Append(documents, D)
  BY <1>1 DEF Stored
<1>8. QED
  BY <1>1, <1>2, <1>3, <1>4, <1>5, <1>6, <1>7 DEF StoredFacts, Appended, Locks


(* The tables afterwards, in the words of the request.                     *)
StoredState(t, D, n) ==
    /\ documents' \in Seq(Document) /\ entries' \in Seq(Entry)
    /\ DOMAIN entries \subseteq DOMAIN entries' /\ D.entry \in DOMAIN entries'
    /\ DOMAIN documents' = DOMAIN documents \cup {n} /\ n \notin DOMAIN documents
    /\ documents'[n] = D
    /\ \A i \in DOMAIN documents : documents'[i] = documents[i] /\ i # n
    /\ Invoices \subseteq DOMAIN documents /\ Invoices \subseteq Invoices'
    /\ Invoices' \subseteq Invoices \cup {n}
    /\ invoiced \in [OrderLines -> Nat] /\ invoiced' \in [OrderLines -> Nat]
    /\ \A l \in OrderLines :
         invoiced'[l] = IF l \in DOMAIN t.claims THEN invoiced[l] + t.claims[l] ELSE invoiced[l]

(* The tables and the counters afterwards.                               *)
LEMMA StoredTables ==
    ASSUME IInv, NEW w \in Workers, NEW E, Stored(w, E), EntryFor(txn[w], E),
           NEW t, t = txn[w], NEW D, StoredFacts(t, D), NEW n, n = Len(documents) + 1
    PROVE  StoredState(t, D, n)
<1>1. /\ documents' \in Seq(Document)
      /\ DOMAIN documents' = DOMAIN documents \cup {n} /\ n \notin DOMAIN documents
      /\ documents'[n] = D
      /\ \A i \in DOMAIN documents : documents'[i] = documents[i] /\ i # n
  BY AppendedDocuments DEF StoredFacts
<1>2. /\ Invoices \subseteq DOMAIN documents /\ Invoices \subseteq Invoices'
      /\ Invoices' \subseteq Invoices \cup {n}
  BY <1>1 DEF Invoices, OfType
<1>3. /\ entries' \in Seq(Entry) /\ DOMAIN entries \subseteq DOMAIN entries'
      /\ D.entry \in DOMAIN entries'
  <2>1. entries \in Seq(Entry) /\ E \in Entry
    BY InvParts DEF TablesInv, EntryFor
  <2>2. D.entry = IF t.entry = 0 THEN Len(entries) + 1 ELSE t.entry
    BY DEF StoredFacts, NewDocument
  <2>3. entries' = IF t.entry = 0 THEN Append(entries, E) ELSE entries
    BY DEF Stored
  <2>4. t.entry # 0 => t.entry \in DOMAIN entries
    BY DEF StoredFacts, Linked
  <2>5. QED
    BY <2>1, <2>2, <2>3, <2>4
<1>4. /\ invoiced \in [OrderLines -> Nat] /\ invoiced' \in [OrderLines -> Nat]
      /\ \A l \in OrderLines :
           invoiced'[l] = IF l \in DOMAIN t.claims THEN invoiced[l] + t.claims[l] ELSE invoiced[l]
  <2>1. invoiced' = [l \in OrderLines |->
                      IF l \in DOMAIN t.claims THEN invoiced[l] + t.claims[l] ELSE invoiced[l]]
    BY DEF Stored, CountClaims
  <2>2. invoiced \in [OrderLines -> Nat]
    BY InvParts DEF TablesInv
  <2>3. \A l \in DOMAIN t.claims : t.claims[l] \in Nat
    BY ClaimsType DEF StoredFacts, Request
  <2>4. QED
    BY <2>1, <2>2, <2>3
<1>5. QED
  BY <1>1, <1>2, <1>3, <1>4 DEF StoredState

(* Documents stay in order, notes fit, the counters of the lines tell
   what was invoiced.                                                    *)
LEMMA StoredOrder ==
    ASSUME IInv, NEW w \in Workers, NEW E, Stored(w, E), EntryFor(txn[w], E),
           NEW t, t = txn[w], NEW D, StoredFacts(t, D)
    PROVE  DocumentsInOrder' /\ EntriesExist' /\ NotesFit' /\ LinesTold'
<1>1. PICK n : n = Len(documents) + 1
  OBVIOUS
<1>2. Appended(D) /\ DocumentsInOrder /\ EntriesExist /\ NotesFit /\ LinesTold
  BY InvParts DEF StoredFacts, TablesInv
<1>state. StoredState(t, D, n)
  BY <1>1, StoredTables
<1>3. DocumentsInOrder'
  <2>1. ASSUME NEW d \in DOMAIN documents', NEW e, e = documents'[d] PROVE Follows(d, e)'
    <3>1. Follows(d, e)
      BY <1>1, <1>2, <2>1, <1>state DEF DocumentsInOrder, Appended, StoredState
    <3>2. \A i \in Invoices : i \in Invoices' /\ documents'[i] = documents[i]
      BY <1>state DEF StoredState
    <3>3. QED
      BY <3>1, <3>2 DEF Follows
  <2>2. QED
    BY <2>1 DEF DocumentsInOrder
<1>4. EntriesExist'
  BY <1>2, <1>state DEF EntriesExist, StoredState
<1>5. NotesFit'
  <2>1. ASSUME NEW i \in Invoices
        PROVE  Noted("sales_credit_note", i)' <= documents'[i].amount
    <3>1. /\ Noted("sales_credit_note", i)' = Noted("sales_credit_note", i)
                                              + NoteOn("sales_credit_note", D, i)
          /\ Noted("sales_credit_note", i) \in Nat
      BY <1>2, NotedStep, NotedType DEF Appended
    <3>2. documents'[i].amount = documents[i].amount
          /\ Noted("sales_credit_note", i) <= documents[i].amount
      BY <1>2, <1>state DEF NotesFit, StoredState
    <3>3. CASE D.type = "sales_credit_note" /\ D.of = i
      <4>1. WithinInvoice(t) /\ t.type = "sales_credit_note" /\ t.of = i /\ D.amount = t.amount
        BY <3>3 DEF StoredFacts, Checked, Notes
      <4>2. Noted("sales_credit_note", i) + D.amount <= documents[i].amount
        BY <4>1 DEF WithinInvoice, Noted, Amount
      <4>3. QED
        BY <3>1, <3>2, <3>3, <4>2 DEF NoteOn
    <3>4. CASE ~(D.type = "sales_credit_note" /\ D.of = i)
      BY <3>1, <3>2, <3>4 DEF NoteOn
    <3>5. QED
      BY <3>3, <3>4
  <2>2. Noted("sales_credit_note", n)' <= documents'[n].amount
    <3>1. n \notin DOMAIN documents /\ n # 0 /\ documents'[n] = D /\ Len(documents) \in Nat
      BY <1>1, <1>2, AppendedDocuments
    <3>2. Noted("sales_credit_note", n) = 0
      BY <1>2, <3>1, NothingAhead DEF Appended
    <3>3. D.of # n
      BY <1>1, <1>2, <3>1 DEF Appended, Follows
    <3>4. Noted("sales_credit_note", n)' = 0
      BY <1>2, <3>2, <3>3, NotedStep DEF NoteOn
    <3>5. QED
      BY <1>2, <3>1, <3>4 DEF Appended, Document
  <2>3. QED
    BY <2>1, <2>2, <1>state DEF NotesFit, StoredState
<1>6. LinesTold'
  <2>1. ASSUME NEW l \in OrderLines
        PROVE  invoiced'[l] = Claimed(l)' /\ invoiced'[l] <= Ordered[l]
    <3>1. Claimed(l)' = Claimed(l) + ClaimIn(D, l)
      BY <1>2, ClaimedStep
    <3>2. invoiced'[l] = IF l \in DOMAIN t.claims THEN invoiced[l] + t.claims[l] ELSE invoiced[l]
      BY <1>state DEF StoredState
    <3>3. D.type = "sales_invoice" \/ DOMAIN D.claims = {}
      BY DEF StoredFacts, Linked
    <3>4. ClaimIn(D, l) = IF l \in DOMAIN t.claims THEN t.claims[l] ELSE 0
      BY <3>3 DEF StoredFacts, ClaimIn
    <3>5. invoiced[l] = Claimed(l) /\ invoiced[l] <= Ordered[l] /\ invoiced[l] \in Nat
      BY <1>2, InvParts DEF LinesTold, TablesInv
    <3>6. l \in DOMAIN t.claims => invoiced[l] + t.claims[l] <= Ordered[l]
      BY DEF StoredFacts, Checked
    <3>7. QED
      BY <3>1, <3>2, <3>4, <3>5, <3>6
  <2>2. QED
    BY <2>1 DEF LinesTold
<1>7. QED
  BY <1>3, <1>4, <1>5, <1>6

(* So do the statuses of the orders; no order is made or unmade.         *)
LEMMA StoredOrders ==
    ASSUME IInv, NEW w \in Workers, NEW E, Stored(w, E), EntryFor(txn[w], E),
           NEW t, t = txn[w], NEW D, StoredFacts(t, D)
    PROVE  /\ status' \in [Orders -> Statuses] /\ OrdersTold' /\ QuotationsTold'
           /\ \A o \in Orders : status[o] # "NONE" <=> status'[o] # "NONE"
<1>1. PICK n : n = Len(documents) + 1
  OBVIOUS
<1>2. /\ invoiced \in [OrderLines -> Nat] /\ invoiced' \in [OrderLines -> Nat]
      /\ status \in [Orders -> Statuses]
      /\ \A l \in OrderLines :
           invoiced'[l] = IF l \in DOMAIN t.claims THEN invoiced[l] + t.claims[l] ELSE invoiced[l]
  <2>1. StoredState(t, D, n)
    BY <1>1, StoredTables
  <2>2. status \in [Orders -> Statuses]
    BY InvParts DEF TablesInv
  <2>3. QED
    BY <2>1, <2>2 DEF StoredState
<1>3. \A l \in DOMAIN t.claims : l \in OrderLines /\ t.claims[l] \in Nat \ {0}
                                   /\ status[OrderOf[l]] # "NONE"
  BY ClaimsType DEF StoredFacts, Request, Checked
<1>4. status' = [o \in Orders |->
                    IF \E l \in DOMAIN t.claims : OrderOf[l] = o
                    THEN Progress(o, invoiced') ELSE status[o]]
  BY DEF Stored, CountClaims
<1>5. \A o \in Orders : Progress(o, invoiced') \in {"INVOICED", "PARTIALLY_INVOICED"}
  BY DEF Progress
<1>6. status' \in [Orders -> Statuses]
      /\ \A o \in Orders : status[o] # "NONE" <=> status'[o] # "NONE"
  BY <1>2, <1>3, <1>4, <1>5 DEF Statuses
<1>7. LinesTold'
  BY StoredOrder
<1>8. ASSUME NEW o \in Orders PROVE OrderTold(o)'
  <2>1. CASE \E l \in DOMAIN t.claims : OrderOf[l] = o
    <3>1. PICK k \in DOMAIN t.claims : OrderOf[k] = o
      BY <2>1
    <3>2. status'[o] = Progress(o, invoiced')
      BY <1>4, <2>1
    <3>3. k \in LinesOf(o) /\ invoiced'[k] > 0
      <4>1. k \in OrderLines /\ t.claims[k] \in Nat \ {0} /\ invoiced[k] \in Nat
        BY <1>2, <1>3
      <4>2. invoiced'[k] = invoiced[k] + t.claims[k]
        BY <1>2, <4>1
      <4>3. QED
        BY <3>1, <4>1, <4>2 DEF LinesOf
    <3>4. \A l \in LinesOf(o) : /\ invoiced'[l] \in Nat /\ Ordered[l] \in Nat
                                /\ invoiced'[l] <= Ordered[l]
      BY <1>2, <1>7, ReceivablesAssumption DEF LinesTold, LinesOf
    <3>5. status'[o] = "INVOICED" <=> \A l \in LinesOf(o) : invoiced'[l] = Ordered[l]
      BY <3>2, <3>4 DEF Progress, LinesOf
    <3>6. QED
      BY <1>5, <3>2, <3>3, <3>5 DEF OrderTold, LinesOf
  <2>2. CASE ~\E l \in DOMAIN t.claims : OrderOf[l] = o
    <3>1. status'[o] = status[o] /\ \A l \in LinesOf(o) : invoiced'[l] = invoiced[l]
      BY <1>2, <1>4, <2>2 DEF LinesOf
    <3>2. OrderTold(o)
      BY InvParts DEF TablesInv, OrdersTold
    <3>3. QED
      BY <3>1, <3>2 DEF OrderTold, LinesOf
  <2>3. QED
    BY <2>1, <2>2
<1>9. QuotationsTold'
  <2>1. \A q : MadeOrders(q)' = MadeOrders(q)
    BY <1>6 DEF MadeOrders
  <2>2. QED
    BY <2>1, InvParts DEF TablesInv, QuotationsTold, Stored
<1>10. QED
  BY <1>6, <1>8, <1>9 DEF OrdersTold


(* What the others have checked is not stale: the customer's row and the
   stock row are held by the transaction that commits.                     *)
LEMMA CheckedStays ==
    ASSUME IInv, NEW w \in Workers, NEW E, Stored(w, E), EntryFor(txn[w], E),
           NEW t, t = txn[w], NEW D, StoredFacts(t, D),
           NEW s \in Request, Linked(s), Checked(s), s.customer # t.customer
    PROVE  Checked(s)'
<1>1. PICK n : n = Len(documents) + 1
  OBVIOUS
<1>state. StoredState(t, D, n)
  BY <1>1, StoredTables
<1>2. Appended(D) /\ D.customer = t.customer
  BY DEF StoredFacts
<1>3. ASSUME NEW l \in DOMAIN s.claims
      PROVE  /\ CustomerOf[OrderOf[l]] = s.customer /\ status'[OrderOf[l]] # "NONE"
             /\ invoiced'[l] + s.claims[l] <= Ordered[l]
  <2>1. l \in OrderLines /\ OrderOf[l] \in Orders
    BY ClaimsType, ReceivablesAssumption DEF Request
  <2>2. /\ CustomerOf[OrderOf[l]] = s.customer /\ status[OrderOf[l]] # "NONE"
        /\ invoiced[l] + s.claims[l] <= Ordered[l]
    BY DEF Checked
  <2>3. l \notin DOMAIN t.claims
    BY <2>2 DEF StoredFacts, Checked
  <2>4. invoiced'[l] = invoiced[l]
    BY <2>1, <2>3, <1>state DEF StoredState
  <2>5. status'[OrderOf[l]] # "NONE"
    BY <2>1, <2>2, StoredOrders
  <2>6. QED
    BY <2>2, <2>4, <2>5
<1>4. ASSUME s.type \in Notes PROVE WithinInvoice(s)'
  <2>1. s.of \in Invoices /\ documents[s.of].customer = s.customer
    BY <1>4 DEF Linked
  <2>2. WithinInvoice(s)
    BY <1>4 DEF Checked
  <2>3. D.of # s.of
    <3>1. D.type \in Notes => documents[D.of].customer = D.customer
      BY <1>2 DEF Appended, Follows
    <3>2. D.type \notin Notes => D.of = 0
      BY <1>2 DEF Appended, Follows
    <3>3. s.of # 0
      BY <2>1, <1>2, AppendedDocuments DEF Invoices, OfType
    <3>4. QED
      BY <1>2, <2>1, <3>1, <3>2, <3>3
  <2>4. Noted(s.type, s.of)' = Noted(s.type, s.of)
    <3>1. Noted(s.type, s.of) \in Nat
      BY <1>2, NotedType DEF Appended
    <3>2. PICK type, i : type = s.type /\ i = s.of
      OBVIOUS
    <3>3. Noted(type, i)' = Noted(type, i) + NoteOn(type, D, i)
      BY <1>2, NotedStep
    <3>4. NoteOn(type, D, i) = 0
      BY <2>3, <3>2 DEF NoteOn
    <3>5. QED
      BY <3>1, <3>2, <3>3, <3>4
  <2>5. documents'[s.of] = documents[s.of]
    BY <2>1, <1>state DEF StoredState
  <2>6. \A r : WithinInvoice(r) <=> Noted(r.type, r.of) + r.amount <= documents[r.of].amount
    BY DEF WithinInvoice, Noted, Amount
  <2>7. WithinInvoice(s)' <=> Noted(s.type, s.of)' + s.amount <= documents'[s.of].amount
    BY DEF WithinInvoice, Noted, Amount
  <2>8. QED
    BY <2>2, <2>4, <2>5, <2>6, <2>7
<1>5. ASSUME NEW i \in DOMAIN s.settles
      PROVE  documents'[i].customer = s.customer /\ s.settles[i] <= Due(i)'
  <2>1. i \in Invoices /\ documents[i].customer = s.customer /\ s.settles[i] <= Due(i)
    BY DEF Linked, Checked
  <2>2. i \in DOMAIN documents /\ documents'[i] = documents[i] /\ i # 0
    BY <2>1, <1>2, <1>state, AppendedDocuments DEF StoredState
  <2>3. DueChange(D, i) = 0
    <3>1. i \notin DOMAIN D.settles
      BY <1>2, <2>1 DEF Appended, Follows
    <3>2. D.of # i
      BY <1>2, <2>1, <2>2 DEF Appended, Follows
    <3>3. QED
      BY <3>1, <3>2 DEF DueChange, NoteOn, ShareIn
  <2>4. Due(i)' = Due(i)
    BY <1>1, <1>2, <2>2, <2>3, DueStep
  <2>5. QED
    BY <2>1, <2>2, <2>4
<1>6. QED
  BY <1>3, <1>4, <1>5 DEF Checked

(* A stored document keeps the invariant.                                *)
LEMMA StoreStep ==
    ASSUME IInv, NEW w \in Workers,
           StoreInvoice(w) \/ StoreCreditNote(w) \/ StoreDebitNote(w) \/ StoreReceipt(w)
    PROVE  IInv'
<1>1. PICK E : Stored(w, E) /\ EntryFor(txn[w], E)
  BY StoreCases
<1>2. PICK t : t = txn[w]
  OBVIOUS
<1>3. PICK D : StoredFacts(t, D)
  BY <1>1, <1>2, StoredDocument
<1>4. PICK n : n = Len(documents) + 1
  OBVIOUS
<1>state. StoredState(t, D, n)
  BY <1>1, <1>2, <1>3, <1>4, StoredTables
<1>5. DocumentsInOrder' /\ EntriesExist' /\ NotesFit' /\ LinesTold'
  BY <1>1, <1>2, <1>3, StoredOrder
<1>6. status' \in [Orders -> Statuses] /\ OrdersTold' /\ QuotationsTold'
  BY <1>1, <1>2, <1>3, StoredOrders
<1>7. stock' \in State /\ stock' = IF t.taken THEN AfterIssue(stock, t.goods) ELSE stock
  <2>1. stock' = IF t.taken THEN AfterIssue(stock, t.goods) ELSE stock
    BY <1>1, <1>2 DEF Stored
  <2>2. stock \in State /\ t.goods \in Nat /\ (t.taken => CanIssue(stock, t.goods))
    BY <1>3, InvParts DEF TablesInv, StoredFacts, Request, InStock
  <2>3. QED
    BY <2>1, <2>2, IssueType
<1>8. TablesInv'
  <2>1. quotation' \in [Quotations -> {"NONE", "OPEN", "CONVERTED", "CLOSED"}]
    BY <1>1, InvParts DEF TablesInv, Stored
  <2>2. QED
    BY <1>state, <1>5, <1>6, <1>7, <2>1 DEF TablesInv, StoredState
<1>9. /\ txn' \in [Workers -> Request \cup Conversion \cup {Idle}]
      /\ txn'[w] = Idle /\ \A v \in Workers \ {w} : txn'[v] = txn[v]
  BY <1>1, InvParts DEF Stored, Set
<1>10. TxnInv'
  <2>1. ASSUME NEW v \in Workers, NEW s, s = txn'[v], s # Idle PROVE Sound(s)'
    <3>1. v # w /\ s = txn[v] /\ s \in Request \cup Conversion /\ Sound(s)
      BY <1>9, <2>1, InvParts DEF TxnInv
    <3>2. Apart(s, t) /\ Locks(t)
      BY <1>1, <1>2, <1>3, <2>1, <3>1, InvParts DEF LockInv, Stored, At, StoredFacts
    <3>3. CASE s.pc = "convert"
      BY <1>1, <3>1, <3>3 DEF Sound, Stored
    <3>4. CASE s.pc # "convert"
      <4>1. s \in Request /\ Linked(s)
        BY <3>1, <3>4 DEF Conversion, Sound
      <4>2. Linked(s)'
        <5>1. /\ \A i \in Invoices : i \in Invoices' /\ documents'[i] = documents[i]
              /\ DOMAIN entries \subseteq DOMAIN entries'
          BY <1>state DEF StoredState
        <5>2. QED
          BY <4>1, <5>1 DEF Linked
      <4>3. ASSUME s.pc # "lock" PROVE Checked(s)'
        <5>1. Checked(s) /\ s.customer # t.customer
          BY <3>1, <3>2, <3>4, <4>3 DEF Sound, Apart, Locks
        <5>2. QED
          BY <1>1, <1>2, <1>3, <4>1, <5>1, CheckedStays
      <4>4. ASSUME s.taken PROVE InStock(s)'
        <5>1. InStock(s) /\ stock' = stock
          BY <1>7, <3>1, <3>2, <3>4, <4>4 DEF Sound, Apart
        <5>2. QED
          BY <5>1 DEF InStock
      <4>5. QED
        BY <3>4, <4>2, <4>3, <4>4 DEF Sound
    <3>5. QED
      BY <3>3, <3>4
  <2>2. QED
    BY <2>1 DEF TxnInv
<1>11. LockInv'
  BY <1>9, InvParts DEF LockInv, Apart, Locks
<1>12. QED
  <2>1. (IInv <=> /\ TablesInv /\ TxnInv /\ LockInv
                  /\ txn \in [Workers -> Request \cup Conversion \cup {Idle}])'
    BY InvParts, PTL
  <2>2. QED
    BY <1>8, <1>9, <1>10, <1>11, <2>1


-----------------------------------------------------------------------------
(* The invariant holds *)

(* At first nothing is there.                                            *)
LEMMA InitInv == Init => IInv
<1> SUFFICES ASSUME Init PROVE IInv
  OBVIOUS
<1>1. /\ DOMAIN documents = {} /\ DOMAIN entries = {}
      /\ documents \in Seq(Document) /\ entries \in Seq(Entry)
  BY DEF Init
<1>2. Invoices = {} /\ \A l : Claiming(l) = {}
  BY <1>1 DEF Invoices, OfType, Claiming
<1>3. \A l : Claimed(l) = 0
  BY <1>2, SumEmpty DEF Claimed, Total
<1>4. TablesInv
  <2>1. /\ invoiced \in [OrderLines -> Nat] /\ \A l \in OrderLines : invoiced[l] = 0
        /\ status \in [Orders -> Statuses] /\ \A o \in Orders : status[o] = "NONE"
        /\ quotation \in [Quotations -> {"NONE", "OPEN", "CONVERTED", "CLOSED"}]
        /\ \A q \in Quotations : quotation[q] = "NONE"
        /\ stock \in State
    BY ReceivablesAssumption DEF Init, Statuses
  <2>2. DocumentsInOrder /\ EntriesExist /\ NotesFit
    BY <1>1, <1>2 DEF DocumentsInOrder, EntriesExist, NotesFit
  <2>3. LinesTold
    BY <1>3, <2>1, ReceivablesAssumption DEF LinesTold
  <2>4. ASSUME NEW o \in Orders PROVE OrderTold(o)
    <3>1. PICK l \in LinesOf(o) : TRUE
      BY ReceivablesAssumption DEF LinesOf
    <3>2. \A k \in LinesOf(o) : invoiced[k] = 0 /\ Ordered[k] # 0
      BY <2>1, ReceivablesAssumption DEF LinesOf
    <3>3. QED
      BY <2>1, <3>1, <3>2 DEF OrderTold
  <2>5. QuotationsTold
    BY <2>1 DEF QuotationsTold, MadeOrders
  <2>6. QED
    BY <1>1, <2>1, <2>2, <2>3, <2>4, <2>5 DEF TablesInv, OrdersTold
<1>5. /\ txn \in [Workers -> Request \cup Conversion \cup {Idle}]
      /\ \A w \in Workers : txn[w] = Idle
  BY DEF Init
<1>6. QED
  BY <1>4, <1>5, InvParts DEF TxnInv, LockInv

(* Nothing happens.                                                      *)
LEMMA StutterStep == ASSUME IInv, UNCHANGED vars PROVE IInv'
<1>1. UNCHANGED tables /\ txn' = txn
  BY DEF vars
<1>2. TablesInv'
  BY <1>1, InvParts, TablesKept
<1>3. TxnInv'
  BY <1>1, SoundKept, InvParts DEF TxnInv
<1>4. LockInv'
  BY <1>1, InvParts DEF LockInv, Apart, Locks
<1>5. QED
  <2>1. (IInv <=> /\ TablesInv /\ TxnInv /\ LockInv
                  /\ txn \in [Workers -> Request \cup Conversion \cup {Idle}])'
    BY InvParts, PTL
  <2>2. QED
    BY <1>1, <1>2, <1>3, <1>4, <2>1, InvParts

(* Whether or not a step stores a document.                                *)
StoresDocument == \E w \in Workers :
    StoreInvoice(w) \/ StoreCreditNote(w) \/ StoreDebitNote(w) \/ StoreReceipt(w)

(* A step stores a document, or leaves documents, entries and stock
   alone.                                                                *)
LEMMA NextKinds ==
    ASSUME [Next]_vars
    PROVE  StoresDocument \/ UNCHANGED <<documents, entries, stock>>
<1>1. CASE UNCHANGED vars
  BY <1>1 DEF vars, tables
<1>2. ASSUME NEW w \in Workers, NEW r \in Requests, Submit(w, r)
      PROVE  UNCHANGED <<documents, entries, stock>>
  BY <1>2 DEF Submit, tables
<1>3. ASSUME NEW w \in Workers, NEW q \in Quotations, StartConversion(w, q)
      PROVE  UNCHANGED <<documents, entries, stock>>
  BY <1>3 DEF StartConversion, tables
<1>4. ASSUME NEW w \in Workers, MakeOrder(w) \/ Rollback(w)
      PROVE  UNCHANGED <<documents, entries, stock>>
  BY <1>4 DEF MakeOrder, Rollback, Fail, tables
<1>5. ASSUME NEW w \in Workers, LockCustomer(w) \/ TakeGoods(w) \/ PostEntry(w)
      PROVE  UNCHANGED <<documents, entries, stock>>
  BY <1>5 DEF LockCustomer, TakeGoods, PostEntry, Fail, tables
<1>6. ASSUME NEW q \in Quotations, CreateQuotation(q) \/ CloseQuotation(q)
      PROVE  UNCHANGED <<documents, entries, stock>>
  BY <1>6 DEF CreateQuotation, CloseQuotation
<1>7. ASSUME NEW o \in Orders, CreateOrder(o) \/ CancelOrder(o)
      PROVE  UNCHANGED <<documents, entries, stock>>
  BY <1>7 DEF CreateOrder, CancelOrder
<1>8. QED
  BY <1>1, <1>2, <1>3, <1>4, <1>5, <1>6, <1>7 DEF Next, Advance, StoresDocument

(* Every step keeps the invariant.                                       *)
LEMMA NextInv == IInv /\ [Next]_vars => IInv'
<1> SUFFICES ASSUME IInv, [Next]_vars PROVE IInv'
  OBVIOUS
<1>1. CASE UNCHANGED vars
  BY <1>1, StutterStep
<1>2. ASSUME NEW w \in Workers, NEW r \in Requests, Submit(w, r) PROVE IInv'
  BY <1>2, SubmitStep
<1>3. ASSUME NEW w \in Workers, NEW q \in Quotations, StartConversion(w, q) PROVE IInv'
  BY <1>3, StartConversionStep
<1>4. ASSUME NEW w \in Workers, MakeOrder(w) PROVE IInv'
  BY <1>4, MakeOrderStep
<1>5. ASSUME NEW w \in Workers, LockCustomer(w) PROVE IInv'
  BY <1>5, LockStep
<1>6. ASSUME NEW w \in Workers, TakeGoods(w) PROVE IInv'
  BY <1>6, TakeStep
<1>7. ASSUME NEW w \in Workers, PostEntry(w) PROVE IInv'
  BY <1>7, PostStep
<1>8. ASSUME NEW w \in Workers,
             StoreInvoice(w) \/ StoreCreditNote(w) \/ StoreDebitNote(w) \/ StoreReceipt(w)
      PROVE  IInv'
  BY <1>8, StoreStep
<1>9. ASSUME NEW w \in Workers, Rollback(w) PROVE IInv'
  BY <1>9, FailStep DEF Rollback
<1>10. ASSUME NEW q \in Quotations, CreateQuotation(q) \/ CloseQuotation(q) PROVE IInv'
  BY <1>10, QuotationStep
<1>11. ASSUME NEW o \in Orders, CreateOrder(o) \/ CancelOrder(o) PROVE IInv'
  BY <1>11, CreateOrderStep
<1>12. QED
  BY <1>1, <1>2, <1>3, <1>4, <1>5, <1>6, <1>7, <1>8, <1>9, <1>10, <1>11 DEF Next, Advance

(* The invariant holds in every state.                                   *)
LEMMA Invariance == Spec => []IInv
  BY InitInv, NextInv, PTL DEF Spec

(* Every variable holds a value of its kind; documents name only what was
   stored before them; the stock row never holds less than nothing.        *)
THEOREM Types_of_receivables == Spec => []TypeOK
<1>1. IInv => TypeOK
  <2> SUFFICES ASSUME IInv PROVE TypeOK
    OBVIOUS
  <2>1. TablesInv
    BY InvParts
  <2>2. ASSUME NEW i \in DOMAIN documents
        PROVE  /\ documents[i].type \in Types /\ documents[i].customer \in Customers
               /\ documents[i].amount > 0 /\ documents[i].of \in 0 .. (i - 1)
               /\ DOMAIN documents[i].settles \subseteq 1 .. (i - 1)
               /\ documents[i].entry \in DOMAIN entries
    <3>1. documents[i] \in Document /\ i \in Nat \ {0}
      BY <2>1 DEF TablesInv
    <3>2. Follows(i, documents[i]) /\ documents[i].entry \in DOMAIN entries
      BY <2>1 DEF TablesInv, DocumentsInOrder, EntriesExist
    <3>3. \A k \in Invoices : k \in Nat \ {0}
      BY <2>1 DEF TablesInv, Invoices, OfType
    <3>4. documents[i].of \in 0 .. (i - 1)
      BY <3>1, <3>2, <3>3 DEF Follows
    <3>5. DOMAIN documents[i].settles \subseteq 1 .. (i - 1)
      BY <3>1, <3>2, <3>3 DEF Follows
    <3>6. QED
      BY <3>1, <3>2, <3>4, <3>5 DEF Document
  <2>3. QED
    BY <2>1, <2>2 DEF TypeOK, TablesInv, Statuses
<1>2. QED
  BY <1>1, Invariance, PTL

(* Counters and statuses of orders tell what the posted invoices took of
   them, and a quotation becomes at most one order: of any number of
   concurrent invoices, conversions and cancellations.                     *)
THEOREM Orders_tell_what_happened == Spec => []OrdersTellWhatHappened
<1>1. IInv => OrdersTellWhatHappened
  <2> SUFFICES ASSUME IInv PROVE OrdersTellWhatHappened
    OBVIOUS
  <2>1. LinesTold /\ OrdersTold /\ QuotationsTold
    BY InvParts DEF TablesInv
  <2>2. \A l \in OrderLines :
          LET claiming == {i \in Invoices : l \in DOMAIN documents[i].claims}
          IN /\ invoiced[l] = Total(claiming, LAMBDA i : documents[i].claims[l])
             /\ invoiced[l] <= Ordered[l]
    BY <2>1 DEF LinesTold, Claimed, Claiming
  <2>3. \A o \in Orders :
          LET lines == {l \in OrderLines : OrderOf[l] = o} IN
          /\ status[o] = "INVOICED" <=> \A l \in lines : invoiced[l] = Ordered[l]
          /\ status[o] = "PARTIALLY_INVOICED" => \E l \in lines : invoiced[l] > 0
          /\ status[o] \in {"NONE", "OPEN", "CANCELLED"} => \A l \in lines : invoiced[l] = 0
    BY <2>1 DEF OrdersTold, OrderTold, LinesOf
  <2>4. ASSUME NEW q \in Quotations
        PROVE  Cardinality({o \in Orders : MadeFrom[o] = q /\ status[o] # "NONE"})
                 = IF quotation[q] = "CONVERTED" THEN 1 ELSE 0
    <3>1. MadeOrders(q) = {o \in Orders : MadeFrom[o] = q /\ status[o] # "NONE"}
      BY DEF MadeOrders
    <3>2. IF quotation[q] = "CONVERTED" THEN \E o : MadeOrders(q) = {o} ELSE MadeOrders(q) = {}
      BY <2>1 DEF QuotationsTold
    <3>3. Cardinality(MadeOrders(q)) = IF quotation[q] = "CONVERTED" THEN 1 ELSE 0
      BY <3>2, FS_EmptySet, FS_Singleton
    <3>4. QED
      BY <3>1, <3>3
  <2>5. QED
    BY <2>2, <2>3, <2>4 DEF OrdersTellWhatHappened
<1>2. QED
  BY <1>1, Invariance, PTL


-----------------------------------------------------------------------------
(* The report and the statements agree *)

(* What the reports say stays with the documents.                        *)
LEMMA ReportsKept ==
    ASSUME UNCHANGED documents
    PROVE  /\ \A c : Statement(c, LastDay)' = Statement(c, LastDay)
           /\ \A c : Ageing(c, LastDay)' = Ageing(c, LastDay)
           /\ AgeingTotal(LastDay)' = AgeingTotal(LastDay)
           /\ Sold' = Sold
<1>1. \A c : Statement(c, LastDay)' = Statement(c, LastDay)
  BY DEF Statement, Total, UpTo, OfType, Amount
<1>2. \A c : Ageing(c, LastDay)' = Ageing(c, LastDay)
  <2>1. \A i : Outstanding(i, LastDay)' = Outstanding(i, LastDay)
    BY DocumentsKept DEF Due
  <2>2. \A p : SettledBy(p)' = SettledBy(p) /\ Amount(p)' = Amount(p)
    BY DEF SettledBy, Total, Amount
  <2>3. QED
    BY <2>1, <2>2 DEF Ageing, Total, UpTo, Invoices, Receipts, OfType
<1>3. AgeingTotal(LastDay)' = AgeingTotal(LastDay)
  BY <1>2 DEF AgeingTotal, Total
<1>4. Sold' = Sold
  BY DEF Sold, Total, Invoices, OfType
<1>5. QED
  BY <1>1, <1>2, <1>3, <1>4

(* What the ageing report and the customer's statement say is owed is the
   same, whatever was invoiced, noted, received and settled by whom.       *)
THEOREM Statements_match_ageing == Spec => []StatementsMatchAgeing
<1>1. Init => StatementsMatchAgeing
  <2> SUFFICES ASSUME Init, NEW c \in Customers
               PROVE  Statement(c, LastDay) = Ageing(c, LastDay)
    BY DEF StatementsMatchAgeing
  <2>1. documents \in Seq(Document) /\ DOMAIN documents = {}
    BY DEF Init
  <2>2. StatementIsSum(c) /\ AgeingIsSum(c)
    BY <2>1, StatementSum, AgeingSum
  <2>3. \A k : PartyBills(c, k) = {}
    BY <2>1 DEF PartyBills
  <2>4. PartyInvoices(c) = {} /\ PartyReceipts(c) = {}
    BY <2>1 DEF PartyInvoices, PartyReceipts, Invoices, Receipts, OfType
  <2>5. Statement(c, LastDay) = 0
    <3>1. \A k : Billed(c, k) = 0
      BY <2>3, SumEmpty DEF Billed, Total
    <3>2. QED
      BY <2>2, <3>1 DEF StatementIsSum
  <2>6. OpenOf(c) = 0 /\ OnAccount(c) = 0
    BY <2>4, SumEmpty DEF OpenOf, OnAccount, Total
  <2>7. QED
    BY <2>2, <2>5, <2>6 DEF AgeingIsSum
<1>2. IInv /\ StatementsMatchAgeing /\ [Next]_vars => StatementsMatchAgeing'
  <2> SUFFICES ASSUME IInv, StatementsMatchAgeing, [Next]_vars, NEW c \in Customers
               PROVE  Statement(c, LastDay)' = Ageing(c, LastDay)'
    BY DEF StatementsMatchAgeing
  <2>1. Statement(c, LastDay) = Ageing(c, LastDay)
    BY DEF StatementsMatchAgeing
  <2>2. CASE UNCHANGED documents
    BY <2>1, <2>2, ReportsKept
  <2>3. CASE StoresDocument
    <3>1. PICK w \in Workers :
            StoreInvoice(w) \/ StoreCreditNote(w) \/ StoreDebitNote(w) \/ StoreReceipt(w)
      BY <2>3 DEF StoresDocument
    <3>2. PICK E : Stored(w, E) /\ EntryFor(txn[w], E)
      BY <3>1, StoreCases
    <3>3. PICK t : t = txn[w]
      OBVIOUS
    <3>4. PICK D : StoredFacts(t, D)
      BY <3>2, <3>3, StoredDocument
    <3>5. Appended(D)
      BY <3>4 DEF StoredFacts
    <3>6. QED
      BY <2>1, <3>5, StatementStep, AgeingStep
  <2>4. QED
    BY <2>2, <2>3, NextKinds
<1>3. QED
  BY <1>1, <1>2, Invariance, PTL DEF Spec

-----------------------------------------------------------------------------
(* The books, when no request is sent again after it was posted *)

(* A step of one transaction keeps the keys apart.                         *)
LEMMA KeysMove ==
    ASSUME KeyInv, UNCHANGED entries, NEW w \in Workers, NEW m,
           txn'[w] = m, \A v \in Workers \ {w} : txn'[v] = txn[v],
           m # Idle /\ m.pc # "convert" =>
             /\ m.entry = 0 /\ Posted(m.key) = {}
             /\ \A v \in Workers \ {w} :
                  txn[v] # Idle /\ txn[v].pc # "convert" => txn[v].key # m.key
    PROVE  KeyInv'
<1>1. \A k : Posted(k)' = Posted(k)
  BY DEF Posted
<1>2. ASSUME NEW v \in Workers, NEW s, s = txn'[v], s # Idle, s.pc # "convert"
      PROVE  s.entry = 0 /\ Posted(s.key) = {}
  BY <1>2 DEF KeyInv
<1>3. ASSUME NEW v \in Workers, NEW u \in Workers, v # u,
             txn'[v] # Idle, txn'[v].pc # "convert", txn'[u] # Idle, txn'[u].pc # "convert"
      PROVE  txn'[v].key # txn'[u].key
  <2>1. CASE v # w /\ u # w
    BY <1>3, <2>1 DEF KeyInv
  <2>2. CASE v = w
    BY <1>3, <2>2
  <2>3. CASE u = w
    BY <1>3, <2>3
  <2>4. QED
    BY <2>1, <2>2, <2>3
<1>4. ASSUME NEW v \in Workers, txn'[v] # Idle, txn'[v].pc # "convert"
      PROVE  txn'[v].entry = 0 /\ Posted(txn[v].key)' = {}
  <2>1. PICK s : s = txn'[v]
    OBVIOUS
  <2>2. PICK k : k = s.key
    OBVIOUS
  <2>3. s.entry = 0 /\ Posted(k)' = {}
    BY <1>1, <1>2, <1>4, <2>1, <2>2
  <2>4. QED
    BY <2>1, <2>2, <2>3
<1>5. QED
  BY <1>3, <1>4 DEF KeyInv

(* Every step keeps the keys apart.                                      *)
LEMMA KeyStep ==
    ASSUME IInv, KeyInv, RetriedKeys = {}, [Next]_vars
    PROVE  KeyInv'
<1>1. txn \in [Workers -> Request \cup Conversion \cup {Idle}]
  BY InvParts
<1>2. ASSUME NEW w \in Workers, NEW m, Set(w, m), UNCHANGED entries,
             m # Idle /\ m.pc # "convert" =>
               /\ m.entry = 0 /\ Posted(m.key) = {}
               /\ \A v \in Workers \ {w} :
                    txn[v] # Idle /\ txn[v].pc # "convert" => txn[v].key # m.key
      PROVE  KeyInv'
  <2>1. txn'[w] = m /\ \A v \in Workers \ {w} : txn'[v] = txn[v]
    BY <1>1, <1>2 DEF Set
  <2>2. QED
    BY <1>2, <2>1, KeysMove
<1>3. ASSUME NEW w \in Workers, NEW m, Set(w, m), UNCHANGED entries,
             txn[w] # Idle, txn[w].pc # "convert", m.key = txn[w].key, m.entry = txn[w].entry
      PROVE  KeyInv'
  BY <1>2, <1>3 DEF KeyInv
<1>4. CASE UNCHANGED vars
  BY <1>4 DEF vars, tables, KeyInv, Posted
<1>5. ASSUME NEW w \in Workers, NEW r \in Requests, Submit(w, r) PROVE KeyInv'
  <2>1. PICK m : Set(w, m) /\ m.entry = 0 /\ m.key = r.key
    <3>1. \A c, of, settles : LET m == Begin(r, c, of, settles) IN m.entry = 0 /\ m.key = r.key
      BY DEF Begin
    <3>2. \E c, of, settles : Set(w, Begin(r, c, of, settles))
      <4>1. CASE SubmitInvoice(w, r)
        BY <4>1 DEF SubmitInvoice
      <4>2. CASE SubmitNote(w, r)
        BY <4>2 DEF SubmitNote
      <4>3. CASE SubmitReceipt(w, r)
        BY <4>3 DEF SubmitReceipt
      <4>4. QED
        BY <1>5, <4>1, <4>2, <4>3 DEF Submit
    <3>3. QED
      BY <3>1, <3>2
  <2>2. Posted(r.key) = {} /\ \A v \in Workers : txn[v] # Idle => txn[v].key # r.key
    BY <1>5 DEF Submit, MaySend, Active
  <2>3. UNCHANGED entries
    BY <1>5 DEF Submit, tables
  <2>4. QED
    BY <1>2, <2>1, <2>2, <2>3
<1>6. ASSUME NEW w \in Workers, NEW q \in Quotations, StartConversion(w, q) PROVE KeyInv'
  BY <1>2, <1>6 DEF StartConversion, tables
<1>7. ASSUME NEW w \in Workers, MakeOrder(w) \/ Fail(w) PROVE KeyInv'
  BY <1>2, <1>7 DEF MakeOrder, Fail, tables
<1>8. ASSUME NEW w \in Workers, LockCustomer(w) \/ TakeGoods(w) PROVE KeyInv'
  <2>1. CASE Fail(w)
    BY <1>7, <2>1
  <2>2. CASE ~Fail(w)
    <3>1. txn[w] \in Request /\ txn[w] # Idle /\ txn[w].pc # "convert"
      BY <1>8, RequestFacts DEF LockCustomer, TakeGoods, At
    <3>2. UNCHANGED entries
      BY <1>8, <2>2 DEF LockCustomer, TakeGoods, tables
    <3>3. CASE LockCustomer(w)
      <4>1. PICK pc : Set(w, [txn[w] EXCEPT !.pc = pc])
        BY <2>2, <3>3 DEF LockCustomer, Step
      <4>2. PICK m : m = [txn[w] EXCEPT !.pc = pc]
        OBVIOUS
      <4>3. m.key = txn[w].key /\ m.entry = txn[w].entry
        BY <3>1, <4>2 DEF Request
      <4>4. QED
        BY <1>3, <3>1, <3>2, <4>1, <4>2, <4>3
    <3>4. CASE TakeGoods(w)
      <4>1. PICK cost : Set(w, [txn[w] EXCEPT !.pc = "post", !.taken = TRUE, !.cost = cost])
        BY <2>2, <3>4 DEF TakeGoods
      <4>2. PICK m : m = [txn[w] EXCEPT !.pc = "post", !.taken = TRUE, !.cost = cost]
        OBVIOUS
      <4>3. m.key = txn[w].key /\ m.entry = txn[w].entry
        BY <3>1, <4>2 DEF Request
      <4>4. QED
        BY <1>3, <3>1, <3>2, <4>1, <4>2, <4>3
    <3>5. QED
      BY <1>8, <3>3, <3>4
  <2>3. QED
    BY <2>1, <2>2
<1>9. ASSUME NEW w \in Workers, PostEntry(w) PROVE KeyInv'
  <2>1. txn[w] \in Request /\ txn[w] # Idle /\ txn[w].pc # "convert"
    BY <1>9, RequestFacts DEF PostEntry, At
  <2>2. Posted(txn[w].key) = {}
    BY <2>1 DEF KeyInv
  <2>3. Step(w, "store") /\ UNCHANGED entries
    BY <1>9, <2>2 DEF PostEntry, tables
  <2>4. PICK m : m = [txn[w] EXCEPT !.pc = "store"]
    OBVIOUS
  <2>5. m.key = txn[w].key /\ m.entry = txn[w].entry
    BY <2>1, <2>4 DEF Request
  <2>6. QED
    BY <1>3, <2>1, <2>3, <2>4, <2>5 DEF Step
<1>10. ASSUME NEW w \in Workers, NEW E, Stored(w, E), EntryFor(txn[w], E) PROVE KeyInv'
  <2>1. txn[w] \in Request /\ txn[w] # Idle /\ txn[w].pc # "convert"
    BY <1>10, RequestFacts DEF Stored, At
  <2>2. txn[w].entry = 0
    BY <2>1 DEF KeyInv
  <2>3. entries' = Append(entries, E) /\ entries \in Seq(Entry) /\ E.key = txn[w].key
    BY <1>10, <2>2, InvParts DEF Stored, EntryFor, TablesInv
  <2>4. \A k : k # txn[w].key => Posted(k)' = Posted(k)
    BY <2>3 DEF Posted
  <2>5. txn'[w] = Idle /\ \A v \in Workers \ {w} : txn'[v] = txn[v]
    BY <1>1, <1>10 DEF Stored, Set
  <2>6. ASSUME NEW v \in Workers, NEW s, s = txn'[v], s # Idle, s.pc # "convert"
        PROVE  s.entry = 0 /\ Posted(s.key)' = {}
    <3>1. v # w /\ s = txn[v]
      BY <2>5, <2>6
    <3>2. s.entry = 0 /\ Posted(s.key) = {} /\ s.key # txn[w].key
      BY <2>1, <2>6, <3>1 DEF KeyInv
    <3>3. QED
      BY <2>4, <3>2
  <2>7. \A v, u \in Workers :
          /\ v # u
          /\ txn'[v] # Idle /\ txn'[v].pc # "convert"
          /\ txn'[u] # Idle /\ txn'[u].pc # "convert"
          => txn'[v].key # txn'[u].key
    BY <2>5 DEF KeyInv
  <2>8. QED
    BY <2>6, <2>7 DEF KeyInv
<1>11. ASSUME NEW w \in Workers,
             StoreInvoice(w) \/ StoreCreditNote(w) \/ StoreDebitNote(w) \/ StoreReceipt(w)
       PROVE KeyInv'
  BY <1>10, <1>11, StoreCases
<1>12. ASSUME UNCHANGED <<entries, txn>> PROVE KeyInv'
  BY <1>12 DEF KeyInv, Posted
<1>13. ASSUME NEW q \in Quotations, CreateQuotation(q) \/ CloseQuotation(q) PROVE KeyInv'
  BY <1>12, <1>13 DEF CreateQuotation, CloseQuotation
<1>14. ASSUME NEW o \in Orders, CreateOrder(o) \/ CancelOrder(o) PROVE KeyInv'
  BY <1>12, <1>14 DEF CreateOrder, CancelOrder
<1>15. QED
  BY <1>4, <1>5, <1>6, <1>7, <1>8, <1>9, <1>11, <1>13, <1>14 DEF Next, Advance, Rollback


(* At first every report says nothing.                                   *)
LEMMA InitReports ==
    ASSUME Init
    PROVE  /\ \A c : Ageing(c, LastDay) = 0
           /\ Sold = 0 /\ LedgerBalance(LastDay) = 0 /\ Inventory = 0
<1>1. documents \in Seq(Document) /\ DOMAIN documents = {} /\ DOMAIN entries = {}
  BY DEF Init
<1>2. ASSUME NEW c PROVE Ageing(c, LastDay) = 0
  <2>1. PartyInvoices(c) = {} /\ PartyReceipts(c) = {}
    BY <1>1 DEF PartyInvoices, PartyReceipts, Invoices, Receipts, OfType
  <2>2. OpenOf(c) = 0 /\ OnAccount(c) = 0
    BY <2>1, SumEmpty DEF OpenOf, OnAccount, Total
  <2>3. AgeingIsSum(c)
    BY <1>1, AgeingSum
  <2>4. QED
    BY <2>2, <2>3 DEF AgeingIsSum
<1>3. Sold = 0
  <2>1. Invoices = {}
    BY <1>1 DEF Invoices, OfType
  <2>2. QED
    BY <2>1, SumEmpty DEF Sold, Total
<1>4. LedgerBalance(LastDay) = 0
  <2>1. {e \in DOMAIN entries : entries[e].day <= LastDay} = {}
    BY <1>1
  <2>2. QED
    BY <2>1, SumEmpty DEF LedgerBalance, Total
<1>5. Inventory = 0
  BY <1>1, SumEmpty DEF Inventory, Total
<1>6. QED
  BY <1>2, <1>3, <1>4, <1>5

BooksTie ==
    /\ AgeingTotal(LastDay) = LedgerBalance(LastDay)
    /\ OpeningStock.quantity - stock.quantity = Sold
    /\ stock.value - OpeningStock.value = Inventory

(* The books tie at first, ...                                           *)
LEMMA InitBooks == Init => KeyInv /\ BooksTie
<1> SUFFICES ASSUME Init PROVE KeyInv /\ BooksTie
  OBVIOUS
<1>1. KeyInv
  BY DEF Init, KeyInv
<1>2. AgeingTotal(LastDay) = 0
  <2> DEFINE f == [c \in Customers |-> Ageing(c, LastDay)]
  <2>1. IsFiniteSet(Customers) /\ f \in [Customers -> Int] /\ \A c \in Customers : f[c] = 0
    BY InitReports, ReceivablesAssumption
  <2>2. AgeingTotal(LastDay) = SumFunction(f)
    BY DEF AgeingTotal, Total
  <2> HIDE DEF f
  <2>3. QED
    BY <2>1, <2>2, SumZero
<1>3. stock = OpeningStock /\ stock.quantity \in Nat /\ stock.value \in Nat
  BY ReceivablesAssumption DEF Init, State
<1>4. QED
  BY <1>1, <1>2, <1>3, InitReports DEF BooksTie

(* ... after every stored document, ...                                  *)
LEMMA BooksStep ==
    ASSUME IInv, KeyInv, BooksTie, NEW w \in Workers, NEW E, Stored(w, E), EntryFor(txn[w], E)
    PROVE  BooksTie'
<1>1. PICK t : t = txn[w]
  OBVIOUS
<1>2. PICK D : StoredFacts(t, D)
  BY <1>1, StoredDocument
<1>3. Appended(D) /\ D.type = t.type /\ D.amount = t.amount /\ D.goods = t.goods
  BY <1>2 DEF StoredFacts
<1>4. /\ t \in Request /\ t.pc = "store" /\ t # Idle /\ Linked(t)
      /\ t.taken => InStock(t)
  BY <1>1, RequestFacts DEF Stored, At
<1>5. t.entry = 0
  BY <1>1, <1>4 DEF KeyInv
<1>6. entries \in Seq(Entry) /\ E \in Entry /\ entries' = Append(entries, E)
  BY <1>1, <1>5, InvParts DEF Stored, EntryFor, TablesInv
<1>7. /\ LedgerBalance(LastDay)' = LedgerBalance(LastDay) + E.receivable
      /\ Inventory' = Inventory + E.inventory
      /\ LedgerBalance(LastDay) \in Int /\ Inventory \in Int
  BY <1>6, EntryStep
<1>8. E.receivable = Effect(D) /\ E.inventory = -t.cost
  BY <1>1, <1>3 DEF EntryFor, Effect
<1>9. AgeingTotal(LastDay)' = LedgerBalance(LastDay)'
  BY <1>3, <1>7, <1>8, AgeingTotalStep DEF BooksTie
<1>10. Sold' = Sold + t.goods /\ Sold \in Int
  <2>1. GoodsIn(D) = t.goods
    BY <1>3, <1>4 DEF GoodsIn, Linked
  <2>2. QED
    BY <1>3, <2>1, SoldStep
<1>11. /\ stock' = IF t.taken THEN AfterIssue(stock, t.goods) ELSE stock
       /\ stock \in State /\ OpeningStock \in State
       /\ t.goods \in Nat /\ t.cost \in Nat /\ t.taken \in BOOLEAN
  BY <1>1, <1>4, InvParts, ReceivablesAssumption DEF Stored, TablesInv, Request
<1>12. stock'.quantity = stock.quantity - t.goods /\ stock'.value = stock.value - t.cost
  <2>1. CASE t.taken
    <3>1. CanIssue(stock, t.goods) /\ t.cost = IssuedValue(stock, t.goods)
      BY <1>4, <2>1 DEF InStock
    <3>2. stock' = [quantity |-> stock.quantity - t.goods, value |-> stock.value - t.cost]
      BY <1>11, <2>1, <3>1, IssueType
    <3>3. QED
      BY <3>2
  <2>2. CASE ~t.taken
    <3>1. t.goods = 0 /\ t.cost = 0
      BY <1>4, <1>11, <2>2 DEF Linked
    <3>2. QED
      BY <1>11, <2>2, <3>1 DEF State
  <2>3. QED
    BY <2>1, <2>2
<1>13. /\ stock.quantity \in Int /\ stock.value \in Int
       /\ OpeningStock.quantity \in Int /\ OpeningStock.value \in Int
  BY <1>11 DEF State
<1>14. /\ OpeningStock.quantity - stock'.quantity = Sold'
       /\ stock'.value - OpeningStock.value = Inventory'
  BY <1>7, <1>8, <1>10, <1>11, <1>12, <1>13 DEF BooksTie
<1>15. QED
  BY <1>9, <1>14 DEF BooksTie

(* ... after every step, ...                                             *)
LEMMA NextBooks ==
    ASSUME RetriedKeys = {}
    PROVE  IInv /\ KeyInv /\ BooksTie /\ [Next]_vars => KeyInv' /\ BooksTie'
<1> SUFFICES ASSUME IInv, KeyInv, BooksTie, [Next]_vars PROVE KeyInv' /\ BooksTie'
  OBVIOUS
<1>1. KeyInv'
  BY KeyStep
<1>2. CASE UNCHANGED <<documents, entries, stock>>
  <2>1. LedgerBalance(LastDay)' = LedgerBalance(LastDay) /\ Inventory' = Inventory
    BY <1>2 DEF LedgerBalance, Inventory, Total
  <2>2. QED
    BY <1>1, <1>2, <2>1, ReportsKept DEF BooksTie
<1>3. CASE StoresDocument
  <2>1. PICK w \in Workers :
          StoreInvoice(w) \/ StoreCreditNote(w) \/ StoreDebitNote(w) \/ StoreReceipt(w)
    BY <1>3 DEF StoresDocument
  <2>2. PICK E : Stored(w, E) /\ EntryFor(txn[w], E)
    BY <2>1, StoreCases
  <2>3. QED
    BY <1>1, <2>2, BooksStep
<1>4. QED
  BY <1>2, <1>3, NextKinds

(* ... and so always.                                                    *)
LEMMA BooksInvariance ==
    ASSUME RetriedKeys = {}
    PROVE  Spec => []BooksTie
  BY InitBooks, NextBooks, Invariance, PTL DEF Spec

(* The ageing report ties to the receivables control account, as long as
   no request is sent again after its entry was posted: the run
   Receivables_replay shows why that is needed.                            *)
THEOREM Ageing_ties_to_ledger ==
    ASSUME RetriedKeys = {}
    PROVE  Spec => []AgeingTiesToLedger
<1>1. BooksTie => AgeingTiesToLedger
  BY DEF BooksTie, AgeingTiesToLedger
<1>2. QED
  BY <1>1, BooksInvariance, PTL

(* Goods and their value leave the stock row and the Inventory account
   together, once per invoice, under the same hypothesis.                  *)
THEOREM Sold_goods_leave_the_books ==
    ASSUME RetriedKeys = {}
    PROVE  Spec => []SoldGoodsLeaveTheBooks
<1>1. BooksTie => SoldGoodsLeaveTheBooks
  BY DEF BooksTie, SoldGoodsLeaveTheBooks, Sold, Inventory
<1>2. QED
  BY <1>1, BooksInvariance, PTL

-----------------------------------------------------------------------------
(* Invoices are open items *)

(* The worth of an invoice, with its notes as sums.                      *)
LEMMA WorthIs == \A i : InvoiceWorth(i) = documents[i].amount + Noted("sales_debit_note", i)
                                            - Noted("sales_credit_note", i)
  BY DEF InvoiceWorth, Noted, Amount

Worth == [i \in Invoices |-> InvoiceWorth(i)]
Settled == [i \in Invoices |-> Taken(i)]

(* The steps of the abstract specification, in terms of the invoices.    *)
LEMMA OpenItemsParts ==
    /\ OpenInvoices!Init <=> Worth = [i \in {} |-> 0] /\ Settled = Worth
    /\ OpenInvoices!OpenItem <=>
         \E i \in DOMAIN Worth' \ DOMAIN Worth :
           /\ DOMAIN Worth' = DOMAIN Worth \cup {i} /\ DOMAIN Settled' = DOMAIN Worth'
           /\ Worth'[i] > 0 /\ Settled'[i] = 0
           /\ \A j \in DOMAIN Worth : Worth'[j] = Worth[j] /\ Settled'[j] = Settled[j]
    /\ OpenInvoices!ChangeItem <=>
         /\ Settled' = Settled
         /\ \E i \in DOMAIN Worth :
              /\ Worth'[i] >= 0
              /\ Worth' = [Worth EXCEPT ![i] = Worth'[i]]
    /\ OpenInvoices!Settle <=>
         /\ Worth' = Worth
         /\ DOMAIN Settled' = DOMAIN Settled
         /\ \A i \in DOMAIN Settled :
              Settled'[i] = Settled[i] \/ Settled'[i] - Settled[i] \in 1 .. (Worth[i] - Settled[i])
    /\ OpenInvoices!items = <<Worth, Settled>>
  BY DEF OpenInvoices!Init, OpenInvoices!OpenItem, OpenInvoices!ChangeItem, OpenInvoices!Settle,
         OpenInvoices!Open, OpenInvoices!items, Worth, Settled, Taken


(* Worth and Settled after a document, of the invoices there were ...     *)
ItemFacts(D) ==
    /\ DOMAIN Worth = Invoices /\ DOMAIN Settled = Invoices
    /\ DOMAIN Worth' = Invoices' /\ DOMAIN Settled' = Invoices'
    /\ \A i \in Invoices :
         /\ Worth[i] \in Int /\ Settled[i] \in Nat /\ Due(i) = Worth[i] - Settled[i]
         /\ Worth'[i] = Worth[i] + (NoteOn("sales_debit_note", D, i)
                                      - NoteOn("sales_credit_note", D, i))
         /\ Settled'[i] = Settled[i] + ShareIn(D, i)

(* A document changes the items as it changes the sums.                  *)
LEMMA ItemStep ==
    ASSUME NEW D, Appended(D)
    PROVE  ItemFacts(D)
<1>1. PICK n : n = Len(documents) + 1
  OBVIOUS
<1>2. DOMAIN Worth = Invoices /\ DOMAIN Settled = Invoices
  BY DEF Worth, Settled
<1>3. DOMAIN Worth' = Invoices' /\ DOMAIN Settled' = Invoices'
  BY DEF Worth, Settled
<1>4. ASSUME NEW i \in Invoices
      PROVE  /\ Worth[i] \in Int /\ Settled[i] \in Nat /\ Due(i) = Worth[i] - Settled[i]
             /\ Worth'[i] = Worth[i] + (NoteOn("sales_debit_note", D, i)
                                          - NoteOn("sales_credit_note", D, i))
             /\ Settled'[i] = Settled[i] + ShareIn(D, i)
  <2>1. documents \in Seq(Document) /\ i \in DOMAIN documents /\ documents'[i] = documents[i]
    BY AppendedDocuments DEF Appended, Invoices, OfType
  <2>2. i \in Invoices'
    BY <2>1, AppendedDocuments DEF Invoices, OfType
  <2>3. DueIs(i)
    BY <2>1, DueSum
  <2>4. /\ Taken(i)' = Taken(i) + ShareIn(D, i)
        /\ Noted("sales_credit_note", i)' = Noted("sales_credit_note", i)
                                              + NoteOn("sales_credit_note", D, i)
        /\ Noted("sales_debit_note", i)' = Noted("sales_debit_note", i)
                                             + NoteOn("sales_debit_note", D, i)
    BY TakenStep, NotedStep
  <2>5. Worth[i] = documents[i].amount + Noted("sales_debit_note", i)
                     - Noted("sales_credit_note", i)
    BY WorthIs DEF Worth
  <2>6. Worth'[i] = documents'[i].amount + Noted("sales_debit_note", i)'
                     - Noted("sales_credit_note", i)'
    <3>1. Worth'[i] = InvoiceWorth(i)'
      BY <2>2 DEF Worth
    <3>2. InvoiceWorth(i)' = documents'[i].amount + Noted("sales_debit_note", i)'
                               - Noted("sales_credit_note", i)'
      BY DEF InvoiceWorth, Noted, Amount
    <3>3. QED
      BY <3>1, <3>2
  <2>7. Settled[i] = Taken(i) /\ Settled'[i] = Taken(i)'
    BY <2>2 DEF Settled
  <2>8. NoteOn("sales_debit_note", D, i) \in Int /\ NoteOn("sales_credit_note", D, i) \in Int
    BY DEF NoteOn, Appended, Document
  <2>9. /\ Worth[i] \in Int /\ Settled[i] \in Nat /\ Due(i) = Worth[i] - Settled[i]
    BY <2>3, <2>5, <2>7 DEF DueIs
  <2>10. Worth'[i] = Worth[i] + (NoteOn("sales_debit_note", D, i)
                                   - NoteOn("sales_credit_note", D, i))
    <3>1. Worth'[i] = documents[i].amount
                       + (Noted("sales_debit_note", i) + NoteOn("sales_debit_note", D, i))
                       - (Noted("sales_credit_note", i) + NoteOn("sales_credit_note", D, i))
      BY <2>1, <2>4, <2>6
    <3>2. /\ documents[i].amount \in Int
          /\ Noted("sales_debit_note", i) \in Int /\ Noted("sales_credit_note", i) \in Int
      BY <2>3 DEF DueIs
    <3>3. \A a, b, c, d, e \in Int : a + (b + d) - (c + e) = (a + b - c) + (d - e)
      OBVIOUS
    <3>4. QED
      BY <2>5, <2>8, <3>1, <3>2, <3>3
  <2>11. QED
    BY <2>4, <2>7, <2>9, <2>10
<1>5. QED
  BY <1>2, <1>3, <1>4 DEF ItemFacts

(* Storing a document is one of the three steps of the open items.       *)
LEMMA StoreItems ==
    ASSUME IInv, NEW w \in Workers, NEW E, Stored(w, E), EntryFor(txn[w], E)
    PROVE  OpenInvoices!OpenItem \/ OpenInvoices!ChangeItem \/ OpenInvoices!Settle
<1>1. PICK t : t = txn[w]
  OBVIOUS
<1>2. PICK D : StoredFacts(t, D)
  BY <1>1, StoredDocument
<1>3. PICK n : n = Len(documents) + 1
  OBVIOUS
<1>4. Appended(D) /\ StoredState(t, D, n)
  BY <1>1, <1>2, <1>3, StoredTables DEF StoredFacts
<1>5. ItemFacts(D)
  BY <1>4, ItemStep
<1>6. /\ n \notin Invoices /\ n # 0 /\ 0 \notin Invoices
      /\ Invoices' = Invoices \cup (IF D.type = "sales_invoice" THEN {n} ELSE {})
  BY <1>3, <1>4, AppendedDocuments DEF Invoices, OfType
<1>7. D.amount \in Nat \ {0} /\ D.type \in Types
  BY <1>4 DEF Appended, Document
<1>8. \A i \in Invoices : Worth'[i] \in Int /\ Settled'[i] \in Int
  <2>1. \A i : ShareIn(D, i) \in Nat
    BY <1>4, SharesFinite DEF ShareIn
  <2>2. \A i : NoteOn("sales_debit_note", D, i) \in Int /\ NoteOn("sales_credit_note", D, i) \in Int
    BY <1>7 DEF NoteOn
  <2>3. QED
    BY <1>5, <2>1, <2>2 DEF ItemFacts
<1>9. CASE D.type = "sales_invoice"
  <2>1. D.of = 0 /\ DOMAIN D.settles = {}
    BY <1>4, <1>9 DEF Appended, Follows, Notes
  <2>2. \A i \in Invoices : Worth'[i] = Worth[i] /\ Settled'[i] = Settled[i]
    BY <1>5, <1>9, <2>1 DEF ItemFacts, NoteOn, ShareIn
  <2>3. Worth'[n] = D.amount /\ Settled'[n] = 0
    <3>1. documents \in Seq(Document) /\ DocumentsInOrder /\ n \notin DOMAIN documents
      BY <1>3, <1>4, AppendedDocuments DEF Appended
    <3>2. Taken(n) = 0 /\ \A type : Noted(type, n) = 0
      BY <1>6, <3>1, NothingAhead
    <3>3. Taken(n)' = 0
      <4>1. Taken(n)' = Taken(n) + ShareIn(D, n)
        BY <1>4, TakenStep
      <4>2. QED
        BY <2>1, <3>2, <4>1 DEF ShareIn
    <3>4. Noted("sales_debit_note", n)' = 0 /\ Noted("sales_credit_note", n)' = 0
      <4>1. /\ Noted("sales_debit_note", n)' = Noted("sales_debit_note", n)
                                                 + NoteOn("sales_debit_note", D, n)
            /\ Noted("sales_credit_note", n)' = Noted("sales_credit_note", n)
                                                 + NoteOn("sales_credit_note", D, n)
        BY <1>4, NotedStep
      <4>2. QED
        BY <1>6, <2>1, <3>2, <4>1 DEF NoteOn
    <3>5. n \in Invoices' /\ documents'[n] = D
      BY <1>4, <1>6, <1>9 DEF StoredState
    <3>6. Settled'[n] = 0
      BY <3>3, <3>5 DEF Settled
    <3>7. Worth'[n] = InvoiceWorth(n)'
      BY <3>5 DEF Worth
    <3>8. InvoiceWorth(n)' = documents'[n].amount + Noted("sales_debit_note", n)'
                               - Noted("sales_credit_note", n)'
      BY DEF InvoiceWorth, Noted, Amount
    <3>9. QED
      BY <1>7, <3>4, <3>5, <3>6, <3>7, <3>8
  <2>4. OpenInvoices!OpenItem
    BY <1>5, <1>6, <1>7, <1>9, <2>2, <2>3, OpenItemsParts DEF ItemFacts
  <2>5. QED
    BY <2>4
<1>10. CASE D.type \in Notes
  <2>1. D.of \in Invoices /\ DOMAIN D.settles = {} /\ Invoices' = Invoices
    <3>1. D.type # "sales_invoice" /\ D.type # "customer_receipt"
      BY <1>10 DEF Notes
    <3>2. QED
      BY <1>4, <1>6, <1>10, <3>1 DEF Appended, Follows
  <2>2. Settled' = Settled
    <3>1. \A i \in Invoices : Settled'[i] = Settled[i]
      BY <1>5, <2>1 DEF ItemFacts, ShareIn
    <3>2. Settled = [i \in Invoices |-> Settled[i]] /\ Settled' = [i \in Invoices' |-> Settled'[i]]
      BY DEF Settled
    <3>3. QED
      BY <2>1, <3>1, <3>2
  <2>3. \A i \in Invoices : i # D.of => Worth'[i] = Worth[i]
    BY <1>5 DEF ItemFacts, NoteOn
  <2>4. Worth' = [Worth EXCEPT ![D.of] = Worth'[D.of]]
    <3>1. Worth = [i \in Invoices |-> Worth[i]] /\ Worth' = [i \in Invoices' |-> Worth'[i]]
      BY DEF Worth
    <3>2. QED
      BY <2>1, <2>3, <3>1
  <2>5. Worth'[D.of] >= 0
    <3>1. PICK i : i = D.of
      OBVIOUS
    <3>2. Noted("sales_credit_note", i)' <= documents'[i].amount
      BY <1>1, <1>2, <2>1, <3>1, StoredOrder DEF NotesFit
    <3>3. /\ Noted("sales_credit_note", i)' \in Nat /\ Noted("sales_debit_note", i)' \in Nat
          /\ documents'[i].amount \in Nat
      <4>1. DueIs(i)'
        BY <1>4, <2>1, <3>1, DueNext DEF StoredState
      <4>2. QED
        BY <4>1 DEF DueIs
    <3>4. Worth'[i] = InvoiceWorth(i)'
      BY <2>1, <3>1 DEF Worth
    <3>5. InvoiceWorth(i)' = documents'[i].amount + Noted("sales_debit_note", i)'
                               - Noted("sales_credit_note", i)'
      BY DEF InvoiceWorth, Noted, Amount
    <3>6. QED
      BY <3>1, <3>2, <3>3, <3>4, <3>5
  <2>6. OpenInvoices!ChangeItem
    BY <1>5, <2>1, <2>2, <2>4, <2>5, OpenItemsParts DEF ItemFacts
  <2>7. QED
    BY <2>6
<1>11. CASE D.type = "customer_receipt"
  <2>1. D.type \notin Notes /\ Invoices' = Invoices
    BY <1>6, <1>11 DEF Notes
  <2>2. Worth' = Worth
    <3>1. \A i \in Invoices : Worth'[i] = Worth[i]
      BY <1>5, <1>11 DEF ItemFacts, NoteOn
    <3>2. Worth = [i \in Invoices |-> Worth[i]] /\ Worth' = [i \in Invoices' |-> Worth'[i]]
      BY DEF Worth
    <3>3. QED
      BY <2>1, <3>1, <3>2
  <2>3. ASSUME NEW i \in Invoices
        PROVE  Settled'[i] = Settled[i] \/ Settled'[i] - Settled[i] \in 1 .. (Worth[i] - Settled[i])
    <3>1. CASE i \in DOMAIN D.settles
      <4>1. D.settles[i] \in Nat \ {0} /\ D.settles[i] <= Due(i)
        BY <1>2, <1>4, <3>1, SharesFinite DEF StoredFacts, Checked
      <4>2. Settled'[i] = Settled[i] + D.settles[i]
        BY <1>5, <3>1 DEF ItemFacts, ShareIn
      <4>3. Due(i) = Worth[i] - Settled[i] /\ Worth[i] \in Int /\ Settled[i] \in Int
        BY <1>5 DEF ItemFacts
      <4>4. QED
        BY <4>1, <4>2, <4>3
    <3>2. CASE i \notin DOMAIN D.settles
      BY <1>5, <3>2 DEF ItemFacts, ShareIn
    <3>3. QED
      BY <3>1, <3>2
  <2>4. OpenInvoices!Settle
    BY <1>5, <2>1, <2>2, <2>3, OpenItemsParts DEF ItemFacts
  <2>5. QED
    BY <2>4
<1>12. QED
  BY <1>7, <1>9, <1>10, <1>11 DEF Types

(* The sales documents implement the open items: an invoice is opened with
   its amount, notes change what it is worth but never below nothing, and
   a receipt takes at most what is open, whoever posts at the same time.   *)
THEOREM Settles_only_what_is_open == Spec => SettlesOnlyWhatIsOpen
<1>1. Init => OpenInvoices!Init
  <2> SUFFICES ASSUME Init PROVE OpenInvoices!Init
    OBVIOUS
  <2>1. Invoices = {}
    BY DEF Init, Invoices, OfType
  <2>2. Worth = [i \in {} |-> 0] /\ Settled = [i \in {} |-> 0]
    BY <2>1 DEF Worth, Settled
  <2>3. QED
    BY <2>2, OpenItemsParts
<1>2. IInv /\ [Next]_vars =>
        [OpenInvoices!OpenItem \/ OpenInvoices!ChangeItem \/ OpenInvoices!Settle]_(OpenInvoices!items)
  <2> SUFFICES ASSUME IInv, [Next]_vars
               PROVE  [OpenInvoices!OpenItem \/ OpenInvoices!ChangeItem \/ OpenInvoices!Settle]_(OpenInvoices!items)
    OBVIOUS
  <2>1. CASE UNCHANGED documents
    <3>1. Invoices' = Invoices /\ \A i : Taken(i)' = Taken(i)
      BY <2>1, DocumentsKept
    <3>2. \A i : InvoiceWorth(i)' = InvoiceWorth(i)
      BY <2>1 DEF InvoiceWorth, Amount, Total, Against, OfType
    <3>3. Worth' = Worth /\ Settled' = Settled
      BY <3>1, <3>2 DEF Worth, Settled
    <3>4. UNCHANGED OpenInvoices!items
      BY <3>3 DEF OpenInvoices!items, Worth, Settled, Taken
    <3>5. QED
      BY <3>4
  <2>2. CASE StoresDocument
    <3>1. PICK w \in Workers :
            StoreInvoice(w) \/ StoreCreditNote(w) \/ StoreDebitNote(w) \/ StoreReceipt(w)
      BY <2>2 DEF StoresDocument
    <3>2. PICK E : Stored(w, E) /\ EntryFor(txn[w], E)
      BY <3>1, StoreCases
    <3>3. QED
      BY <3>2, StoreItems
  <2>3. QED
    BY <2>1, <2>2, NextKinds
<1>3. QED
  BY <1>1, <1>2, Invariance, PTL DEF Spec, SettlesOnlyWhatIsOpen, OpenInvoices!Spec

==============================================================================
