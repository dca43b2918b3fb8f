---------------------------- MODULE PayrollProofs ----------------------------
(***************************************************************************)
(* Theorems of Payroll, for any set of employees, months, requests and     *)
(* workers.  What a stored document changes of everything that is owed is  *)
(* computed once (Appended); the invariant says besides what a transaction *)
(* has read under its advisory locks, and that locks are held apart, so    *)
(* that nothing another one commits can make stale what was read.          *)
(***************************************************************************)
EXTENDS Payroll, SumTheorems

-----------------------------------------------------------------------------
(* The kinds of the values *)

Takes == UNION {[A -> Nat \ {0}] : A \in SUBSET Nat}
Nets(N) == UNION {[E -> N] : E \in SUBSET Employees}

Grants == [type : {"salary_advance"}, employee : Employees, amount : Nat \ {0},
           installment : Nat \ {0}]
Repayments == [type : {"advance_repayment"}, of : Nat, amount : Nat \ {0}]
RunsOf(N) == [type : {"payroll_run"}, month : Months, takes : Takes, net : Nets(N), amount : Nat]
Settlements == [type : {"settlement"}, employee : Employees, amount : Nat]
SalaryPayments == [type : {"salary_payment"}, of : Nat, employees : SUBSET Employees, amount : Nat]
GosiPayments == [type : {"gosi_payment"}, amount : Nat \ {0}]
EosbPayments == [type : {"eosb_payment"}, of : Nat, amount : Nat]

Document == Grants \cup Repayments \cup RunsOf(Nat) \cup Settlements
              \cup SalaryPayments \cup GosiPayments \cup EosbPayments
Entry == [key : Keys, advances : Int, netPay : Int, gosi : Int, eosb : Int]

(* A run before the net pay is computed, and a stop, which posts nothing.  *)
RunDrafts == [type : {"payroll_run"}, month : Months]
Stops == [type : {"stop"}, employee : Employees, amount : Nat]
Draft == Document \cup RunsOf(Int) \cup RunDrafts \cup Stops

AdvanceLocks == {<<"advances", e>> : e \in Employees}
Locks == {"advances", "run", "gosi", "settlement"} \X Nat

Request ==
    [pc : {"employee", "owed", "roster", "lock", "read", "post", "store", "stop"}, key : Keys,
     doc : Draft, wanted : SUBSET Locks, held : SUBSET Locks, posts : BOOLEAN, entry : Nat]

KindInv ==
    /\ documents \in Seq(Document) /\ entries \in Seq(Entry)
    /\ active \subseteq Employees /\ left \subseteq Employees
    /\ txn \in [Workers -> Request \cup {Idle}]

(* What a document names was posted before it.                             *)
Follows(d, D) ==
    /\ D.type = "advance_repayment" => D.of \in Advances /\ D.of < d
    /\ D.type = "payroll_run" => \A a \in DOMAIN D.takes : a \in Advances /\ a < d
    /\ D.type = "salary_payment" => D.of \in Runs /\ D.of < d
    /\ D.type = "eosb_payment" => D.of \in OfType("settlement") /\ D.of < d

DocumentsInOrder == \A d \in DOMAIN documents : Follows(d, documents[d])

(* The type of a document tells its other fields.                          *)
LEMMA Kinds ==
    ASSUME NEW D \in Document
    PROVE  /\ D.type \in Types /\ D.amount \in Nat
           /\ D.type = "salary_advance" => D \in Grants
           /\ D.type = "advance_repayment" => D \in Repayments
           /\ D.type = "payroll_run" => D \in RunsOf(Nat)
           /\ D.type = "settlement" => D \in Settlements
           /\ D.type = "salary_payment" => D \in SalaryPayments
           /\ D.type = "gosi_payment" => D \in GosiPayments
           /\ D.type = "eosb_payment" => D \in EosbPayments
  BY DEF Document, Grants, Repayments, RunsOf, Settlements, SalaryPayments, GosiPayments,
         EosbPayments, Types, Payments

(* The sets of documents are finite.                                       *)
LEMMA FinitelyMany ==
    ASSUME documents \in Seq(Document)
    PROVE  /\ DOMAIN documents = 1 .. Len(documents) /\ Len(documents) \in Nat
           /\ \A S \in SUBSET DOMAIN documents : IsFiniteSet(S)
           /\ \A i \in DOMAIN documents : documents[i] \in Document
<1>1. DOMAIN documents = 1 .. Len(documents) /\ Len(documents) \in Nat
  OBVIOUS
<1>2. IsFiniteSet(DOMAIN documents)
  BY <1>1, FS_Interval
<1>3. \A S \in SUBSET DOMAIN documents : IsFiniteSet(S)
  BY <1>2, FS_Subset
<1>4. QED
  BY <1>1, <1>3

(* The documents of a type are documents of its kind.                      *)
LEMMA OfKind ==
    ASSUME documents \in Seq(Document)
    PROVE  /\ \A type : OfType(type) \subseteq DOMAIN documents
           /\ \A a \in Advances : documents[a] \in Grants /\ Amount(a) \in Nat \ {0}
           /\ \A r \in Runs : documents[r] \in RunsOf(Nat)
           /\ \A s \in OfType("settlement") : documents[s] \in Settlements
           /\ \A p \in OfType("salary_payment") : documents[p] \in SalaryPayments
           /\ \A p \in OfType("advance_repayment") : documents[p] \in Repayments
           /\ \A p \in OfType("eosb_payment") : documents[p] \in EosbPayments
<1>1. \A type : OfType(type) \subseteq DOMAIN documents
  BY DEF OfType
<1>2. \A i \in DOMAIN documents : documents[i] \in Document
  OBVIOUS
<1>3. \A a \in Advances : documents[a] \in Grants
  BY <1>2, Kinds DEF Advances, OfType
<1>4. \A a \in Advances : Amount(a) \in Nat \ {0}
  BY <1>3 DEF Grants, Amount
<1>5. \A r \in Runs : documents[r] \in RunsOf(Nat)
  BY <1>2, Kinds DEF Runs, OfType
<1>6. \A s \in OfType("settlement") : documents[s] \in Settlements
  BY <1>2, Kinds DEF OfType
<1>7. \A p \in OfType("salary_payment") : documents[p] \in SalaryPayments
  BY <1>2, Kinds DEF OfType
<1>8. \A p \in OfType("advance_repayment") : documents[p] \in Repayments
  BY <1>2, Kinds DEF OfType
<1>9. \A p \in OfType("eosb_payment") : documents[p] \in EosbPayments
  BY <1>2, Kinds DEF OfType
<1>10. QED
  BY <1>1, <1>3, <1>4, <1>5, <1>6, <1>7, <1>8, <1>9

(* What a run takes of an advance is positive.                             *)
LEMMA TakesType ==
    ASSUME NEW t \in Takes
    PROVE  DOMAIN t \subseteq Nat /\ \A a \in DOMAIN t : t[a] \in Nat \ {0}
  BY DEF Takes

-----------------------------------------------------------------------------
(* What a document adds to the sums *)

(* `D` is appended to the documents.                                       *)
Appended(D) ==
    /\ documents \in Seq(Document) /\ DocumentsInOrder
    /\ D \in Document /\ Follows(Len(documents) + 1, D)
    /\ documents' = Append(documents, D)

(* The documents there were keep their places.                             *)
LEMMA AppendedDocuments ==
    ASSUME NEW D, Appended(D)
    PROVE  /\ documents \in Seq(Document) /\ documents' \in Seq(Document)
           /\ Len(documents') = Len(documents) + 1 /\ Len(documents) \in Nat
           /\ DOMAIN documents' = DOMAIN documents \cup {Len(documents) + 1}
           /\ DOMAIN documents = 1 .. Len(documents)
           /\ Len(documents) + 1 \notin DOMAIN documents
           /\ documents'[Len(documents) + 1] = D
           /\ \A i \in DOMAIN documents : documents'[i] = documents[i]
  BY DEF Appended

(* The new document is one more of its type.                               *)
LEMMA AppendedOfType ==
    ASSUME NEW D, Appended(D), NEW type
    PROVE  /\ OfType(type) \subseteq DOMAIN documents
           /\ OfType(type)' = OfType(type) \cup (IF D.type = type THEN {Len(documents) + 1} ELSE {})
<1>1. OfType(type) = {d \in DOMAIN documents : documents[d].type = type}
  BY DEF OfType
<1>2. OfType(type)' = {d \in DOMAIN documents' : documents'[d].type = type}
  BY DEF OfType
<1>3. QED
  BY <1>1, <1>2, AppendedDocuments

(* What was repaid on an advance and what runs withheld for it.            *)
Repaid(a) == Total(PaymentsOf("advance_repayment", a), Amount)
Withholding(a) == {r \in Runs : a \in DOMAIN documents[r].takes}
Withheld(a) == Total(Withholding(a), LAMBDA r : documents[r].takes[a])

RepaidBy(D, a) == IF D.type = "advance_repayment" /\ D.of = a THEN D.amount ELSE 0
WithheldBy(D, a) == IF D.type = "payroll_run" /\ a \in DOMAIN D.takes THEN D.takes[a] ELSE 0
RecoveredBy(D, a) == RepaidBy(D, a) + WithheldBy(D, a)

(* The payments of a document, when one more document is stored.           *)
LEMMA AppendedPaymentsOf ==
    ASSUME NEW D, Appended(D), NEW type, NEW d
    PROVE  /\ PaymentsOf(type, d) \subseteq DOMAIN documents
           /\ PaymentsOf(type, d)'
                = PaymentsOf(type, d)
                    \cup (IF D.type = type /\ D.of = d THEN {Len(documents) + 1} ELSE {})
<1>1. PaymentsOf(type, d) = {p \in OfType(type) : documents[p].of = d}
  BY DEF PaymentsOf
<1>2. PaymentsOf(type, d)' = {p \in OfType(type)' : documents'[p].of = d}
  BY DEF PaymentsOf
<1>3. QED
  BY <1>1, <1>2, AppendedOfType, AppendedDocuments

(* What was repaid grows by a repayment of the advance.                    *)
LEMMA RepaidStep ==
    ASSUME NEW D, Appended(D), NEW a
    PROVE  /\ Repaid(a)' = Repaid(a) + RepaidBy(D, a)
           /\ Repaid(a) \in Nat /\ RepaidBy(D, a) \in Nat
<1> DEFINE n == Len(documents) + 1
           S == PaymentsOf("advance_repayment", a)
           T == S'
           f == [x \in S |-> documents[x].amount]
           g == [x \in T |-> documents'[x].amount]
<1>1. /\ S \subseteq DOMAIN documents /\ IsFiniteSet(S) /\ n \notin S
      /\ f \in [S -> Int] /\ f \in [S -> Nat]
  <2>1. S \subseteq DOMAIN documents /\ documents \in Seq(Document)
    BY AppendedPaymentsOf, AppendedDocuments
  <2>2. \A x \in S : documents[x].amount \in Nat
    BY <2>1, FinitelyMany, Kinds
  <2>3. QED
    BY <2>1, <2>2, FinitelyMany, AppendedDocuments
<1>2. D.amount \in Nat
  BY Kinds DEF Appended
<1>3. /\ S \subseteq T /\ T \subseteq S \cup {n}
      /\ n \in T <=> D.type = "advance_repayment" /\ D.of = a
  BY <1>1, AppendedPaymentsOf
<1>4. g \in [T -> Int] /\ (n \in T => g[n] = D.amount) /\ \A x \in S : g[x] = f[x]
  BY <1>1, <1>2, <1>3, AppendedDocuments
<1>5. Repaid(a) = SumFunction(f) /\ Repaid(a)' = SumFunction(g)
  BY DEF Repaid, Total, Amount
<1>6. SUFFICES /\ SumFunction(g) = SumFunction(f) + RepaidBy(D, a)
               /\ SumFunction(f) \in Nat /\ RepaidBy(D, a) \in Nat
  BY <1>5
<1> HIDE DEF f, g, S, T, n
<1>7. SumFunction(g) = SumFunction(f) + (IF n \in T THEN g[n] ELSE 0)
  BY <1>1, <1>3, <1>4, SumExtend
<1>8. (IF n \in T THEN g[n] ELSE 0) = RepaidBy(D, a) /\ RepaidBy(D, a) \in Nat
  <2>1. CASE n \in T
    BY <2>1, <1>2, <1>3, <1>4 DEF RepaidBy
  <2>2. CASE n \notin T
    BY <2>2, <1>3 DEF RepaidBy
  <2>3. QED
    BY <2>1, <2>2
<1>9. SumFunction(f) \in Nat
  BY <1>1, SumNat
<1>10. QED
  BY <1>7, <1>8, <1>9

(* The runs that withhold for an advance, when one more document is stored. *)
LEMMA AppendedWithholding ==
    ASSUME NEW D, Appended(D), NEW a
    PROVE  /\ Withholding(a) \subseteq DOMAIN documents
           /\ Withholding(a)'
                = Withholding(a) \cup (IF D.type = "payroll_run" /\ a \in DOMAIN D.takes
                                       THEN {Len(documents) + 1} ELSE {})
<1>1. Withholding(a) = {r \in OfType("payroll_run") : a \in DOMAIN documents[r].takes}
  BY DEF Withholding, Runs
<1>2. Withholding(a)' = {r \in OfType("payroll_run")' : a \in DOMAIN documents'[r].takes}
  BY DEF Withholding, Runs
<1>3. QED
  BY <1>1, <1>2, AppendedOfType, AppendedDocuments

(* What runs withheld grows by what the new run takes of the advance.      *)
LEMMA WithheldStep ==
    ASSUME NEW D, Appended(D), NEW a
    PROVE  /\ Withheld(a)' = Withheld(a) + WithheldBy(D, a)
           /\ Withheld(a) \in Nat /\ WithheldBy(D, a) \in Nat
<1> DEFINE n == Len(documents) + 1
           S == Withholding(a)
           T == S'
           f == [x \in S |-> documents[x].takes[a]]
           g == [x \in T |-> documents'[x].takes[a]]
<1>0. ASSUME NEW R \in RunsOf(Nat), a \in DOMAIN R.takes
      PROVE  R.takes[a] \in Nat
  BY <1>0, TakesType DEF RunsOf
<1>1. /\ S \subseteq DOMAIN documents /\ IsFiniteSet(S) /\ n \notin S
      /\ f \in [S -> Int] /\ f \in [S -> Nat]
  <2>1. S \subseteq DOMAIN documents /\ documents \in Seq(Document)
    BY AppendedWithholding, AppendedDocuments
  <2>2. \A x \in S : documents[x].takes[a] \in Nat
    BY <1>0, <2>1, OfKind DEF Withholding
  <2>3. QED
    BY <2>1, <2>2, FinitelyMany, AppendedDocuments
<1>2. D.type = "payroll_run" /\ a \in DOMAIN D.takes => D.takes[a] \in Nat
  BY <1>0, Kinds DEF Appended
<1>3. /\ S \subseteq T /\ T \subseteq S \cup {n}
      /\ n \in T <=> D.type = "payroll_run" /\ a \in DOMAIN D.takes
  BY <1>1, AppendedWithholding
<1>4. g \in [T -> Int] /\ (n \in T => g[n] = D.takes[a]) /\ \A x \in S : g[x] = f[x]
  BY <1>1, <1>2, <1>3, AppendedDocuments
<1>5. Withheld(a) = SumFunction(f) /\ Withheld(a)' = SumFunction(g)
  BY DEF Withheld, Total
<1>6. SUFFICES /\ SumFunction(g) = SumFunction(f) + WithheldBy(D, a)
               /\ SumFunction(f) \in Nat /\ WithheldBy(D, a) \in Nat
  BY <1>5
<1> HIDE DEF f, g, S, T, n
<1>7. SumFunction(g) = SumFunction(f) + (IF n \in T THEN g[n] ELSE 0)
  BY <1>1, <1>3, <1>4, SumExtend
<1>8. (IF n \in T THEN g[n] ELSE 0) = WithheldBy(D, a) /\ WithheldBy(D, a) \in Nat
  <2>1. CASE n \in T
    BY <2>1, <1>2, <1>3, <1>4 DEF WithheldBy
  <2>2. CASE n \notin T
    BY <2>2, <1>3 DEF WithheldBy
  <2>3. QED
    BY <2>1, <2>2
<1>9. SumFunction(f) \in Nat
  BY <1>1, SumNat
<1>10. QED
  BY <1>7, <1>8, <1>9

(* What an advance still owes falls by what the document recovers of it.   *)
LEMMA RemainingStep ==
    ASSUME NEW D, Appended(D), NEW a \in Advances
    PROVE  /\ Recovered(a)' = Recovered(a) + RecoveredBy(D, a)
           /\ Remaining(a)' = Remaining(a) - RecoveredBy(D, a)
           /\ Recovered(a) \in Nat /\ RecoveredBy(D, a) \in Nat
           /\ Remaining(a) \in Int /\ Amount(a)' = Amount(a)
<1>1. Recovered(a) = Repaid(a) + Withheld(a) /\ Recovered(a)' = Repaid(a)' + Withheld(a)'
  BY DEF Recovered, Repaid, Withheld, Withholding
<1>2. Amount(a) \in Nat /\ Amount(a)' = Amount(a)
  <2>1. a \in DOMAIN documents /\ Amount(a) \in Nat
    BY OfKind DEF Appended, Advances
  <2>2. QED
    BY <2>1, AppendedDocuments DEF Amount
<1>3. Remaining(a) = Amount(a) - Recovered(a) /\ Remaining(a)' = Amount(a)' - Recovered(a)'
  BY DEF Remaining
<1>4. Repaid(a)' = Repaid(a) + RepaidBy(D, a) /\ Repaid(a) \in Nat /\ RepaidBy(D, a) \in Nat
  BY RepaidStep
<1>5. /\ Withheld(a)' = Withheld(a) + WithheldBy(D, a) /\ Withheld(a) \in Nat
      /\ WithheldBy(D, a) \in Nat
  BY WithheldStep
<1>6. QED
  BY <1>1, <1>2, <1>3, <1>4, <1>5 DEF RecoveredBy


(* The amounts of all documents of a type.                                 *)
Sum(type) == Total(OfType(type), Amount)

(* They grow by the amount of a document of the type.                      *)
LEMMA SumStep ==
    ASSUME NEW D, Appended(D), NEW type
    PROVE  /\ Sum(type)' = Sum(type) + (IF D.type = type THEN D.amount ELSE 0)
           /\ Sum(type) \in Nat /\ D.amount \in Nat
<1> DEFINE n == Len(documents) + 1
           S == OfType(type)
           T == S'
           f == [x \in S |-> documents[x].amount]
           g == [x \in T |-> documents'[x].amount]
<1>1. /\ S \subseteq DOMAIN documents /\ IsFiniteSet(S) /\ n \notin S
      /\ f \in [S -> Int] /\ f \in [S -> Nat]
  <2>1. S \subseteq DOMAIN documents /\ documents \in Seq(Document)
    BY AppendedOfType, AppendedDocuments
  <2>2. \A x \in S : documents[x].amount \in Nat
    BY <2>1, FinitelyMany, Kinds
  <2>3. QED
    BY <2>1, <2>2, FinitelyMany, AppendedDocuments
<1>2. D.amount \in Nat
  BY Kinds DEF Appended
<1>3. /\ S \subseteq T /\ T \subseteq S \cup {n}
      /\ n \in T <=> D.type = type
  BY <1>1, AppendedOfType
<1>4. g \in [T -> Int] /\ (n \in T => g[n] = D.amount) /\ \A x \in S : g[x] = f[x]
  BY <1>1, <1>2, <1>3, AppendedDocuments
<1>5. Sum(type) = SumFunction(f) /\ Sum(type)' = SumFunction(g)
  BY DEF Sum, Total, Amount
<1>6. SUFFICES /\ SumFunction(g) = SumFunction(f) + (IF D.type = type THEN D.amount ELSE 0)
               /\ SumFunction(f) \in Nat
  BY <1>2, <1>5
<1> HIDE DEF f, g, S, T, n
<1>7. SumFunction(g) = SumFunction(f) + (IF n \in T THEN g[n] ELSE 0)
  BY <1>1, <1>3, <1>4, SumExtend
<1>8. SumFunction(f) \in Nat
  BY <1>1, SumNat
<1>9. QED
  BY <1>3, <1>4, <1>7, <1>8

(* The social insurance that is owed grows with a run and falls with a
   payment of it.                                                          *)
GosiChange(D) ==
    IF D.type = "payroll_run" THEN D.amount ELSE IF D.type = "gosi_payment" THEN -D.amount ELSE 0

(* How a document changes the social insurance that is owed.             *)
LEMMA GosiStep ==
    ASSUME NEW D, Appended(D)
    PROVE  /\ GosiOutstanding' = GosiOutstanding + GosiChange(D)
           /\ GosiOutstanding \in Int /\ D.amount \in Nat
<1>1. /\ GosiOutstanding = Sum("payroll_run") - Sum("gosi_payment")
      /\ GosiOutstanding' = Sum("payroll_run")' - Sum("gosi_payment")'
  BY DEF GosiOutstanding, Sum, Runs
<1>2. /\ Sum("payroll_run")' = Sum("payroll_run") + (IF D.type = "payroll_run" THEN D.amount ELSE 0)
      /\ Sum("payroll_run") \in Nat /\ D.amount \in Nat
  BY SumStep
<1>3. /\ Sum("gosi_payment")' = Sum("gosi_payment") + (IF D.type = "gosi_payment" THEN D.amount ELSE 0)
      /\ Sum("gosi_payment") \in Nat
  BY SumStep
<1>4. CASE D.type = "payroll_run"
  BY <1>1, <1>2, <1>3, <1>4 DEF GosiChange
<1>5. CASE D.type # "payroll_run"
  BY <1>1, <1>2, <1>3, <1>5 DEF GosiChange
<1>6. QED
  BY <1>4, <1>5

(* The net pay of a finite roster is an integer, of a posted run a natural
   number.                                                                 *)
LEMMA NetTotalType ==
    ASSUME NEW doc
    PROVE  /\ doc \in RunsOf(Int) => NetTotal(doc) \in Int
           /\ doc \in RunsOf(Nat) => NetTotal(doc) \in Nat
<1>1. NetTotal(doc) = SumFunction([e \in DOMAIN doc.net |-> doc.net[e]])
  BY DEF NetTotal, Total
<1>2. ASSUME doc \in RunsOf(Int) PROVE NetTotal(doc) \in Int
  <2>1. doc.net \in Nets(Int)
    BY <1>2 DEF RunsOf
  <2>2. DOMAIN doc.net \subseteq Employees /\ \A e \in DOMAIN doc.net : doc.net[e] \in Int
    BY <2>1 DEF Nets
  <2>3. IsFiniteSet(DOMAIN doc.net)
    BY <2>2, PayrollAssumption, FS_Subset
  <2>4. QED
    BY <1>1, <2>2, <2>3, SumInt
<1>3. ASSUME doc \in RunsOf(Nat) PROVE NetTotal(doc) \in Nat
  <2>1. doc.net \in Nets(Nat)
    BY <1>3 DEF RunsOf
  <2>2. DOMAIN doc.net \subseteq Employees /\ \A e \in DOMAIN doc.net : doc.net[e] \in Nat
    BY <2>1 DEF Nets
  <2>3. IsFiniteSet(DOMAIN doc.net)
    BY <2>2, PayrollAssumption, FS_Subset
  <2>4. QED
    BY <1>1, <2>2, <2>3, SumNat
<1>4. QED
  BY <1>2, <1>3

(* What a run takes of advances is a natural number.                       *)
LEMMA TakesTotalType ==
    ASSUME NEW doc, doc.takes \in Takes, IsFiniteSet(DOMAIN doc.takes)
    PROVE  TakesTotal(doc) \in Nat
<1>1. TakesTotal(doc) = SumFunction([a \in DOMAIN doc.takes |-> doc.takes[a]])
  BY DEF TakesTotal, Total
<1>2. \A a \in DOMAIN doc.takes : doc.takes[a] \in Nat
  BY TakesType
<1>3. QED
  BY <1>1, <1>2, SumNat

(* The net pay of all runs grows by that of a new one.                     *)
NetSum == Total(Runs, LAMBDA r : NetTotal(documents[r]))

(* How a document changes the net pay of all runs.                       *)
LEMMA NetSumStep ==
    ASSUME NEW D, Appended(D)
    PROVE  /\ NetSum' = NetSum + (IF D.type = "payroll_run" THEN NetTotal(D) ELSE 0)
           /\ NetSum \in Nat
           /\ D.type = "payroll_run" => NetTotal(D) \in Nat
<1>0. PICK n : n = Len(documents) + 1
  OBVIOUS
<1> DEFINE S == Runs
           T == S'
           f == [x \in S |-> NetTotal(documents[x])]
           g == [x \in T |-> NetTotal(documents[x])']
<1>1. /\ S \subseteq DOMAIN documents /\ IsFiniteSet(S) /\ n \notin S
      /\ f \in [S -> Int] /\ f \in [S -> Nat]
  <2>1. S \subseteq DOMAIN documents /\ documents \in Seq(Document)
    BY AppendedOfType, AppendedDocuments DEF Runs
  <2>2. \A x \in S : NetTotal(documents[x]) \in Nat
    BY <2>1, OfKind, NetTotalType
  <2>3. QED
    BY <1>0, <2>1, <2>2, FinitelyMany, AppendedDocuments
<1>2. D.type = "payroll_run" => NetTotal(D) \in Nat
  BY Kinds, NetTotalType DEF Appended
<1>3. /\ S \subseteq T /\ T \subseteq S \cup {n}
      /\ n \in T <=> D.type = "payroll_run"
  BY <1>0, <1>1, AppendedOfType DEF Runs
<1>4. \A x \in S : NetTotal(documents[x])' = NetTotal(documents[x])
  BY <1>1, AppendedDocuments DEF NetTotal, Total
<1>5. NetTotal(documents[n])' = NetTotal(D)
  BY <1>0, AppendedDocuments DEF NetTotal, Total
<1>6. g \in [T -> Int] /\ (n \in T => g[n] = NetTotal(D)) /\ \A x \in S : g[x] = f[x]
  <2>1. \A x \in T : g[x] = NetTotal(documents[x])'
    OBVIOUS
  <2>2. \A x \in S : g[x] = f[x]
    BY <1>3, <1>4, <2>1
  <2>3. n \in T => g[n] = NetTotal(D) /\ g[n] \in Nat
    BY <1>2, <1>3, <1>5, <2>1
  <2>4. QED
    BY <1>1, <1>3, <2>2, <2>3
<1>7. NetSum = SumFunction(f) /\ NetSum' = SumFunction(g)
  BY DEF NetSum, Total
<1>8. SUFFICES /\ SumFunction(g) = SumFunction(f) + (IF D.type = "payroll_run" THEN NetTotal(D) ELSE 0)
               /\ SumFunction(f) \in Nat
  BY <1>2, <1>7
<1> HIDE DEF f, g, S, T
<1>9. SumFunction(g) = SumFunction(f) + (IF n \in T THEN g[n] ELSE 0)
  BY <1>1, <1>3, <1>6, SumExtend
<1>10. SumFunction(f) \in Nat
  BY <1>1, SumNat
<1>11. QED
  BY <1>3, <1>6, <1>9, <1>10

(* A payment of salaries takes its employees from the unpaid lines.        *)
PaidBy(D, r) == IF D.type = "salary_payment" /\ D.of = r THEN D.employees ELSE {}

(* How a document changes the unpaid lines of a run.                     *)
LEMMA UnpaidStep ==
    ASSUME NEW D, Appended(D), NEW r \in Runs
    PROVE  Unpaid(r)' = Unpaid(r) \ PaidBy(D, r)
<1> DEFINE n == Len(documents) + 1
           P == PaymentsOf("salary_payment", r)
           net == documents[r].net
<1>1. r \in DOMAIN documents /\ P \subseteq DOMAIN documents
  BY AppendedPaymentsOf, AppendedOfType DEF Runs
<1>2. Unpaid(r) = {e \in DOMAIN net : net[e] > 0}
                   \ (UNION {documents[p].employees : p \in P})
  BY DEF Unpaid
<1>3. Unpaid(r)' = {e \in DOMAIN documents'[r].net : documents'[r].net[e] > 0}
                    \ (UNION {documents'[p].employees : p \in P'})
  BY DEF Unpaid
<1>4. documents'[r].net = net
  BY <1>1, AppendedDocuments
<1>5. UNION {documents'[p].employees : p \in P'}
        = (UNION {documents[p].employees : p \in P}) \cup PaidBy(D, r)
  <2>1. \A p \in P : documents'[p].employees = documents[p].employees
    BY <1>1, AppendedDocuments
  <2>2. documents'[n].employees = D.employees
    BY AppendedDocuments
  <2>3. P' = P \cup (IF D.type = "salary_payment" /\ D.of = r THEN {n} ELSE {})
    BY AppendedPaymentsOf
  <2>4. QED
    BY <2>1, <2>2, <2>3 DEF PaidBy
<1>6. QED
  BY <1>2, <1>3, <1>4, <1>5

(* Nothing of a new advance is recovered yet.                              *)
LEMMA NewAdvance ==
    ASSUME NEW D, Appended(D), D.type = "salary_advance", NEW n, n = Len(documents) + 1
    PROVE  /\ Advances' = Advances \cup {n} /\ n \notin Advances
           /\ Recovered(n)' = 0 /\ Amount(n)' = D.amount /\ Remaining(n)' = D.amount
           /\ D.amount \in Nat \ {0}
<1>1. Advances' = Advances \cup {n} /\ n \notin Advances
  BY AppendedOfType, AppendedDocuments DEF Advances
<1>2. ASSUME NEW p \in OfType("advance_repayment") PROVE documents[p].of # n
  BY AppendedDocuments, AppendedOfType DEF Appended, DocumentsInOrder, Follows, Advances, OfType
<1>3. ASSUME NEW r \in Runs PROVE n \notin DOMAIN documents[r].takes
  BY AppendedDocuments, AppendedOfType DEF Appended, DocumentsInOrder, Follows, Advances, OfType, Runs
<1>4. PaymentsOf("advance_repayment", n) = {} /\ Withholding(n) = {}
  BY <1>2, <1>3 DEF PaymentsOf, Withholding
<1>5. Repaid(n) = 0 /\ Withheld(n) = 0
  BY <1>4, SumEmpty DEF Repaid, Withheld, Total
<1>6. RepaidBy(D, n) = 0 /\ WithheldBy(D, n) = 0
  BY DEF RepaidBy, WithheldBy
<1>7. Repaid(n)' = 0 /\ Withheld(n)' = 0
  BY <1>5, <1>6, RepaidStep, WithheldStep
<1>8. Recovered(n)' = 0
  BY <1>7 DEF Recovered, Repaid, Withheld, Withholding
<1>9. D.amount \in Nat \ {0} /\ Amount(n)' = D.amount
  BY Kinds, AppendedDocuments DEF Appended, Grants, Amount
<1>10. QED
  BY <1>1, <1>8, <1>9 DEF Remaining


(* What a document recovers of all advances together.                      *)
RecoveredIn(D) ==
    IF D.type = "advance_repayment" THEN D.amount
    ELSE IF D.type = "payroll_run" THEN TakesTotal(D) ELSE 0

(* It is the sum over the advances.                                        *)
LEMMA RecoveredSum ==
    ASSUME NEW D, Appended(D)
    PROVE  /\ SumFunction([a \in Advances |-> RecoveredBy(D, a)]) = RecoveredIn(D)
           /\ RecoveredIn(D) \in Int /\ IsFiniteSet(Advances)
           /\ \A a \in Advances : RecoveredBy(D, a) \in Int
<1> DEFINE S == Advances
           f == [a \in S |-> RecoveredBy(D, a)]
<1>1. IsFiniteSet(S)
  BY AppendedDocuments, OfKind, FinitelyMany DEF Advances
<1>2. \A a \in S : RecoveredBy(D, a) \in Int
  BY RemainingStep
<1>3. f \in [S -> Int] /\ \A a \in S : f[a] = RepaidBy(D, a) + WithheldBy(D, a)
  BY <1>2 DEF RecoveredBy
<1>4. SUFFICES SumFunction(f) = RecoveredIn(D) /\ RecoveredIn(D) \in Int
  BY <1>1, <1>2
<1> HIDE DEF f
<1>5. CASE D.type = "advance_repayment"
  <2>1. D.of \in S /\ D.amount \in Int
    BY <1>5, Kinds DEF Appended, Follows, Repayments
  <2> DEFINE T == {D.of}
             g == [a \in T |-> D.amount]
  <2>2. g \in [T -> Int] /\ T \subseteq S /\ g[D.of] = D.amount
    BY <2>1
  <2>3. \A a \in S : f[a] = (IF a = D.of THEN D.amount ELSE 0)
    BY <1>3, <1>5, <2>1 DEF RepaidBy, WithheldBy
  <2>4. \A a \in T : f[a] = g[a]
    BY <2>1, <2>3
  <2>5. \A a \in S \ T : f[a] = 0
    BY <2>3
  <2> HIDE DEF g, T
  <2>6. SumFunction(f) = SumFunction(g)
    BY <1>1, <1>3, <2>2, <2>4, <2>5, SumSupport
  <2>7. SumFunction(g) = g[D.of]
    BY <2>2, SumSingle DEF T
  <2>8. QED
    BY <1>5, <2>1, <2>2, <2>6, <2>7 DEF RecoveredIn
<1>6. CASE D.type = "payroll_run"
  <2> DEFINE T == DOMAIN D.takes
             g == [a \in T |-> D.takes[a]]
  <2>1. T \subseteq S /\ D.takes \in Takes
    BY <1>6, Kinds DEF Appended, Follows, RunsOf
  <2>2. g \in [T -> Int]
    BY <2>1, TakesType
  <2>3. \A a \in S : f[a] = (IF a \in T THEN D.takes[a] ELSE 0)
    <3>1. ASSUME NEW a \in S PROVE f[a] = (IF a \in T THEN D.takes[a] ELSE 0)
      <4>1. RepaidBy(D, a) = 0 /\ WithheldBy(D, a) \in Nat
        BY <1>6, WithheldStep DEF RepaidBy
      <4>2. f[a] = WithheldBy(D, a)
        BY <1>3, <4>1
      <4>3. QED
        BY <1>6, <4>2 DEF WithheldBy
    <3>2. QED
      BY <3>1
  <2>4. \A a \in T : f[a] = g[a]
    BY <2>1, <2>3
  <2>5. \A a \in S \ T : f[a] = 0
    BY <2>3
  <2>6. TakesTotal(D) = SumFunction(g)
    BY DEF TakesTotal, Total
  <2> HIDE DEF g, T
  <2>7. SumFunction(f) = SumFunction(g)
    BY <1>1, <1>3, <2>1, <2>2, <2>4, <2>5, SumSupport
  <2>8. SumFunction(g) \in Int
    BY <1>1, <2>1, <2>2, SumInt, FS_Subset
  <2>9. QED
    BY <1>6, <2>6, <2>7, <2>8 DEF RecoveredIn
<1>7. CASE D.type \notin {"advance_repayment", "payroll_run"}
  <2>1. \A a \in S : f[a] = 0
    BY <1>3, <1>7 DEF RepaidBy, WithheldBy
  <2>2. SumFunction(f) = 0
    BY <1>1, <1>3, <2>1, SumZero
  <2>3. QED
    BY <1>7, <2>2 DEF RecoveredIn
<1>8. QED
  BY <1>5, <1>6, <1>7

(* All that employees owe on advances: it grows with a grant and falls by
   what is recovered.                                                      *)
Dues == Total(Advances, Remaining)

(* How a document changes what employees owe.                            *)
LEMMA DuesStep ==
    ASSUME NEW D, Appended(D)
    PROVE  /\ Dues' = Dues + (IF D.type = "salary_advance" THEN D.amount ELSE 0) - RecoveredIn(D)
           /\ Dues \in Int /\ RecoveredIn(D) \in Int /\ D.amount \in Int
<1>0. PICK n : n = Len(documents) + 1
  OBVIOUS
<1> DEFINE S == Advances
           T == S'
           f == [a \in S |-> Remaining(a)]
           g == [a \in T |-> Remaining(a)']
           h == [a \in S |-> RecoveredBy(D, a)]
<1>1. IsFiniteSet(S) /\ SumFunction(h) = RecoveredIn(D) /\ RecoveredIn(D) \in Int /\ h \in [S -> Int]
  BY RecoveredSum
<1>2. /\ \A a \in S : g[a] = f[a] - h[a] \/ a \notin T
      /\ \A a \in S : Remaining(a)' = f[a] - h[a]
      /\ f \in [S -> Int]
  BY RemainingStep
<1>3. Dues = SumFunction(f) /\ Dues' = SumFunction(g)
  BY DEF Dues, Total
<1>4. D.amount \in Int
  BY Kinds DEF Appended
<1>5. \A a \in T : g[a] = Remaining(a)'
  OBVIOUS
<1>6. D.type # "salary_advance" => T = S
  BY AppendedOfType DEF Advances
<1>7. CASE D.type = "salary_advance"
  <2>1. /\ T = S \cup {n} /\ n \notin S /\ Remaining(n)' = D.amount /\ D.amount \in Int
    BY <1>0, <1>7, NewAdvance
  <2>2. \A a \in S : RecoveredBy(D, a) = 0
    BY <1>7 DEF RecoveredBy, RepaidBy, WithheldBy
  <2>3. RecoveredIn(D) = 0
    BY <1>7 DEF RecoveredIn
  <2>4. \A a \in S : h[a] = 0
    BY <2>2
  <2>5. \A a \in S : g[a] = f[a]
    BY <1>2, <2>1, <2>4
  <2>6. g \in [T -> Int] /\ g[n] = D.amount
    <3>1. g = [a \in T |-> g[a]]
      OBVIOUS
    <3>2. g[n] = D.amount
      BY <1>5, <2>1
    <3>3. QED
      BY <1>2, <2>1, <2>5, <3>1, <3>2
  <2> HIDE DEF S, T, f, g, h
  <2>7. SumFunction(g) = SumFunction(f) + (IF n \in T THEN g[n] ELSE 0)
    BY <1>1, <1>2, <2>1, <2>5, <2>6, SumExtend
  <2>8. SumFunction(f) \in Int
    BY <1>1, <1>2, SumInt
  <2>9. QED
    BY <1>3, <1>7, <2>1, <2>3, <2>6, <2>7, <2>8
<1>8. CASE D.type # "salary_advance"
  <2>1. g = [a \in T |-> g[a]]
    OBVIOUS
  <2> HIDE DEF S, T, f, g, h
  <2>2. g \in [S -> Int] /\ \A a \in S : f[a] = g[a] + h[a]
    <3>1. \A a \in S : g[a] = f[a] - h[a]
      BY <1>2, <1>6, <1>8
    <3>2. \A a \in S : f[a] \in Int /\ h[a] \in Int
      BY <1>1, <1>2
    <3>3. g = [a \in S |-> g[a]]
      BY <1>6, <1>8, <2>1
    <3>4. \A a \in S : g[a] \in Int /\ f[a] = g[a] + h[a]
      BY <3>1, <3>2
    <3>5. QED
      BY <3>3, <3>4
  <2>3. SumFunction(f) = SumFunction(g) + SumFunction(h)
    BY <1>1, <1>2, <2>2, SumPlus
  <2>4. SumFunction(f) \in Int /\ SumFunction(g) \in Int
    BY <1>1, <1>2, <2>2, SumInt
  <2>5. QED
    BY <1>1, <1>3, <1>4, <1>8, <2>3, <2>4
<1>9. QED
  BY <1>7, <1>8


-----------------------------------------------------------------------------
(* The inductive invariant *)

Locking == {"lock", "read", "post", "store"}
Ready(t) == t.pc \in {"post", "store"}
NoLock(t) == t.wanted = {} /\ t.held = {}
OneLock(t, l) ==
    IF t.pc = "lock" THEN t.wanted = {l} /\ t.held = {} ELSE t.wanted = {} /\ t.held = {l}
LockOf(a) == <<"advances", documents[a].employee>>

(* What a transaction of each type has locked and what it has read under
   its locks.                                                              *)
CheckedGrant(t) ==
    t.pc \in {"employee", "post", "store"} /\ t.doc \in Grants /\ NoLock(t) /\ t.posts
CheckedRepayment(t) ==
    /\ t.pc \in Locking /\ t.doc \in Repayments /\ t.posts
    /\ t.doc.of \in Advances /\ OneLock(t, LockOf(t.doc.of))
    /\ Ready(t) => t.doc.amount <= Remaining(t.doc.of)
CheckedRun(t) ==
    /\ t.pc \in Locking \cup {"roster"} /\ t.posts
    /\ t.held \cup t.wanted \subseteq AdvanceLocks
    /\ t.pc = "roster" => t.held = {}
    /\ t.pc # "lock" => t.wanted = {}
    /\ \A l \in t.held, k \in t.wanted : l[2] < k[2]
    /\ t.doc \in (IF Ready(t) THEN RunsOf(Int) ELSE RunDrafts)
    /\ Ready(t) => \A a \in DOMAIN t.doc.takes :
                     a \in Advances /\ LockOf(a) \in t.held /\ t.doc.takes[a] <= Remaining(a)
CheckedSettlement(t) ==
    /\ t.pc \in {"employee", "owed", "post", "store"} /\ t.doc \in Settlements /\ NoLock(t)
    /\ t.posts \/ (t.pc = "store" /\ t.doc.amount = 0 /\ t.entry = 0)
CheckedStop(t) ==
    t.pc \in {"employee", "owed", "stop"} /\ t.doc \in Stops /\ NoLock(t) /\ t.posts
CheckedSalaries(t) ==
    /\ t.pc \in Locking /\ t.doc \in SalaryPayments /\ t.posts
    /\ t.doc.of \in Runs /\ OneLock(t, <<"run", t.doc.of>>)
    /\ Ready(t) => t.doc.employees # {}
CheckedGosi(t) ==
    /\ t.pc \in Locking /\ t.doc \in GosiPayments /\ t.posts
    /\ OneLock(t, <<"gosi", 0>>)
    /\ Ready(t) => t.doc.amount <= GosiOutstanding
CheckedEosb(t) ==
    /\ t.pc \in Locking /\ t.doc \in EosbPayments /\ t.posts
    /\ t.doc.of \in OfType("settlement") /\ OneLock(t, <<"settlement", t.doc.of>>)

Checked(t) ==
    /\ t.doc.type \in Types \cup {"stop"}
    /\ t.doc.type = "salary_advance" => CheckedGrant(t)
    /\ t.doc.type = "advance_repayment" => CheckedRepayment(t)
    /\ t.doc.type = "payroll_run" => CheckedRun(t)
    /\ t.doc.type = "settlement" => CheckedSettlement(t)
    /\ t.doc.type = "stop" => CheckedStop(t)
    /\ t.doc.type = "salary_payment" => CheckedSalaries(t)
    /\ t.doc.type = "gosi_payment" => CheckedGosi(t)
    /\ t.doc.type = "eosb_payment" => CheckedEosb(t)

(* The request a transaction works on: a payment of salaries has read the
   lines that are wanted and not paid yet.                                 *)
Wanted(r, unpaid) == IF r.employees = {} THEN unpaid ELSE unpaid \cap r.employees
Answers(t, r) ==
    /\ r.key = t.key /\ r.type = t.doc.type
    /\ t.doc.type = "payroll_run" => t.doc.month = r.month
    /\ t.doc.type = "settlement" => t.doc.employee = r.employee
    /\ t.doc.type = "eosb_payment" => documents[t.doc.of].employee = r.employee
    /\ t.doc.type = "salary_payment" =>
         /\ documents[t.doc.of].month = r.month
         /\ t.doc.employees = (IF Ready(t) THEN Wanted(r, Unpaid(t.doc.of)) ELSE r.employees)
Asked(t) == \E r \in Requests : Answers(t, r)

(* A key that is not sent again after it was posted has no entry yet; an
   entry that was found has the key.                                       *)
KeyTold(t) ==
    /\ t.key \notin RetriedKeys => Posted(t.key) = {}
    /\ t.entry = 0 \/ (t.pc = "store" /\ t.entry \in Posted(t.key))

Sound(t) == Checked(t) /\ Asked(t) /\ KeyTold(t)

(* Two transactions hold no lock and share no key that is sent only once.  *)
Apart(s, t) == s.held \cap t.held = {} /\ (s.key = t.key => t.key \in RetriedKeys)

TxnInv == \A w \in Workers : txn[w] # Idle => Sound(txn[w])
LockInv == \A v, w \in Workers : v # w /\ txn[v] # Idle /\ txn[w] # Idle => Apart(txn[v], txn[w])

(* Payslips, payments of a payslip and of a gratuity are there once.       *)
OneRunAMonth == \A r, s \in Runs : documents[r].month = documents[s].month => r = s
LinesPaidOnce ==
    \A p, q \in OfType("salary_payment") :
      documents[p].of = documents[q].of /\ p # q =>
        documents[p].employees \cap documents[q].employees = {}
GratuitiesPaidOnce ==
    \A p, q \in OfType("eosb_payment") : documents[p].of = documents[q].of => p = q
PaidOnce == OneRunAMonth /\ LinesPaidOnce /\ GratuitiesPaidOnce /\ GosiOutstanding >= 0

IInv == KindInv /\ DocumentsInOrder /\ PaidOnce /\ TxnInv /\ LockInv

TablesInv ==
    /\ documents \in Seq(Document) /\ entries \in Seq(Entry)
    /\ active \subseteq Employees /\ left \subseteq Employees
    /\ DocumentsInOrder /\ PaidOnce

(* The invariant is about tables, transactions, and their locks.           *)
LEMMA InvParts ==
    IInv <=> /\ TablesInv /\ TxnInv /\ LockInv
             /\ txn \in [Workers -> Request \cup {Idle}]
  BY DEF IInv, KindInv, TablesInv

(* What is computed from the documents stays with them.                    *)
LEMMA DocumentsKept ==
    ASSUME UNCHANGED documents
    PROVE  /\ \A type : OfType(type)' = OfType(type)
           /\ Advances' = Advances /\ Runs' = Runs
           /\ \A a : Remaining(a)' = Remaining(a) /\ Recovered(a)' = Recovered(a)
           /\ \A a : Amount(a)' = Amount(a) /\ LockOf(a)' = LockOf(a)
           /\ \A r : Unpaid(r)' = Unpaid(r)
           /\ GosiOutstanding' = GosiOutstanding
<1>1. \A type : OfType(type)' = OfType(type)
  BY DEF OfType
<1>2. Advances' = Advances /\ Runs' = Runs
  BY DEF Advances, Runs, OfType
<1>3. \A a : Recovered(a)' = Recovered(a)
  BY DEF Recovered, Total, PaymentsOf, OfType, Runs, Amount
<1>4. \A a : Remaining(a)' = Remaining(a)
  BY <1>3 DEF Remaining, Amount
<1>5. \A a : Amount(a)' = Amount(a) /\ LockOf(a)' = LockOf(a)
  BY DEF Amount, LockOf
<1>6. \A r : Unpaid(r)' = Unpaid(r)
  BY DEF Unpaid, PaymentsOf, OfType
<1>7. GosiOutstanding' = GosiOutstanding
  BY DEF GosiOutstanding, Total, Runs, OfType, Amount
<1>8. QED
  BY <1>1, <1>2, <1>3, <1>4, <1>5, <1>6, <1>7

(* What a transaction relies on stays with the documents and entries.      *)
LEMMA SoundKept ==
    ASSUME UNCHANGED <<documents, entries>>, NEW t
    PROVE  Sound(t)' = Sound(t)
<1>1. /\ CheckedGrant(t)' = CheckedGrant(t) /\ CheckedSettlement(t)' = CheckedSettlement(t)
      /\ CheckedStop(t)' = CheckedStop(t)
  BY DEF CheckedGrant, CheckedSettlement, CheckedStop, NoLock
<1>2. CheckedRepayment(t)' = CheckedRepayment(t)
  BY DocumentsKept DEF CheckedRepayment, OneLock, Ready
<1>3. CheckedRun(t)' = CheckedRun(t)
  BY DocumentsKept DEF CheckedRun, Ready
<1>4. CheckedSalaries(t)' = CheckedSalaries(t)
  BY DocumentsKept DEF CheckedSalaries, OneLock, Ready
<1>5. CheckedGosi(t)' = CheckedGosi(t)
  BY DocumentsKept DEF CheckedGosi, OneLock, Ready
<1>6. CheckedEosb(t)' = CheckedEosb(t)
  BY DocumentsKept DEF CheckedEosb, OneLock, Ready
<1>7. Checked(t)' = Checked(t)
  BY <1>1, <1>2, <1>3, <1>4, <1>5, <1>6 DEF Checked
<1>8. Asked(t)' = Asked(t)
  <2>1. ASSUME NEW r PROVE Answers(t, r)' = Answers(t, r)
    BY DocumentsKept DEF Answers, Ready, Wanted
  <2>2. QED
    BY <2>1 DEF Asked
<1>9. KeyTold(t)' = KeyTold(t)
  BY DEF KeyTold, Posted
<1>10. QED
  BY <1>7, <1>8, <1>9 DEF Sound

(* So does what the tables say of each other.                              *)
LEMMA TablesKept ==
    ASSUME TablesInv, UNCHANGED <<documents, entries>>, active' \subseteq Employees,
           left' \subseteq Employees
    PROVE  TablesInv'
<1>1. DocumentsInOrder'
  BY DocumentsKept DEF TablesInv, DocumentsInOrder, Follows
<1>2. PaidOnce'
  BY DocumentsKept DEF TablesInv, PaidOnce, OneRunAMonth, LinesPaidOnce, GratuitiesPaidOnce
<1>3. QED
  BY <1>1, <1>2 DEF TablesInv

(* A step of one transaction.                                              *)
LEMMA TxnMoves ==
    ASSUME IInv, UNCHANGED <<documents, entries>>, active' \subseteq Employees,
           left' \subseteq Employees, NEW w \in Workers, NEW t, Set(w, t),
           t \in Request \cup {Idle}, t # Idle => Sound(t),
           t # Idle => \A v \in Workers \ {w} : txn[v] # Idle => Apart(txn[v], t)
    PROVE  IInv'
<1>1. /\ txn' \in [Workers -> Request \cup {Idle}]
      /\ txn'[w] = t /\ \A v \in Workers \ {w} : txn'[v] = txn[v]
  BY InvParts DEF Set
<1>2. TablesInv'
  BY InvParts, TablesKept
<1>3. TxnInv'
  <2>1. ASSUME NEW v \in Workers, NEW s, s = txn'[v], s # Idle PROVE Sound(s)'
    <3>1. Sound(s)
      BY <1>1, <2>1, InvParts DEF TxnInv
    <3>2. QED
      BY <3>1, SoundKept
  <2>2. QED
    BY <2>1 DEF TxnInv
<1>4. LockInv'
  <2>1. ASSUME NEW v \in Workers, NEW u \in Workers, v # u, txn'[v] # Idle, txn'[u] # Idle
        PROVE  Apart(txn'[v], txn'[u])
    <3>1. CASE v # w /\ u # w
      BY <1>1, <2>1, <3>1, InvParts DEF LockInv
    <3>2. CASE u = w
      BY <1>1, <2>1, <3>2
    <3>3. CASE v = w
      <4>1. Apart(txn'[u], txn'[v])
        BY <1>1, <2>1, <3>3
      <4>2. QED
        BY <4>1 DEF Apart
    <3>4. QED
      BY <3>1, <3>2, <3>3
  <2>2. QED
    BY <2>1 DEF LockInv, Apart
<1>5. QED
  <2>1. (IInv <=> /\ TablesInv /\ TxnInv /\ LockInv
                  /\ txn \in [Workers -> Request \cup {Idle}])'
    BY InvParts, PTL
  <2>2. QED
    BY <1>1, <1>2, <1>3, <1>4, <2>1


(* A transaction at a step.                                                *)
LEMMA RequestFacts ==
    ASSUME IInv, NEW w \in Workers, txn[w] # Idle
    PROVE  /\ txn[w] \in Request /\ Sound(txn[w])
           /\ txn[w].pc # "store" => txn[w].entry = 0
  BY InvParts DEF TxnInv, Sound, KeyTold

(* A transaction goes on with its locks and its key.                       *)
LEMMA GoesOn ==
    ASSUME IInv, UNCHANGED tables, NEW w \in Workers, NEW t, t = txn[w], t # Idle,
           NEW m \in Request, Set(w, m), m.held = t.held, m.key = t.key,
           m.entry = 0 \/ (m.pc = "store" /\ m.entry \in Posted(t.key)), Checked(m), Asked(m)
    PROVE  IInv'
<1>1. KeyTold(t)
  BY RequestFacts DEF Sound
<1>2. KeyTold(m)
  BY <1>1 DEF KeyTold
<1>3. \A v \in Workers \ {w} : txn[v] # Idle => Apart(txn[v], m)
  BY InvParts DEF LockInv, Apart
<1>4. Sound(m)
  BY <1>2 DEF Sound
<1>5. active' \subseteq Employees /\ left' \subseteq Employees /\ UNCHANGED <<documents, entries>>
  BY InvParts DEF TablesInv, tables
<1>6. QED
  BY <1>3, <1>4, <1>5, TxnMoves

(* It goes on with the same document: what was asked for is the same until
   it is read under a lock.                                                *)
LEMMA StillAsked ==
    ASSUME NEW t, NEW m, m.key = t.key, m.doc = t.doc, Asked(t),
           t.doc.type = "salary_payment" => (Ready(m) <=> Ready(t))
    PROVE  Asked(m)
<1>1. PICK r \in Requests : Answers(t, r)
  BY DEF Asked
<1>2. Answers(m, r)
  BY <1>1 DEF Answers
<1>3. QED
  BY <1>2 DEF Asked

(* A rollback gives up what was locked.                                    *)
LEMMA FailStep ==
    ASSUME IInv, NEW w \in Workers, Fail(w)
    PROVE  IInv'
<1>1. active' \subseteq Employees /\ left' \subseteq Employees /\ UNCHANGED <<documents, entries>>
  BY InvParts DEF TablesInv, tables, Fail
<1>2. QED
  BY <1>1, TxnMoves DEF Fail

(* The employee's row is read.                                             *)
LEMMA EmployeeStep ==
    ASSUME IInv, NEW w \in Workers, ReadEmployee(w)
    PROVE  IInv'
<1>1. CASE Fail(w)
  BY <1>1, FailStep
<1>2. CASE ~Fail(w)
  <2>1. PICK t : t = txn[w]
    OBVIOUS
  <2>2. /\ t \in Request /\ t # Idle /\ t.pc = "employee" /\ t.entry = 0
        /\ Checked(t) /\ Asked(t)
    BY <2>1, RequestFacts DEF ReadEmployee, At, Sound
  <2>3. PICK pc : /\ UNCHANGED tables /\ Set(w, [t EXCEPT !.pc = pc])
                  /\ \/ t.doc.type = "salary_advance" /\ pc = "post"
                     \/ t.doc.type = "settlement" /\ pc = "owed"
                     \/ t.doc.type = "stop" /\ pc \in {"owed", "stop"}
    <3>1. CASE t.doc.type = "salary_advance" /\ Proceed(w, "post")
      BY <2>1, <3>1 DEF Proceed
    <3>2. CASE t.doc.type = "settlement" /\ Proceed(w, "owed")
      BY <2>1, <3>2 DEF Proceed
    <3>3. CASE t.doc.type = "stop"
               /\ Proceed(w, IF t.doc.employee \in active THEN "owed" ELSE "stop")
      BY <2>1, <3>3 DEF Proceed
    <3>4. QED
      BY <1>2, <2>1, <3>1, <3>2, <3>3 DEF ReadEmployee
  <2>4. PICK m : m = [t EXCEPT !.pc = pc]
    OBVIOUS
  <2>5. /\ m \in Request /\ m.pc = pc /\ m.key = t.key /\ m.doc = t.doc /\ m.wanted = t.wanted
        /\ m.held = t.held /\ m.posts = t.posts /\ m.entry = t.entry
    BY <2>2, <2>3, <2>4 DEF Request
  <2>6. Checked(m)
    <3>1. CASE t.doc.type = "salary_advance"
      BY <2>2, <2>3, <2>5, <3>1 DEF Checked, CheckedGrant, NoLock
    <3>2. CASE t.doc.type = "settlement"
      BY <2>2, <2>3, <2>5, <3>2 DEF Checked, CheckedSettlement, NoLock
    <3>3. CASE t.doc.type = "stop"
      BY <2>2, <2>3, <2>5, <3>3 DEF Checked, CheckedStop, NoLock
    <3>4. QED
      BY <2>3, <3>1, <3>2, <3>3
  <2>7. Asked(m)
    BY <2>2, <2>3, <2>5, StillAsked
  <2>8. QED
    BY <2>1, <2>2, <2>3, <2>4, <2>5, <2>6, <2>7, GoesOn
<1>3. QED
  BY <1>1, <1>2

(* What a leaver owes is read.                                             *)
LEMMA OwedStep ==
    ASSUME IInv, NEW w \in Workers, ReadOwed(w)
    PROVE  IInv'
<1>1. CASE Fail(w)
  BY <1>1, FailStep
<1>2. CASE ~Fail(w)
  <2>1. PICK t : t = txn[w]
    OBVIOUS
  <2>2. /\ t \in Request /\ t # Idle /\ t.pc = "owed" /\ t.entry = 0
        /\ Checked(t) /\ Asked(t)
    BY <2>1, RequestFacts DEF ReadOwed, At, Sound
  <2>3. CASE t.doc.type = "settlement" /\ t.doc.amount = 0
             /\ Set(w, [t EXCEPT !.pc = "store", !.posts = FALSE]) /\ UNCHANGED tables
    <3>1. PICK m : m = [t EXCEPT !.pc = "store", !.posts = FALSE]
      OBVIOUS
    <3>2. /\ m \in Request /\ m.pc = "store" /\ m.key = t.key /\ m.doc = t.doc
          /\ m.wanted = t.wanted /\ m.held = t.held /\ m.entry = t.entry
      BY <2>2, <3>1 DEF Request
    <3>4. Checked(m)
      BY <2>2, <2>3, <3>2 DEF Checked, CheckedSettlement, NoLock
    <3>5. Asked(m)
      BY <2>2, <2>3, <3>2, StillAsked
    <3>6. QED
      BY <2>1, <2>2, <2>3, <3>1, <3>2, <3>4, <3>5, GoesOn
  <2>4. CASE \/ t.doc.type = "stop" /\ Proceed(w, "stop")
             \/ t.doc.type = "settlement" /\ t.doc.amount > 0 /\ Proceed(w, "post")
    <3>1. PICK pc : /\ UNCHANGED tables /\ Set(w, [t EXCEPT !.pc = pc])
                    /\ \/ t.doc.type = "settlement" /\ pc = "post"
                       \/ t.doc.type = "stop" /\ pc = "stop"
      BY <2>1, <2>4 DEF Proceed
    <3>2. PICK m : m = [t EXCEPT !.pc = pc]
      OBVIOUS
    <3>3. /\ m \in Request /\ m.pc = pc /\ m.key = t.key /\ m.doc = t.doc /\ m.wanted = t.wanted
          /\ m.held = t.held /\ m.posts = t.posts /\ m.entry = t.entry
      BY <2>2, <3>1, <3>2 DEF Request
    <3>4. Checked(m)
      <4>1. CASE t.doc.type = "settlement"
        BY <2>2, <3>1, <3>3, <4>1 DEF Checked, CheckedSettlement, NoLock
      <4>2. CASE t.doc.type = "stop"
        BY <2>2, <3>1, <3>3, <4>2 DEF Checked, CheckedStop, NoLock
      <4>3. QED
        BY <3>1, <4>1, <4>2
    <3>5. Asked(m)
      BY <2>2, <3>1, <3>3, StillAsked
    <3>6. QED
      BY <2>1, <2>2, <3>1, <3>2, <3>3, <3>4, <3>5, GoesOn
  <2>5. QED
    BY <1>2, <2>1, <2>3, <2>4 DEF ReadOwed
<1>3. QED
  BY <1>1, <1>2


(* The roster is read, and with it the locks the run will take.            *)
LEMMA RosterStep ==
    ASSUME IInv, NEW w \in Workers, ReadRoster(w)
    PROVE  IInv'
<1>1. CASE Fail(w)
  BY <1>1, FailStep
<1>2. CASE /\ UNCHANGED tables
           /\ Set(w, [txn[w] EXCEPT !.pc = "lock", !.wanted = {<<"advances", e>> : e \in active}])
  <2>1. PICK t : t = txn[w]
    OBVIOUS
  <2>2. /\ t \in Request /\ t # Idle /\ t.pc = "roster" /\ t.entry = 0
        /\ Checked(t) /\ Asked(t)
    BY <2>1, RequestFacts DEF ReadRoster, At, Sound
  <2>3. PICK L : L = {<<"advances", e>> : e \in active}
    OBVIOUS
  <2>4. L \subseteq AdvanceLocks /\ L \subseteq Locks
    <3>1. active \subseteq Employees /\ Employees \subseteq Nat
      BY InvParts, PayrollAssumption DEF TablesInv
    <3>2. AdvanceLocks \subseteq Locks
      BY <3>1 DEF AdvanceLocks, Locks
    <3>3. L \subseteq AdvanceLocks
      BY <2>3, <3>1 DEF AdvanceLocks
    <3>4. QED
      BY <3>2, <3>3
  <2>5. PICK m : m = [t EXCEPT !.pc = "lock", !.wanted = L]
    OBVIOUS
  <2>6. /\ m \in Request /\ m.pc = "lock" /\ m.key = t.key /\ m.doc = t.doc /\ m.wanted = L
        /\ m.held = t.held /\ m.posts = t.posts /\ m.entry = t.entry
    BY <2>2, <2>4, <2>5 DEF Request
  <2>7. t.doc.type = "payroll_run" /\ CheckedRun(t)
    BY <2>2 DEF Checked, CheckedGrant, CheckedRepayment, CheckedSettlement, CheckedStop,
                CheckedSalaries, CheckedGosi, CheckedEosb, Locking, Types, Payments
  <2>8. CheckedRun(m)
    BY <2>2, <2>4, <2>6, <2>7 DEF CheckedRun, Locking, Ready
  <2>9. Checked(m)
    BY <2>2, <2>6, <2>7, <2>8 DEF Checked
  <2>10. Asked(m)
    BY <2>2, <2>6, <2>7, StillAsked
  <2>11. QED
    BY <1>2, <2>1, <2>2, <2>3, <2>5, <2>6, <2>9, <2>10, GoesOn
<1>3. QED
  BY <1>1, <1>2 DEF ReadRoster

(* A transaction takes the next advisory lock it wants.                    *)
LEMMA LockStep ==
    ASSUME IInv, NEW w \in Workers, TakeLock(w)
    PROVE  IInv'
<1>1. PICK t : t = txn[w]
  OBVIOUS
<1>2. PICK l \in NextLocks(t.wanted) :
        /\ Locked(l) = {} /\ UNCHANGED tables
        /\ Set(w, [t EXCEPT !.held = t.held \cup {l}, !.wanted = t.wanted \ {l},
                            !.pc = IF t.wanted = {l} THEN "read" ELSE "lock"])
  BY <1>1 DEF TakeLock, Blocking
<1>3. PICK pc : pc = IF t.wanted = {l} THEN "read" ELSE "lock"
  OBVIOUS
<1>4. PICK m : m = [t EXCEPT !.held = t.held \cup {l}, !.wanted = t.wanted \ {l}, !.pc = pc]
  OBVIOUS
<1>5. /\ t \in Request /\ t # Idle /\ t.pc = "lock" /\ t.entry = 0
      /\ Checked(t) /\ Asked(t) /\ KeyTold(t)
  BY <1>1, RequestFacts DEF TakeLock, At, Sound
<1>6. l \in t.wanted /\ l \in Locks /\ \A k \in t.wanted : l[2] <= k[2]
  BY <1>5 DEF NextLocks, Request
<1>7. /\ m \in Request /\ m.pc = pc /\ m.key = t.key /\ m.doc = t.doc
      /\ m.wanted = t.wanted \ {l} /\ m.held = t.held \cup {l}
      /\ m.posts = t.posts /\ m.entry = t.entry /\ pc \in {"lock", "read"}
  BY <1>3, <1>4, <1>5, <1>6 DEF Request
<1>8. Checked(m)
  <2>1. ~Ready(t) /\ ~Ready(m) /\ pc \in Locking /\ t.pc \in Locking
    BY <1>5, <1>7 DEF Ready, Locking
  <2>2. \A k : OneLock(t, k) => OneLock(m, k)
    BY <1>3, <1>5, <1>6, <1>7 DEF OneLock
  <2>3. CASE t.doc.type = "payroll_run"
    <3>1. CheckedRun(t)
      BY <1>5, <2>3 DEF Checked
    <3>2. m.wanted = {} \/ pc = "lock"
      BY <1>3, <1>7
    <3>3. m.held \cup m.wanted \subseteq AdvanceLocks
      BY <1>6, <1>7, <3>1 DEF CheckedRun
    <3>4. ASSUME NEW j \in m.held, NEW k \in m.wanted PROVE j[2] < k[2]
      <4>1. CASE j \in t.held
        BY <1>7, <3>1, <3>4, <4>1 DEF CheckedRun
      <4>2. CASE j = l
        <5>1. l[2] <= k[2] /\ k # l /\ k \in AdvanceLocks /\ l \in AdvanceLocks
          BY <1>6, <1>7, <3>1, <3>4 DEF CheckedRun
        <5>2. PICK d \in Employees, e \in Employees : l = <<"advances", d>> /\ k = <<"advances", e>>
          BY <5>1 DEF AdvanceLocks
        <5>3. d \in Nat /\ e \in Nat /\ d <= e /\ d # e
          BY <5>1, <5>2, PayrollAssumption
        <5>4. QED
          BY <4>2, <5>2, <5>3
      <4>3. QED
        BY <1>7, <4>1, <4>2
    <3>5. CheckedRun(m)
      BY <1>7, <2>1, <3>1, <3>2, <3>3, <3>4 DEF CheckedRun
    <3>6. QED
      BY <1>7, <2>3, <3>5 DEF Checked, Types
  <2>4. CASE t.doc.type = "advance_repayment"
    BY <1>5, <1>7, <2>1, <2>2, <2>4 DEF Checked, CheckedRepayment
  <2>5. CASE t.doc.type = "salary_payment"
    BY <1>5, <1>7, <2>1, <2>2, <2>5 DEF Checked, CheckedSalaries
  <2>6. CASE t.doc.type = "gosi_payment"
    BY <1>5, <1>7, <2>1, <2>2, <2>6 DEF Checked, CheckedGosi
  <2>7. CASE t.doc.type = "eosb_payment"
    BY <1>5, <1>7, <2>1, <2>2, <2>7 DEF Checked, CheckedEosb
  <2>8. QED
    BY <1>5, <2>3, <2>4, <2>5, <2>6, <2>7
       DEF Checked, CheckedGrant, CheckedSettlement, CheckedStop, Types, Payments
<1>9. Asked(m)
  BY <1>5, <1>7, StillAsked DEF Ready
<1>10. Sound(m)
  BY <1>5, <1>7, <1>8, <1>9 DEF Sound, KeyTold
<1>11. ASSUME NEW v \in Workers \ {w}, txn[v] # Idle PROVE Apart(txn[v], m)
  <2>1. Apart(txn[v], t)
    BY <1>1, <1>5, <1>11, InvParts DEF LockInv
  <2>2. l \notin txn[v].held
    BY <1>2, <1>11 DEF Locked, Active
  <2>3. QED
    BY <1>7, <2>1, <2>2 DEF Apart
<1>12. Set(w, m) /\ UNCHANGED tables
  BY <1>2, <1>3, <1>4
<1>13. active' \subseteq Employees /\ left' \subseteq Employees /\ UNCHANGED <<documents, entries>>
  BY <1>12, InvParts DEF TablesInv, tables
<1>14. QED
  BY <1>7, <1>10, <1>11, <1>12, <1>13, TxnMoves

(* The entry is new or found by its key.                                   *)
LEMMA PostStep ==
    ASSUME IInv, NEW w \in Workers, PostEntry(w)
    PROVE  IInv'
<1>1. CASE Fail(w)
  BY <1>1, FailStep
<1>2. CASE ~Fail(w)
  <2>1. PICK t : t = txn[w]
    OBVIOUS
  <2>2. /\ t \in Request /\ t # Idle /\ t.pc = "post" /\ t.entry = 0
        /\ Checked(t) /\ Asked(t)
    BY <2>1, RequestFacts DEF PostEntry, At, Sound
  <2>3. PICK e \in Nat : /\ e = 0 \/ e \in Posted(t.key)
                         /\ Set(w, [t EXCEPT !.pc = "store", !.entry = e])
                         /\ UNCHANGED tables
    <3>1. CASE Set(w, [t EXCEPT !.pc = "store"])
      <4>1. [t EXCEPT !.pc = "store"] = [t EXCEPT !.pc = "store", !.entry = 0]
        BY <2>2 DEF Request
      <4>2. QED
        BY <1>2, <2>1, <3>1, <4>1 DEF PostEntry
    <3>2. CASE \E e \in Posted(t.key) : Set(w, [t EXCEPT !.pc = "store", !.entry = e])
      <4>1. PICK e \in Posted(t.key) : Set(w, [t EXCEPT !.pc = "store", !.entry = e])
        BY <3>2
      <4>2. e \in Nat
        BY InvParts DEF TablesInv, Posted
      <4>3. QED
        BY <1>2, <2>1, <4>1, <4>2 DEF PostEntry
    <3>3. QED
      BY <1>2, <2>1, <3>1, <3>2 DEF PostEntry
  <2>4. PICK m : m = [t EXCEPT !.pc = "store", !.entry = e]
    OBVIOUS
  <2>5. /\ m \in Request /\ m.pc = "store" /\ m.key = t.key /\ m.doc = t.doc
        /\ m.wanted = t.wanted /\ m.held = t.held /\ m.posts = t.posts /\ m.entry = e
    BY <2>2, <2>4 DEF Request
  <2>6. Ready(t) /\ Ready(m) /\ m.pc \in Locking /\ \A l : OneLock(t, l) => OneLock(m, l)
    BY <2>2, <2>5 DEF Ready, OneLock, Locking
  <2>7. Checked(m)
    <3>1. CASE t.doc.type = "payroll_run"
      <4>1. CheckedRun(t)
        BY <2>2, <3>1 DEF Checked
      <4>2. CheckedRun(m)
        BY <2>2, <2>5, <2>6, <4>1 DEF CheckedRun
      <4>3. QED
        BY <2>5, <3>1, <4>2 DEF Checked, Types
    <3>2. CASE t.doc.type = "advance_repayment"
      BY <2>2, <2>5, <2>6, <3>2 DEF Checked, CheckedRepayment
    <3>3. CASE t.doc.type = "salary_payment"
      BY <2>2, <2>5, <2>6, <3>3 DEF Checked, CheckedSalaries
    <3>4. CASE t.doc.type = "gosi_payment"
      BY <2>2, <2>5, <2>6, <3>4 DEF Checked, CheckedGosi
    <3>5. CASE t.doc.type = "eosb_payment"
      BY <2>2, <2>5, <2>6, <3>5 DEF Checked, CheckedEosb
    <3>6. CASE t.doc.type = "salary_advance"
      BY <2>2, <2>5, <2>6, <3>6 DEF Checked, CheckedGrant, NoLock
    <3>7. CASE t.doc.type = "settlement"
      <4>1. CheckedSettlement(t) /\ t.posts
        BY <2>2, <3>7 DEF Checked, CheckedSettlement
      <4>2. QED
        BY <2>2, <2>5, <2>6, <3>7, <4>1 DEF Checked, CheckedSettlement, NoLock
    <3>8. QED
      BY <2>2, <3>1, <3>2, <3>3, <3>4, <3>5, <3>6, <3>7
         DEF Checked, CheckedStop, Types, Payments
  <2>8. Asked(m)
    BY <2>2, <2>5, <2>6, StillAsked
  <2>9. QED
    BY <2>1, <2>2, <2>3, <2>4, <2>5, <2>7, <2>8, GoesOn
<1>3. QED
  BY <1>1, <1>2


(* No transaction moves.                                                   *)
LEMMA NothingMoves ==
    ASSUME IInv, UNCHANGED <<documents, entries, txn>>, active' \subseteq Employees,
           left' \subseteq Employees
    PROVE  IInv'
<1>1. TablesInv'
  BY InvParts, TablesKept
<1>2. TxnInv'
  <2>1. ASSUME NEW v \in Workers, NEW s, s = txn'[v], s # Idle PROVE Sound(s)'
    <3>1. Sound(s)
      BY <2>1, InvParts DEF TxnInv
    <3>2. QED
      BY <3>1, SoundKept
  <2>2. QED
    BY <2>1 DEF TxnInv
<1>3. LockInv'
  BY InvParts DEF LockInv, Apart
<1>4. QED
  <2>1. (IInv <=> /\ TablesInv /\ TxnInv /\ LockInv
                  /\ txn \in [Workers -> Request \cup {Idle}])'
    BY InvParts, PTL
  <2>2. QED
    BY <1>1, <1>2, <1>3, <2>1, InvParts

(* What was recovered of an advance is a natural number.                   *)
LEMMA RecoveredType ==
    ASSUME documents \in Seq(Document), NEW a
    PROVE  Recovered(a) \in Nat
<1>1. Repaid(a) \in Nat
  <2> DEFINE S == PaymentsOf("advance_repayment", a)
  <2>1. S \subseteq DOMAIN documents /\ IsFiniteSet(S)
    BY FinitelyMany DEF PaymentsOf, OfType
  <2>2. \A x \in S : documents[x].amount \in Nat
    BY <2>1, FinitelyMany, Kinds
  <2>3. [x \in S |-> documents[x].amount] \in [S -> Nat]
    BY <2>2
  <2>4. Repaid(a) = SumFunction([x \in S |-> documents[x].amount])
    BY DEF Repaid, Total, Amount
  <2> HIDE DEF S
  <2>5. QED
    BY <2>1, <2>3, <2>4, SumNat
<1>2. Withheld(a) \in Nat
  <2> DEFINE S == Withholding(a)
  <2>1. S \subseteq DOMAIN documents /\ S \subseteq Runs /\ IsFiniteSet(S)
    BY FinitelyMany DEF Withholding, Runs, OfType
  <2>2. \A x \in S : documents[x].takes[a] \in Nat
    <3>1. ASSUME NEW x \in S PROVE documents[x].takes[a] \in Nat
      <4>1. documents[x].takes \in Takes /\ a \in DOMAIN documents[x].takes
        BY <2>1, OfKind DEF RunsOf, Withholding
      <4>2. QED
        BY <4>1, TakesType
    <3>2. QED
      BY <3>1
  <2>3. [x \in S |-> documents[x].takes[a]] \in [S -> Nat]
    BY <2>2
  <2>4. Withheld(a) = SumFunction([x \in S |-> documents[x].takes[a]])
    BY DEF Withheld, Total
  <2> HIDE DEF S
  <2>5. QED
    BY <2>1, <2>3, <2>4, SumNat
<1>3. QED
  BY <1>1, <1>2 DEF Recovered, Repaid, Withheld, Withholding

(* What is not paid of a run are employees on it, with their net pay.      *)
LEMMA UnpaidType ==
    ASSUME documents \in Seq(Document), NEW r \in Runs
    PROVE  /\ Unpaid(r) \subseteq Employees
           /\ \A e \in Unpaid(r) : documents[r].net[e] \in Nat
<1>1. documents[r].net \in Nets(Nat)
  BY OfKind DEF RunsOf
<1>2. DOMAIN documents[r].net \subseteq Employees
      /\ \A e \in DOMAIN documents[r].net : documents[r].net[e] \in Nat
  BY <1>1 DEF Nets
<1>3. QED
  BY <1>2 DEF Unpaid

(* A run takes from open advances of its roster what they still owe at
   most, and pays and insures the roster.                                  *)
LEMMA RunForType ==
    ASSUME documents \in Seq(Document), NEW month \in Months, NEW roster, roster \subseteq Employees,
           NEW D, D = RunFor(month, roster)
    PROVE  /\ D \in RunsOf(Int) /\ D.month = month
           /\ \A a \in DOMAIN D.takes : /\ a \in Advances /\ documents[a].employee \in roster
                                        /\ D.takes[a] <= Remaining(a)
<1> DEFINE open == {a \in Advances : documents[a].employee \in roster /\ Remaining(a) > 0}
           takes == [a \in open |-> Min2(Remaining(a), documents[a].installment)]
           part(e) == {a \in open : documents[a].employee = e}
           taken(e) == SumFunction([a \in part(e) |-> takes[a]])
           net == [e \in roster |-> Gross[e] - Gosi[e].employee - taken(e)]
           amount == SumFunction([e \in roster |-> Gosi[e].employee + Gosi[e].employer])
<1>1. D = [type |-> "payroll_run", month |-> month, takes |-> takes, net |-> net,
           amount |-> amount]
  BY DEF RunFor, Total
<1>2. /\ \A a \in open : /\ a \in Advances /\ a \in Nat /\ documents[a].employee \in roster
                         /\ takes[a] \in Nat \ {0} /\ takes[a] <= Remaining(a)
      /\ open \subseteq DOMAIN documents
  <2>1. ASSUME NEW a \in open
        PROVE  /\ a \in Advances /\ a \in DOMAIN documents /\ documents[a].employee \in roster
               /\ takes[a] \in Nat \ {0} /\ takes[a] <= Remaining(a)
    <3>1. a \in Advances /\ Remaining(a) > 0 /\ documents[a].employee \in roster
      OBVIOUS
    <3>2. a \in DOMAIN documents /\ documents[a].installment \in Nat \ {0} /\ Amount(a) \in Nat
      BY <3>1, OfKind DEF Advances, Grants
    <3>3. Remaining(a) \in Int
      <4>1. Recovered(a) \in Int
        BY RecoveredType, <3>1
      <4>2. QED
        BY <3>2, <4>1 DEF Remaining
    <3>4. QED
      BY <3>1, <3>2, <3>3 DEF Min2
  <2>2. \A a \in open : a \in Nat
    <3>1. DOMAIN documents \subseteq Nat
      BY FinitelyMany
    <3>2. QED
      BY <2>1, <3>1
  <2>3. open \subseteq DOMAIN documents
    BY <2>1
  <2>4. QED
    BY <2>1, <2>2, <2>3
<1>3. takes \in Takes
  <2>1. open \subseteq Nat /\ takes \in [open -> Nat \ {0}]
    BY <1>2
  <2>2. QED
    BY <2>1 DEF Takes
<1>4. ASSUME NEW e \in roster PROVE Gross[e] - Gosi[e].employee - taken(e) \in Int
  <2>0. part(e) \subseteq DOMAIN documents
    BY <1>2
  <2>1. IsFiniteSet(part(e)) /\ \A a \in part(e) : takes[a] \in Int
    <3>1. IsFiniteSet(part(e))
      BY <2>0, FinitelyMany
    <3>2. \A a \in part(e) : takes[a] \in Nat
      BY <1>2
    <3>3. QED
      BY <3>1, <3>2
  <2>2. [a \in part(e) |-> takes[a]] \in [part(e) -> Int]
    BY <2>1
  <2>3. taken(e) \in Int
    BY <2>1, <2>2, SumInt
  <2>4. Gross[e] \in Int /\ Gosi[e].employee \in Int
    BY PayrollAssumption
  <2>5. QED
    BY <2>3, <2>4
<1>5. net \in [roster -> Int]
  BY <1>4
<1>6. net \in Nets(Int)
  BY <1>5 DEF Nets
<1>7. amount \in Nat
  <2>1. IsFiniteSet(roster)
    BY PayrollAssumption, FS_Subset
  <2>2. ASSUME NEW e \in roster PROVE Gosi[e].employee + Gosi[e].employer \in Nat
    BY PayrollAssumption
  <2>3. QED
    BY <2>1, <2>2, SumNat
<1>8. DOMAIN takes = open
  OBVIOUS
<1> HIDE DEF open, takes, net, amount, part, taken
<1>9. D \in RunsOf(Int) /\ D.month = month /\ D.takes = takes
  BY <1>1, <1>3, <1>6, <1>7 DEF RunsOf
<1>10. QED
  BY <1>2, <1>8, <1>9

(* What is owed is read under the locks.                                   *)
LEMMA ReadStep ==
    ASSUME IInv, NEW w \in Workers, ReadUnderLock(w)
    PROVE  IInv'
<1>1. CASE Fail(w)
  BY <1>1, FailStep
<1>2. CASE /\ Allowed(txn[w].doc) /\ UNCHANGED tables
           /\ Set(w, [txn[w] EXCEPT !.pc = "post", !.doc = Completed(txn[w])])
  <2>1. PICK t : t = txn[w]
    OBVIOUS
  <2>2. PICK doc : doc = Completed(t)
    OBVIOUS
  <2>3. PICK m : m = [t EXCEPT !.pc = "post", !.doc = doc]
    OBVIOUS
  <2>4. /\ t \in Request /\ t # Idle /\ t.pc = "read" /\ t.entry = 0
        /\ Checked(t) /\ Asked(t) /\ Allowed(t.doc)
    BY <1>2, <2>1, RequestFacts DEF ReadUnderLock, At, Sound
  <2>5. /\ m.pc = "post" /\ m.key = t.key /\ m.doc = doc
        /\ m.wanted = t.wanted /\ m.held = t.held /\ m.posts = t.posts /\ m.entry = t.entry
    BY <2>3, <2>4 DEF Request
  <2>6. /\ ~Ready(t) /\ Ready(m) /\ m.pc \in Locking /\ \A l : OneLock(t, l) => OneLock(m, l)
    BY <2>4, <2>5 DEF Ready, OneLock, Locking
  <2>7. documents \in Seq(Document)
    BY InvParts DEF TablesInv
  <2>8. SUFFICES doc \in Draft /\ Checked(m) /\ Asked(m)
    <3>1. ASSUME doc \in Draft PROVE m \in Request
      BY <2>3, <2>4, <3>1 DEF Request
    <3>2. UNCHANGED tables /\ Set(w, m)
      BY <1>2, <2>1, <2>2, <2>3
    <3>3. QED
      BY <2>1, <2>4, <2>5, <2>8, <3>1, <3>2, GoesOn
  <2>9. CASE t.doc.type = "payroll_run"
    <3>1. CheckedRun(t) /\ t.doc \in RunDrafts
      BY <2>4, <2>6, <2>9 DEF Checked, CheckedRun
    <3>2. doc = RunFor(t.doc.month, Roster(t)) /\ t.doc.month \in Months
      BY <2>2, <2>9, <3>1 DEF Completed, RunDrafts
    <3>3. ASSUME NEW e PROVE e \in Roster(t) <=> e \in Employees /\ <<"advances", e>> \in t.held
      <4>1. \A l \in t.held : \E d \in Employees : l = <<"advances", d>>
        BY <3>1 DEF CheckedRun, AdvanceLocks
      <4>2. QED
        BY <4>1 DEF Roster
    <3>4. Roster(t) \subseteq Employees
      BY <3>3
    <3>5. /\ doc \in RunsOf(Int) /\ doc.month = t.doc.month
          /\ \A a \in DOMAIN doc.takes : /\ a \in Advances /\ documents[a].employee \in Roster(t)
                                         /\ doc.takes[a] <= Remaining(a)
      BY <2>7, <3>2, <3>4, RunForType
    <3>6. doc.type = "payroll_run" /\ doc \in Draft
      BY <3>5 DEF RunsOf, Draft
    <3>7. \A a \in DOMAIN doc.takes : LockOf(a) \in t.held
      BY <3>3, <3>5 DEF LockOf
    <3>8. CheckedRun(m)
      BY <2>5, <2>6, <2>4, <3>1, <3>5, <3>7 DEF CheckedRun
    <3>9. Checked(m)
      BY <2>5, <3>6, <3>8 DEF Checked, Types
    <3>10. Asked(m)
      BY <2>4, <2>5, <2>9, <3>5, <3>6 DEF Asked, Answers
    <3>11. QED
      BY <3>6, <3>9, <3>10
  <2>10. CASE t.doc.type = "salary_payment"
    <3>1. /\ t.doc \in SalaryPayments /\ t.doc.of \in Runs /\ t.posts
          /\ OneLock(t, <<"run", t.doc.of>>) /\ LinesToPay(t.doc) # {}
      BY <2>4, <2>10 DEF Checked, CheckedSalaries, Allowed
    <3>2. PICK L : L = LinesToPay(t.doc)
      OBVIOUS
    <3>3. PICK n : n = SumFunction([e \in L |-> documents[t.doc.of].net[e]])
      OBVIOUS
    <3>4. doc = [t.doc EXCEPT !.employees = L, !.amount = n]
      BY <2>2, <2>10, <3>2, <3>3 DEF Completed, Total
    <3>5. L \subseteq Employees /\ \A e \in L : documents[t.doc.of].net[e] \in Nat
      BY <2>7, <3>1, <3>2, UnpaidType DEF LinesToPay
    <3>6. IsFiniteSet(L)
      BY <3>5, PayrollAssumption, FS_Subset
    <3>7. n \in Nat
      BY <3>3, <3>5, <3>6, SumNat
    <3>8. /\ doc \in SalaryPayments /\ doc.of = t.doc.of /\ doc.employees = L
          /\ doc.type = "salary_payment"
      BY <3>1, <3>4, <3>5, <3>7 DEF SalaryPayments
    <3>9. Checked(m)
      BY <2>5, <2>6, <3>1, <3>2, <3>8 DEF Checked, CheckedSalaries, Types, Payments
    <3>10. Asked(m)
      <4>1. PICK r \in Requests : Answers(t, r)
        BY <2>4 DEF Asked
      <4>2. t.doc.employees = r.employees /\ documents[t.doc.of].month = r.month
        BY <2>6, <2>10, <4>1 DEF Answers
      <4>3. L = Wanted(r, Unpaid(t.doc.of))
        BY <3>2, <4>2 DEF LinesToPay, Wanted
      <4>4. Answers(m, r)
        BY <2>5, <2>6, <2>10, <3>8, <4>1, <4>2, <4>3 DEF Answers
      <4>5. QED
        BY <4>4 DEF Asked
    <3>11. QED
      BY <3>8, <3>9, <3>10 DEF Draft, Document
  <2>11. CASE t.doc.type \notin {"payroll_run", "salary_payment"}
    <3>1. doc = t.doc
      BY <2>2, <2>11 DEF Completed
    <3>2. ASSUME t.doc.type = "advance_repayment" PROVE Checked(m)
      BY <2>4, <2>5, <2>6, <3>1, <3>2 DEF Checked, CheckedRepayment, Allowed
    <3>3. ASSUME t.doc.type = "gosi_payment" PROVE Checked(m)
      BY <2>4, <2>5, <2>6, <3>1, <3>3 DEF Checked, CheckedGosi, Allowed
    <3>4. ASSUME t.doc.type = "eosb_payment" PROVE Checked(m)
      BY <2>4, <2>5, <2>6, <3>1, <3>4 DEF Checked, CheckedEosb
    <3>5. Checked(m)
      BY <2>4, <2>11, <3>2, <3>3, <3>4
         DEF Checked, CheckedGrant, CheckedSettlement, CheckedStop, Types, Payments
    <3>6. Asked(m)
      BY <2>4, <2>5, <2>11, <3>1, StillAsked
    <3>7. QED
      BY <2>4, <3>1, <3>5, <3>6 DEF Request
  <2>12. QED
    BY <2>9, <2>10, <2>11
<1>3. QED
  BY <1>1, <1>2 DEF ReadUnderLock

(* Employees stop and start: no document changes.                          *)
LEMMA EmploymentStep ==
    ASSUME IInv, (\E w \in Workers : StopEmployee(w)) \/ (\E e \in Employees : StartEmployee(e))
    PROVE  IInv'
<1>1. ASSUME NEW w \in Workers, StopEmployee(w) PROVE IInv'
  <2>1. active' \subseteq Employees /\ left' \subseteq Employees /\ UNCHANGED <<documents, entries>>
    BY <1>1, InvParts DEF TablesInv, StopEmployee
  <2>2. Set(w, Idle)
    BY <1>1 DEF StopEmployee
  <2>3. QED
    BY <2>1, <2>2, TxnMoves
<1>2. ASSUME NEW e \in Employees, StartEmployee(e) PROVE IInv'
  <2>1. /\ active' \subseteq Employees /\ left' \subseteq Employees
        /\ UNCHANGED <<documents, entries>> /\ txn' = txn
    BY <1>2, InvParts DEF TablesInv, StartEmployee
  <2>2. QED
    BY <2>1, NothingMoves
<1>3. QED
  BY <1>1, <1>2

(* A transaction begins: its key has no entry and no other transaction,
   unless it is sent again.                                                *)
Begun(r, pc, wanted, doc) ==
    [pc |-> pc, key |-> r.key, doc |-> doc, wanted |-> wanted, held |-> {},
     posts |-> TRUE, entry |-> 0]

(* A transaction that begins keeps the invariant.                        *)
LEMMA BeginStep ==
    ASSUME IInv, UNCHANGED tables, NEW w \in Workers, NEW r \in Requests, MaySend(r.key),
           NEW pc, NEW wanted, NEW doc, Begin(w, r, pc, wanted, doc),
           pc \in {"employee", "roster", "lock"}, wanted \in SUBSET Locks, doc \in Draft,
           Checked(Begun(r, pc, wanted, doc)), Answers(Begun(r, pc, wanted, doc), r)
    PROVE  IInv'
<1>0. PICK m : m = Begun(r, pc, wanted, doc)
  OBVIOUS
<1>1. /\ m \in Request /\ m.key = r.key /\ m.held = {} /\ m.entry = 0
  BY <1>0, PayrollAssumption DEF Request, Begun
<1>2. Set(w, m)
  BY <1>0 DEF Begin, Begun
<1>3. Sound(m)
  <2>1. KeyTold(m)
    BY <1>1 DEF KeyTold, MaySend
  <2>2. Asked(m)
    BY <1>0 DEF Asked
  <2>3. QED
    BY <1>0, <2>1, <2>2 DEF Sound
<1>4. ASSUME NEW v \in Workers \ {w}, txn[v] # Idle PROVE Apart(txn[v], m)
  BY <1>1, <1>4 DEF Apart, MaySend, Active
<1>5. active' \subseteq Employees /\ left' \subseteq Employees /\ UNCHANGED <<documents, entries>>
  BY InvParts DEF TablesInv, tables
<1>6. QED
  BY <1>1, <1>2, <1>3, <1>4, <1>5, TxnMoves

(* A request is submitted.                                                 *)
LEMMA SubmitStep ==
    ASSUME IInv, NEW w \in Workers, NEW r \in Requests, Submit(w, r)
    PROVE  IInv'
<1>1. MaySend(r.key) /\ UNCHANGED tables /\ SoundRequest(r)
  BY PayrollAssumption DEF Submit
<1>2. documents \in Seq(Document) /\ DOMAIN documents \subseteq Nat
  <2>1. documents \in Seq(Document)
    BY InvParts DEF TablesInv
  <2>2. QED
    BY <2>1, FinitelyMany
<1>3. ASSUME NEW pc, NEW wanted, NEW doc, NEW m, m = Begun(r, pc, wanted, doc)
      PROVE  /\ m.pc = pc /\ m.key = r.key /\ m.doc = doc /\ m.wanted = wanted
             /\ m.held = {} /\ m.posts /\ m.entry = 0
  BY <1>3 DEF Begun
<1>4. CASE SubmitGrant(w, r)
  <2>1. PICK doc : doc = [type |-> r.type, employee |-> r.employee, amount |-> r.amount,
                          installment |-> r.installment]
    OBVIOUS
  <2>2. PICK m : m = Begun(r, "employee", {}, doc)
    OBVIOUS
  <2>3. r.type = "salary_advance" /\ doc \in Grants /\ doc.type = r.type
    BY <1>1, <1>4, <2>1 DEF SubmitGrant, SoundRequest, Grants
  <2>4. Checked(m)
    BY <1>3, <2>2, <2>3 DEF Checked, CheckedGrant, NoLock, Types
  <2>5. Answers(m, r)
    BY <1>3, <2>2, <2>3 DEF Answers
  <2>6. doc \in Draft
    BY <2>3 DEF Draft, Document
  <2>7. Begin(w, r, "employee", {}, doc)
    BY <1>4, <2>1 DEF SubmitGrant
  <2>8. QED
    BY <1>1, <2>2, <2>4, <2>5, <2>6, <2>7, BeginStep
<1>5. CASE SubmitRepayment(w, r)
  <2>1. PICK a \in Advances :
          Begin(w, r, "lock", {LockOf(a)}, [type |-> r.type, of |-> a, amount |-> r.amount])
    BY <1>5 DEF SubmitRepayment, LockOf
  <2>2. PICK doc : doc = [type |-> r.type, of |-> a, amount |-> r.amount]
    OBVIOUS
  <2>3. PICK m : m = Begun(r, "lock", {LockOf(a)}, doc)
    OBVIOUS
  <2>4. a \in Nat /\ LockOf(a) \in Locks
    <3>1. documents[a].employee \in Nat
      BY <1>2, OfKind, PayrollAssumption DEF Grants
    <3>2. a \in Nat
      BY <1>2 DEF Advances, OfType
    <3>3. QED
      BY <3>1, <3>2 DEF LockOf, Locks
  <2>5. r.type = "advance_repayment" /\ doc \in Repayments /\ doc.type = r.type /\ doc.of = a
    BY <1>1, <1>5, <2>2, <2>4 DEF SubmitRepayment, SoundRequest, Repayments
  <2>6. Checked(m)
    BY <1>3, <2>3, <2>5 DEF Checked, CheckedRepayment, OneLock, Ready, Locking, Types
  <2>7. Answers(m, r)
    BY <1>3, <2>3, <2>5 DEF Answers
  <2>8. doc \in Draft
    BY <2>5 DEF Draft, Document
  <2>9. QED
    BY <1>1, <2>1, <2>2, <2>3, <2>4, <2>6, <2>7, <2>8, BeginStep
<1>6. CASE SubmitRun(w, r)
  <2>1. PICK doc : doc = [type |-> r.type, month |-> r.month]
    OBVIOUS
  <2>2. PICK m : m = Begun(r, "roster", {}, doc)
    OBVIOUS
  <2>3. r.type = "payroll_run" /\ doc \in RunDrafts /\ doc.type = r.type /\ doc.month = r.month
    BY <1>1, <1>6, <2>1 DEF SubmitRun, SoundRequest, RunDrafts
  <2>4. CheckedRun(m)
    BY <1>3, <2>2, <2>3 DEF CheckedRun, Ready
  <2>5. Checked(m) /\ Answers(m, r)
    BY <1>3, <2>2, <2>3, <2>4 DEF Checked, Answers, Types
  <2>6. doc \in Draft
    BY <2>3 DEF Draft
  <2>7. Begin(w, r, "roster", {}, doc)
    BY <1>6, <2>1 DEF SubmitRun
  <2>8. QED
    BY <1>1, <2>2, <2>5, <2>6, <2>7, BeginStep
<1>7. CASE SubmitLeaver(w, r)
  <2>1. PICK doc : doc = [type |-> r.type, employee |-> r.employee, amount |-> Gratuity[r.employee]]
    OBVIOUS
  <2>2. PICK m : m = Begun(r, "employee", {}, doc)
    OBVIOUS
  <2>3. r.type \in {"settlement", "stop"} /\ doc.type = r.type
    BY <1>7, <2>1 DEF SubmitLeaver
  <2>4. r.employee \in Employees /\ Gratuity[r.employee] \in Nat
    BY <1>1, <2>3, PayrollAssumption DEF SoundRequest
  <2>5. CASE r.type = "settlement"
    <3>1. doc \in Settlements /\ doc \in Draft
      BY <2>1, <2>4, <2>5 DEF Settlements, Draft, Document
    <3>2. Checked(m) /\ Answers(m, r)
      BY <1>3, <2>1, <2>2, <2>3, <2>5, <3>1 DEF Checked, CheckedSettlement, NoLock, Types, Answers
    <3>3. QED
      BY <1>1, <1>7, <2>1, <2>2, <3>1, <3>2, BeginStep DEF SubmitLeaver
  <2>6. CASE r.type = "stop"
    <3>1. doc \in Stops /\ doc \in Draft
      BY <2>1, <2>4, <2>6 DEF Stops, Draft
    <3>2. Checked(m) /\ Answers(m, r)
      BY <1>3, <2>2, <2>3, <2>6, <3>1 DEF Checked, CheckedStop, NoLock, Answers
    <3>3. QED
      BY <1>1, <1>7, <2>1, <2>2, <3>1, <3>2, BeginStep DEF SubmitLeaver
  <2>7. QED
    BY <2>3, <2>5, <2>6
<1>8. CASE SubmitSalaryPayment(w, r)
  <2>1. PICK run \in {d \in Runs : documents[d].month = r.month} :
          Begin(w, r, "lock", {<<"run", run>>},
                [type |-> r.type, of |-> run, employees |-> r.employees, amount |-> 0])
    BY <1>8 DEF SubmitSalaryPayment
  <2>2. PICK doc : doc = [type |-> r.type, of |-> run, employees |-> r.employees, amount |-> 0]
    OBVIOUS
  <2>3. PICK m : m = Begun(r, "lock", {<<"run", run>>}, doc)
    OBVIOUS
  <2>4. run \in Nat /\ <<"run", run>> \in Locks
    BY <1>2, <2>1 DEF Runs, OfType, Locks
  <2>5. r.type = "salary_payment" /\ doc \in SalaryPayments /\ doc.type = r.type /\ doc.of = run
        /\ doc.employees = r.employees
    BY <1>1, <1>8, <2>2, <2>4 DEF SubmitSalaryPayment, SoundRequest, SalaryPayments
  <2>6. Checked(m)
    BY <1>3, <2>1, <2>3, <2>5 DEF Checked, CheckedSalaries, OneLock, Ready, Locking, Types, Payments
  <2>7. Answers(m, r)
    BY <1>3, <2>1, <2>3, <2>5 DEF Answers, Ready
  <2>8. doc \in Draft
    BY <2>5 DEF Draft, Document
  <2>9. QED
    BY <1>1, <2>1, <2>2, <2>3, <2>4, <2>6, <2>7, <2>8, BeginStep
<1>9. CASE SubmitGosiPayment(w, r)
  <2>1. PICK doc : doc = [type |-> r.type, amount |-> r.amount]
    OBVIOUS
  <2>2. PICK m : m = Begun(r, "lock", {<<"gosi", 0>>}, doc)
    OBVIOUS
  <2>3. r.type = "gosi_payment" /\ doc \in GosiPayments /\ doc.type = r.type
    BY <1>1, <1>9, <2>1 DEF SubmitGosiPayment, SoundRequest, GosiPayments
  <2>4. Checked(m)
    BY <1>3, <2>2, <2>3 DEF Checked, CheckedGosi, OneLock, Ready, Locking, Types, Payments
  <2>5. Answers(m, r)
    BY <1>3, <2>2, <2>3 DEF Answers
  <2>6. doc \in Draft /\ <<"gosi", 0>> \in Locks
    BY <2>3 DEF Draft, Document, Locks
  <2>7. Begin(w, r, "lock", {<<"gosi", 0>>}, doc)
    BY <1>9, <2>1 DEF SubmitGosiPayment
  <2>8. QED
    BY <1>1, <2>2, <2>4, <2>5, <2>6, <2>7, BeginStep
<1>10. CASE SubmitEosbPayment(w, r)
  <2>1. PICK s \in {d \in OfType("settlement") : documents[d].employee = r.employee} :
          Begin(w, r, "lock", {<<"settlement", s>>},
                [type |-> r.type, of |-> s, amount |-> Amount(s)])
    BY <1>10 DEF SubmitEosbPayment
  <2>2. PICK doc : doc = [type |-> r.type, of |-> s, amount |-> Amount(s)]
    OBVIOUS
  <2>3. PICK m : m = Begun(r, "lock", {<<"settlement", s>>}, doc)
    OBVIOUS
  <2>4. s \in Nat /\ Amount(s) \in Nat /\ <<"settlement", s>> \in Locks
    <3>1. s \in Nat
      BY <1>2 DEF OfType
    <3>2. Amount(s) \in Nat
      BY <1>2, OfKind DEF Settlements, Amount
    <3>3. QED
      BY <3>1, <3>2 DEF Locks
  <2>5. r.type = "eosb_payment" /\ doc \in EosbPayments /\ doc.type = r.type /\ doc.of = s
    BY <1>1, <1>10, <2>2, <2>4 DEF SubmitEosbPayment, EosbPayments
  <2>6. Checked(m)
    BY <1>3, <2>3, <2>5 DEF Checked, CheckedEosb, OneLock, Ready, Locking, Types, Payments
  <2>7. Answers(m, r)
    BY <1>3, <2>1, <2>3, <2>5 DEF Answers
  <2>8. doc \in Draft
    BY <2>5 DEF Draft, Document
  <2>9. QED
    BY <1>1, <2>1, <2>2, <2>3, <2>4, <2>6, <2>7, <2>8, BeginStep
<1>11. QED
  BY <1>4, <1>5, <1>6, <1>7, <1>8, <1>9, <1>10 DEF Submit

-----------------------------------------------------------------------------
(* A document is stored *)

(* `D` is stored by worker `w`, with entry `E` when it posts one.          *)
Stored(w, D, E) ==
    /\ txn[w] # Idle /\ txn[w].pc = "store" /\ txn[w].doc = D /\ Storable(D)
    /\ E \in Entry /\ E.key = txn[w].key
    /\ entries' = IF txn[w].posts /\ txn[w].entry = 0 THEN Append(entries, E) ELSE entries
    /\ documents' = Append(documents, D)
    /\ Set(w, Idle)
    /\ active' \subseteq Employees /\ left' \subseteq Employees

(* What a transaction has at the end is a document; what it names is
   posted.                                                                 *)
LEMMA StoredDocument ==
    ASSUME IInv, NEW w \in Workers, NEW t, t = txn[w], t # Idle, t.pc = "store", Storable(t.doc)
    PROVE  /\ t \in Request /\ Sound(t) /\ Checked(t) /\ Ready(t)
           /\ t.doc \in Document /\ Follows(Len(documents) + 1, t.doc)
<1>1. t \in Request /\ Sound(t) /\ Checked(t) /\ Asked(t) /\ Ready(t)
  BY RequestFacts DEF Sound, Ready
<1>2. documents \in Seq(Document) /\ DOMAIN documents = 1 .. Len(documents) /\ Len(documents) \in Nat
  <2>1. documents \in Seq(Document)
    BY InvParts DEF TablesInv
  <2>2. QED
    BY <2>1, FinitelyMany
<1>3. \A type : \A d \in OfType(type) : d < Len(documents) + 1
  BY <1>2 DEF OfType
<1>4. CASE t.doc.type = "payroll_run"
  <2>1. /\ t.doc \in RunsOf(Int)
        /\ \A a \in DOMAIN t.doc.takes : a \in Advances
    BY <1>1, <1>4 DEF Checked, CheckedRun
  <2>2. \A e \in DOMAIN t.doc.net : t.doc.net[e] >= 0
    BY <1>4 DEF Storable
  <2>3. t.doc.net \in Nets(Nat)
    <3>1. PICK S \in SUBSET Employees : t.doc.net \in [S -> Int]
      BY <2>1 DEF RunsOf, Nets
    <3>2. t.doc.net \in [S -> Nat]
      BY <2>2, <3>1
    <3>3. QED
      BY <3>2 DEF Nets
  <2>4. t.doc \in RunsOf(Nat)
    BY <2>1, <2>3 DEF RunsOf
  <2>5. Follows(Len(documents) + 1, t.doc)
    BY <1>3, <1>4, <2>1 DEF Follows, Advances
  <2>6. QED
    BY <1>1, <2>4, <2>5 DEF Document
<1>5. CASE t.doc.type = "advance_repayment"
  <2>1. t.doc \in Repayments /\ t.doc.of \in Advances
    BY <1>1, <1>5 DEF Checked, CheckedRepayment
  <2>2. QED
    BY <1>1, <1>3, <1>5, <2>1 DEF Document, Follows, Advances
<1>6. CASE t.doc.type = "salary_payment"
  <2>1. t.doc \in SalaryPayments /\ t.doc.of \in Runs
    BY <1>1, <1>6 DEF Checked, CheckedSalaries
  <2>2. QED
    BY <1>1, <1>3, <1>6, <2>1 DEF Document, Follows, Runs
<1>7. CASE t.doc.type = "eosb_payment"
  <2>1. t.doc \in EosbPayments /\ t.doc.of \in OfType("settlement")
    BY <1>1, <1>7 DEF Checked, CheckedEosb
  <2>2. QED
    BY <1>1, <1>3, <1>7, <2>1 DEF Document, Follows
<1>8. CASE t.doc.type \in {"salary_advance", "gosi_payment", "settlement"}
  <2>1. t.doc \in Grants \/ t.doc \in GosiPayments \/ t.doc \in Settlements
    BY <1>1, <1>8 DEF Checked, CheckedGrant, CheckedGosi, CheckedSettlement
  <2>2. QED
    BY <1>1, <1>8, <2>1 DEF Document, Follows
<1>9. t.doc.type # "stop"
  BY <1>1 DEF Checked, CheckedStop
<1>10. QED
  BY <1>1, <1>4, <1>5, <1>6, <1>7, <1>8, <1>9 DEF Checked, Types, Payments

(* What it recovers it has locked.                                         *)
LEMMA RecoversWhatIsLocked ==
    ASSUME NEW t, Checked(t), Ready(t), t.doc \in Document, NEW a, a \in Advances,
           LockOf(a) \notin t.held
    PROVE  RecoveredBy(t.doc, a) = 0
<1>1. RepaidBy(t.doc, a) = 0
  BY DEF RepaidBy, Checked, CheckedRepayment, OneLock, Ready
<1>2. WithheldBy(t.doc, a) = 0
  BY DEF WithheldBy, Checked, CheckedRun
<1>3. QED
  BY <1>1, <1>2 DEF RecoveredBy

(* What was posted stays posted, and is found.                             *)
LEMMA StoredGrows ==
    ASSUME NEW D, Appended(D)
    PROVE  /\ \A type : OfType(type) \subseteq OfType(type)'
           /\ Advances \subseteq Advances' /\ Runs \subseteq Runs'
           /\ \A type : \A d \in OfType(type) : documents'[d] = documents[d]
           /\ \A a \in Advances : LockOf(a)' = LockOf(a)
<1>1. \A type : OfType(type) \subseteq OfType(type)' /\ OfType(type) \subseteq DOMAIN documents
  <2>1. ASSUME NEW type
        PROVE  OfType(type) \subseteq OfType(type)' /\ OfType(type) \subseteq DOMAIN documents
    BY AppendedOfType
  <2>2. QED
    BY <2>1
<1>2. \A type : \A d \in OfType(type) : documents'[d] = documents[d]
  BY <1>1, AppendedDocuments
<1>3. \A a \in Advances : LockOf(a)' = LockOf(a)
  BY <1>2 DEF LockOf, Advances
<1>4. Advances \subseteq Advances' /\ Runs \subseteq Runs'
  BY <1>1 DEF Advances, Runs
<1>5. QED
  BY <1>1, <1>2, <1>3, <1>4

(* Nothing that another transaction has read under its locks changes.      *)
LEMMA CheckedStays ==
    ASSUME NEW t, Checked(t), Ready(t), Appended(t.doc), NEW s, Checked(s),
           s.held \cap t.held = {}
    PROVE  Checked(s)'
<1>0. t.doc \in Document
  BY DEF Appended
<1>1. CASE s.doc.type \in {"salary_advance", "settlement", "stop"}
  BY <1>1 DEF Checked, CheckedGrant, CheckedSettlement, CheckedStop, NoLock, Types, Payments
<1>2. CASE s.doc.type = "advance_repayment"
  <2>1. CheckedRepayment(s)
    BY <1>2 DEF Checked
  <2>2. PICK a : a = s.doc.of
    OBVIOUS
  <2>3. a \in Advances /\ a \in Advances' /\ LockOf(a)' = LockOf(a)
    BY <2>1, <2>2, StoredGrows DEF CheckedRepayment
  <2>4. ASSUME Ready(s) PROVE s.doc.amount <= Remaining(a)'
    <3>1. LockOf(a) \notin t.held
      BY <2>1, <2>2, <2>4 DEF CheckedRepayment, OneLock, Ready
    <3>2. Remaining(a)' = Remaining(a) - 0 /\ Remaining(a) \in Int
      BY <1>0, <2>3, <3>1, RecoversWhatIsLocked, RemainingStep
    <3>3. QED
      BY <2>1, <2>2, <2>4, <3>2 DEF CheckedRepayment
  <2>5. CheckedRepayment(s)'
    BY <2>1, <2>2, <2>3, <2>4 DEF CheckedRepayment, OneLock, Ready
  <2>6. QED
    BY <1>2, <2>5 DEF Checked, Types
<1>3. CASE s.doc.type = "payroll_run"
  <2>1. CheckedRun(s)
    BY <1>3 DEF Checked
  <2>2. ASSUME Ready(s), NEW a \in DOMAIN s.doc.takes
        PROVE  a \in Advances' /\ LockOf(a)' \in s.held /\ s.doc.takes[a] <= Remaining(a)'
    <3>1. a \in Advances /\ LockOf(a) \in s.held /\ s.doc.takes[a] <= Remaining(a)
      BY <2>1, <2>2 DEF CheckedRun
    <3>2. a \in Advances' /\ LockOf(a)' = LockOf(a) /\ LockOf(a) \notin t.held
      BY <3>1, StoredGrows
    <3>3. Remaining(a)' = Remaining(a) - 0 /\ Remaining(a) \in Int
      BY <1>0, <3>1, <3>2, RecoversWhatIsLocked, RemainingStep
    <3>4. QED
      BY <3>1, <3>2, <3>3
  <2>3. CheckedRun(s)'
    BY <2>1, <2>2 DEF CheckedRun, Ready
  <2>4. QED
    BY <1>3, <2>3 DEF Checked, Types
<1>4. CASE s.doc.type = "salary_payment"
  <2>1. CheckedSalaries(s)
    BY <1>4 DEF Checked
  <2>2. CheckedSalaries(s)'
    BY <2>1, StoredGrows DEF CheckedSalaries, OneLock, Ready
  <2>3. QED
    BY <1>4, <2>2 DEF Checked, Types, Payments
<1>5. CASE s.doc.type = "gosi_payment"
  <2>1. CheckedGosi(s)
    BY <1>5 DEF Checked
  <2>2. ASSUME Ready(s) PROVE s.doc.amount <= GosiOutstanding'
    <3>1. s.held = {<<"gosi", 0>>}
      BY <2>1, <2>2 DEF CheckedGosi, OneLock, Ready
    <3>2. t.doc.type # "gosi_payment"
      BY <3>1 DEF Checked, CheckedGosi, OneLock, Ready
    <3>3. /\ GosiOutstanding' = GosiOutstanding + GosiChange(t.doc)
          /\ GosiOutstanding \in Int /\ t.doc.amount \in Nat
      BY GosiStep
    <3>4. s.doc.amount \in Int /\ s.doc.amount <= GosiOutstanding
      BY <2>1, <2>2 DEF CheckedGosi, GosiPayments
    <3>5. QED
      BY <3>2, <3>3, <3>4 DEF GosiChange
  <2>3. CheckedGosi(s)'
    BY <2>1, <2>2 DEF CheckedGosi, OneLock, Ready
  <2>4. QED
    BY <1>5, <2>3 DEF Checked, Types, Payments
<1>6. CASE s.doc.type = "eosb_payment"
  <2>1. CheckedEosb(s)
    BY <1>6 DEF Checked
  <2>2. CheckedEosb(s)'
    BY <2>1, StoredGrows DEF CheckedEosb, OneLock, Ready
  <2>3. QED
    BY <1>6, <2>2 DEF Checked, Types, Payments
<1>7. QED
  BY <1>1, <1>2, <1>3, <1>4, <1>5, <1>6 DEF Checked, Types, Payments

(* Nor does what it was asked for.                                         *)
LEMMA AskedStays ==
    ASSUME NEW t, Checked(t), Ready(t), Appended(t.doc), NEW s, Checked(s), Asked(s),
           s.held \cap t.held = {}
    PROVE  Asked(s)'
<1>1. PICK r \in Requests : Answers(s, r)
  BY DEF Asked
<1>2. CASE s.doc.type # "salary_payment"
  <2>1. s.doc.type = "eosb_payment" => documents'[s.doc.of] = documents[s.doc.of]
    BY StoredGrows DEF Checked, CheckedEosb
  <2>2. QED
    BY <1>1, <1>2, <2>1 DEF Asked, Answers
<1>3. CASE s.doc.type = "salary_payment"
  <2>1. CheckedSalaries(s)
    BY <1>3 DEF Checked
  <2>2. PICK run : run = s.doc.of
    OBVIOUS
  <2>3. run \in Runs /\ documents'[run] = documents[run]
    BY <2>1, <2>2, StoredGrows DEF CheckedSalaries, Runs
  <2>4. ASSUME Ready(s) PROVE Unpaid(run)' = Unpaid(run)
    <3>1. <<"run", run>> \notin t.held
      BY <2>1, <2>2, <2>4 DEF CheckedSalaries, OneLock, Ready
    <3>2. PaidBy(t.doc, run) = {}
      BY <3>1 DEF PaidBy, Checked, CheckedSalaries, OneLock, Ready
    <3>3. QED
      BY <2>3, <3>2, UnpaidStep
  <2>5. Answers(s, r)'
    BY <1>1, <2>2, <2>3, <2>4 DEF Answers, Ready, Wanted
  <2>6. QED
    BY <2>5 DEF Asked
<1>4. QED
  BY <1>2, <1>3

(* The entries of another key stay.                                        *)
LEMMA KeyStays ==
    ASSUME entries \in Seq(Entry), NEW E \in Entry,
           entries' = entries \/ entries' = Append(entries, E),
           NEW s, KeyTold(s), s.key = E.key => s.key \in RetriedKeys
    PROVE  KeyTold(s)'
<1>1. /\ \A i \in DOMAIN entries : i \in DOMAIN entries' /\ entries'[i] = entries[i]
      /\ \A i \in DOMAIN entries' : i \in DOMAIN entries \/ entries'[i] = E
  OBVIOUS
<1>2. Posted(s.key) \subseteq Posted(s.key)'
  BY <1>1 DEF Posted
<1>3. s.key # E.key => Posted(s.key)' = Posted(s.key)
  BY <1>1 DEF Posted
<1>4. QED
  BY <1>2, <1>3 DEF KeyTold

(* Documents still follow what they name.                                  *)
LEMMA OrderStep ==
    ASSUME NEW D, Appended(D)
    PROVE  DocumentsInOrder'
<1>1. PICK n : n = Len(documents) + 1
  OBVIOUS
<1>2. ASSUME NEW d, NEW X, Follows(d, X) PROVE Follows(d, X)'
  BY <1>2, StoredGrows DEF Follows
<1>3. \A d \in DOMAIN documents : Follows(d, documents[d])
  BY DEF Appended, DocumentsInOrder
<1>4. /\ DOMAIN documents' = DOMAIN documents \cup {n}
      /\ documents'[n] = D
      /\ \A i \in DOMAIN documents : documents'[i] = documents[i]
  BY <1>1, AppendedDocuments
<1>5. ASSUME NEW d \in DOMAIN documents', NEW X, X = documents'[d] PROVE Follows(d, X)'
  <2>1. Follows(d, X)
    <3>1. CASE d = n
      BY <1>1, <1>4, <1>5, <3>1 DEF Appended
    <3>2. CASE d # n
      BY <1>3, <1>4, <1>5, <3>2
    <3>3. QED
      BY <3>1, <3>2
  <2>2. QED
    BY <1>2, <2>1
<1>6. QED
  BY <1>5 DEF DocumentsInOrder

(* Nobody is paid twice by a document that may be stored.                  *)
LEMMA PaidOnceStep ==
    ASSUME PaidOnce, NEW t, Checked(t), Ready(t), Appended(t.doc), Storable(t.doc)
    PROVE  PaidOnce'
<1>0. PICK D, n : D = t.doc /\ n = Len(documents) + 1
  OBVIOUS
<1>1. /\ documents'[n] = D /\ n \notin DOMAIN documents /\ D \in Document
      /\ \A i \in DOMAIN documents : documents'[i] = documents[i]
  BY <1>0, AppendedDocuments DEF Appended
<1>2. ASSUME NEW type
      PROVE  /\ OfType(type) \subseteq DOMAIN documents
             /\ OfType(type)' = OfType(type) \cup (IF D.type = type THEN {n} ELSE {})
  BY <1>0, AppendedOfType
<1>3. OneRunAMonth'
  <2>1. D.type = "payroll_run" => \A r \in Runs : documents[r].month # D.month
    BY <1>0 DEF Storable, MonthRun
  <2>2. Runs' = Runs \cup (IF D.type = "payroll_run" THEN {n} ELSE {}) /\ Runs \subseteq DOMAIN documents
    BY <1>2 DEF Runs
  <2>3. ASSUME NEW r \in Runs', NEW s \in Runs', documents'[r].month = documents'[s].month
        PROVE  r = s
    BY <1>1, <2>1, <2>2, <2>3 DEF PaidOnce, OneRunAMonth
  <2>4. QED
    BY <2>3 DEF OneRunAMonth
<1>4. LinesPaidOnce'
  <2>1. PICK P : P = OfType("salary_payment")
    OBVIOUS
  <2>2. /\ P \subseteq DOMAIN documents
        /\ OfType("salary_payment")' = P \cup (IF D.type = "salary_payment" THEN {n} ELSE {})
    BY <1>2, <2>1
  <2>3. D.type = "salary_payment" =>
          \A p \in P : documents[p].of = D.of => documents[p].employees \cap D.employees = {}
    <3>1. ASSUME D.type = "salary_payment", NEW p \in P, documents[p].of = D.of
          PROVE  documents[p].employees \cap D.employees = {}
      <4>1. D.employees \subseteq Unpaid(D.of)
        BY <1>0, <3>1 DEF Storable
      <4>2. p \in PaymentsOf("salary_payment", D.of)
        BY <2>1, <3>1 DEF PaymentsOf
      <4>3. QED
        BY <4>1, <4>2 DEF Unpaid
    <3>2. QED
      BY <3>1
  <2>4. ASSUME NEW p \in OfType("salary_payment")', NEW q \in OfType("salary_payment")',
               documents'[p].of = documents'[q].of, p # q
        PROVE  documents'[p].employees \cap documents'[q].employees = {}
    <3>1. CASE p \in P /\ q \in P
      BY <1>1, <2>1, <2>2, <2>4, <3>1 DEF PaidOnce, LinesPaidOnce
    <3>2. CASE p \in P /\ q \notin P
      <4>1. q = n /\ D.type = "salary_payment" /\ documents'[p] = documents[p]
        BY <1>1, <2>2, <2>4, <3>2
      <4>2. QED
        BY <1>1, <2>3, <2>4, <3>2, <4>1
    <3>3. CASE p \notin P /\ q \in P
      <4>1. p = n /\ D.type = "salary_payment" /\ documents'[q] = documents[q]
        BY <1>1, <2>2, <2>4, <3>3
      <4>2. QED
        BY <1>1, <2>3, <2>4, <3>3, <4>1
    <3>4. QED
      BY <2>2, <2>4, <3>1, <3>2, <3>3
  <2>5. QED
    BY <2>4 DEF LinesPaidOnce
<1>5. GratuitiesPaidOnce'
  <2>1. PICK P : P = OfType("eosb_payment")
    OBVIOUS
  <2>2. /\ P \subseteq DOMAIN documents
        /\ OfType("eosb_payment")' = P \cup (IF D.type = "eosb_payment" THEN {n} ELSE {})
    BY <1>2, <2>1
  <2>3. D.type = "eosb_payment" => \A p \in P : documents[p].of # D.of
    BY <1>0, <2>1 DEF Storable, PaymentsOf
  <2>4. ASSUME NEW p \in OfType("eosb_payment")', NEW q \in OfType("eosb_payment")',
               documents'[p].of = documents'[q].of
        PROVE  p = q
    BY <1>1, <2>1, <2>2, <2>3, <2>4 DEF PaidOnce, GratuitiesPaidOnce
  <2>5. QED
    BY <2>4 DEF GratuitiesPaidOnce
<1>6. GosiOutstanding' >= 0
  <2>1. /\ GosiOutstanding' = GosiOutstanding + GosiChange(D)
        /\ GosiOutstanding \in Int /\ D.amount \in Nat /\ GosiOutstanding >= 0
    BY <1>0, GosiStep DEF PaidOnce
  <2>2. D.type = "gosi_payment" => D.amount <= GosiOutstanding
    BY <1>0 DEF Checked, CheckedGosi
  <2>3. QED
    BY <2>1, <2>2 DEF GosiChange
<1>7. QED
  BY <1>3, <1>4, <1>5, <1>6 DEF PaidOnce

(* A document is stored.                                                   *)
LEMMA StoreStep ==
    ASSUME IInv, NEW w \in Workers, NEW D, NEW E, Stored(w, D, E)
    PROVE  IInv' /\ Appended(D)
<1>1. PICK t : t = txn[w]
  OBVIOUS
<1>2. /\ t # Idle /\ t.pc = "store" /\ t.doc = D /\ Storable(D) /\ E \in Entry /\ E.key = t.key
      /\ entries' = entries \/ entries' = Append(entries, E)
      /\ documents' = Append(documents, D)
      /\ Set(w, Idle) /\ active' \subseteq Employees /\ left' \subseteq Employees
  BY <1>1 DEF Stored
<1>3. /\ t \in Request /\ Sound(t) /\ Checked(t) /\ Ready(t)
      /\ D \in Document /\ Follows(Len(documents) + 1, D)
  BY <1>1, <1>2, StoredDocument
<1>4. /\ documents \in Seq(Document) /\ entries \in Seq(Entry) /\ DocumentsInOrder /\ PaidOnce
      /\ txn \in [Workers -> Request \cup {Idle}]
  BY InvParts DEF TablesInv
<1>5. Appended(D)
  BY <1>2, <1>3, <1>4 DEF Appended
<1>6. /\ txn' \in [Workers -> Request \cup {Idle}]
      /\ txn'[w] = Idle /\ \A v \in Workers \ {w} : txn'[v] = txn[v]
  BY <1>2, <1>4 DEF Set
<1>7. TablesInv'
  <2>1. documents' \in Seq(Document) /\ entries' \in Seq(Entry)
    <3>1. documents' \in Seq(Document)
      BY <1>5, AppendedDocuments
    <3>2. CASE entries' = entries
      BY <1>4, <3>1, <3>2
    <3>3. CASE entries' = Append(entries, E)
      BY <1>2, <1>4, <3>1, <3>3
    <3>4. QED
      BY <1>2, <3>2, <3>3
  <2>2. DocumentsInOrder' /\ PaidOnce'
    BY <1>2, <1>3, <1>4, <1>5, OrderStep, PaidOnceStep
  <2>3. QED
    BY <1>2, <2>1, <2>2 DEF TablesInv
<1>8. TxnInv'
  <2>1. ASSUME NEW v \in Workers, NEW s, s = txn'[v], s # Idle PROVE Sound(s)'
    <3>1. s = txn[v] /\ v # w
      BY <1>6, <2>1
    <3>2. Sound(s) /\ Apart(s, t)
      BY <1>1, <1>2, <2>1, <3>1, InvParts DEF TxnInv, LockInv
    <3>3. Checked(s) /\ Asked(s) /\ KeyTold(s) /\ s.held \cap t.held = {}
          /\ (s.key = E.key => s.key \in RetriedKeys)
      BY <1>2, <3>2 DEF Sound, Apart
    <3>4. Appended(t.doc)
      BY <1>2, <1>5
    <3>5. Checked(s)'
      BY <1>3, <3>3, <3>4, CheckedStays
    <3>6. Asked(s)'
      BY <1>3, <3>3, <3>4, AskedStays
    <3>7. KeyTold(s)'
      BY <1>2, <1>4, <3>3, KeyStays
    <3>8. QED
      BY <3>5, <3>6, <3>7 DEF Sound
  <2>2. QED
    BY <2>1 DEF TxnInv
<1>9. LockInv'
  BY <1>6, InvParts DEF LockInv, Apart
<1>10. IInv'
  <2>1. (IInv <=> /\ TablesInv /\ TxnInv /\ LockInv
                  /\ txn \in [Workers -> Request \cup {Idle}])'
    BY InvParts, PTL
  <2>2. QED
    BY <1>6, <1>7, <1>8, <1>9, <2>1
<1>11. QED
  BY <1>5, <1>10


(* What the entry of a document says.                                      *)
NetPayIn(D) ==
    IF D.type = "salary_payment" THEN D.amount
    ELSE IF D.type = "payroll_run" THEN -NetTotal(D) ELSE 0
GratuityIn(D) ==
    IF D.type = "eosb_payment" THEN D.amount ELSE IF D.type = "settlement" THEN -D.amount ELSE 0
EntryOf(D, key) ==
    [key |-> key,
     advances |-> (IF D.type = "salary_advance" THEN D.amount ELSE 0) - RecoveredIn(D),
     netPay |-> NetPayIn(D), gosi |-> -GosiChange(D), eosb |-> GratuityIn(D)]

(* Three fields of an entry are set.                                       *)
LEMMA ThreeFields ==
    ASSUME NEW k \in Keys, NEW x \in Int, NEW y \in Int, NEW z \in Int
    PROVE  /\ [[key |-> k, advances |-> 0, netPay |-> 0, gosi |-> 0, eosb |-> 0]
                 EXCEPT !.advances = x, !.netPay = y, !.gosi = z]
                = [key |-> k, advances |-> x, netPay |-> y, gosi |-> z, eosb |-> 0]
           /\ [[key |-> k, advances |-> 0, netPay |-> 0, gosi |-> 0, eosb |-> 0]
                 EXCEPT !.netPay = x, !.gosi = y, !.eosb = z]
                = [key |-> k, advances |-> 0, netPay |-> x, gosi |-> y, eosb |-> z]
<1>1. PICK R : R = [key |-> k, advances |-> 0, netPay |-> 0, gosi |-> 0, eosb |-> 0]
  OBVIOUS
<1>2. R \in Entry
  BY <1>1 DEF Entry
<1>3. ASSUME NEW E \in Entry, NEW F \in Entry, E.key = F.key, E.advances = F.advances,
             E.netPay = F.netPay, E.gosi = F.gosi, E.eosb = F.eosb
      PROVE  E = F
  BY <1>3 DEF Entry
<1>4. [R EXCEPT !.advances = x, !.netPay = y, !.gosi = z]
        = [key |-> k, advances |-> x, netPay |-> y, gosi |-> z, eosb |-> 0]
  <2>1. PICK E : E = [R EXCEPT !.advances = x, !.netPay = y, !.gosi = z]
    OBVIOUS
  <2>2. E \in Entry /\ E.key = k /\ E.advances = x /\ E.netPay = y /\ E.gosi = z /\ E.eosb = 0
    BY <1>1, <1>2, <2>1 DEF Entry
  <2>3. PICK F : F = [key |-> k, advances |-> x, netPay |-> y, gosi |-> z, eosb |-> 0]
    OBVIOUS
  <2>4. F \in Entry /\ F.key = k /\ F.advances = x /\ F.netPay = y /\ F.gosi = z /\ F.eosb = 0
    BY <2>3 DEF Entry
  <2>5. QED
    BY <1>3, <2>1, <2>2, <2>3, <2>4
<1>5. [R EXCEPT !.netPay = x, !.gosi = y, !.eosb = z]
        = [key |-> k, advances |-> 0, netPay |-> x, gosi |-> y, eosb |-> z]
  <2>1. PICK E : E = [R EXCEPT !.netPay = x, !.gosi = y, !.eosb = z]
    OBVIOUS
  <2>2. E \in Entry /\ E.key = k /\ E.advances = 0 /\ E.netPay = x /\ E.gosi = y /\ E.eosb = z
    BY <1>1, <1>2, <2>1 DEF Entry
  <2>3. PICK F : F = [key |-> k, advances |-> 0, netPay |-> x, gosi |-> y, eosb |-> z]
    OBVIOUS
  <2>4. F \in Entry /\ F.key = k /\ F.advances = 0 /\ F.netPay = x /\ F.gosi = y /\ F.eosb = z
    BY <2>3 DEF Entry
  <2>5. QED
    BY <1>3, <2>1, <2>2, <2>3, <2>4
<1>6. QED
  BY <1>1, <1>4, <1>5

(* Each of the storing actions stores its document with that entry.        *)
LEMMA StoresEntry ==
    ASSUME IInv, NEW w \in Workers, NEW t, t = txn[w],
           \/ StoreGrant(w) \/ StoreRepayment(w) \/ StoreRun(w) \/ StoreSettlement(w)
           \/ StorePayment(w)
    PROVE  Stored(w, t.doc, EntryOf(t.doc, t.key))
<1>1. PICK D, E : D = t.doc /\ E = EntryOf(D, t.key)
  OBVIOUS
<1>2. t # Idle /\ t.pc = "store" /\ Storable(D)
  BY <1>1 DEF StoreGrant, StoreRepayment, StoreRun, StoreSettlement, StorePayment, Store, At
<1>3. t \in Request /\ Checked(t) /\ Ready(t) /\ D \in Document
  BY <1>1, <1>2, StoredDocument
<1>4. t.key \in Keys
  BY <1>3 DEF Request
<1>5. D.amount \in Nat
  BY <1>3, Kinds
<1>6. D.type = "payroll_run" => NetTotal(D) \in Int /\ TakesTotal(D) \in Nat
  <2>1. SUFFICES ASSUME D.type = "payroll_run" PROVE NetTotal(D) \in Int /\ TakesTotal(D) \in Nat
    OBVIOUS
  <2>2. D \in RunsOf(Int) /\ D.takes \in Takes
    BY <1>1, <1>3, <2>1 DEF Checked, CheckedRun, RunsOf
  <2>3. DOMAIN D.takes \subseteq DOMAIN documents
    BY <1>1, <1>3, <2>1 DEF Checked, CheckedRun, Advances, OfType
  <2>4. documents \in Seq(Document)
    BY InvParts DEF TablesInv
  <2>5. IsFiniteSet(DOMAIN D.takes)
    BY <2>3, <2>4, FinitelyMany
  <2>6. QED
    BY <2>2, <2>5, NetTotalType, TakesTotalType
<1>7. E \in Entry /\ E.key = t.key
  <2>1. RecoveredIn(D) \in Int /\ NetPayIn(D) \in Int /\ GosiChange(D) \in Int /\ GratuityIn(D) \in Int
    BY <1>5, <1>6 DEF RecoveredIn, NetPayIn, GosiChange, GratuityIn
  <2>2. QED
    BY <1>1, <1>4, <1>5, <2>1 DEF EntryOf, Entry
<1>8. active \subseteq Employees /\ left \subseteq Employees
  BY InvParts DEF TablesInv
<1>9. CASE StoreGrant(w)
  <2>1. D.type = "salary_advance"
    BY <1>1, <1>9 DEF StoreGrant, Store
  <2>2. GrantEntry(t) = E
    BY <1>1, <1>5, <2>1
       DEF GrantEntry, NewEntry, EntryOf, RecoveredIn, NetPayIn, GosiChange, GratuityIn
  <2>3. QED
    BY <1>1, <1>2, <1>7, <1>8, <1>9, <2>2 DEF Stored, StoreGrant, Store
<1>10. CASE StoreRepayment(w)
  <2>1. D.type = "advance_repayment"
    BY <1>1, <1>10 DEF StoreRepayment, Store
  <2>2. RepaymentEntry(t) = E
    BY <1>1, <1>5, <2>1
       DEF RepaymentEntry, NewEntry, EntryOf, RecoveredIn, NetPayIn, GosiChange, GratuityIn
  <2>3. QED
    BY <1>1, <1>2, <1>7, <1>8, <1>10, <2>2 DEF Stored, StoreRepayment, Store
<1>11. CASE StoreRun(w)
  <2>1. D.type = "payroll_run"
    BY <1>1, <1>11 DEF StoreRun, Store
  <2>2. RunEntry(t) = E
    <3>1. RunEntry(t) = [key |-> t.key, advances |-> -TakesTotal(D), netPay |-> -NetTotal(D),
                         gosi |-> -D.amount, eosb |-> 0]
      <4>1. PICK x, y, z : x = -TakesTotal(D) /\ y = -NetTotal(D) /\ z = -D.amount
        OBVIOUS
      <4>2. RunEntry(t) = [[key |-> t.key, advances |-> 0, netPay |-> 0, gosi |-> 0, eosb |-> 0]
                             EXCEPT !.advances = x, !.netPay = y, !.gosi = z]
        BY <1>1, <4>1 DEF RunEntry, NewEntry
      <4>3. x \in Int /\ y \in Int /\ z \in Int
        BY <1>5, <1>6, <2>1, <4>1
      <4>4. QED
        BY <1>4, <4>1, <4>2, <4>3, ThreeFields
    <3>2. /\ RecoveredIn(D) = TakesTotal(D) /\ NetPayIn(D) = -NetTotal(D)
          /\ GosiChange(D) = D.amount /\ GratuityIn(D) = 0
      BY <2>1 DEF RecoveredIn, NetPayIn, GosiChange, GratuityIn
    <3>3. (IF D.type = "salary_advance" THEN D.amount ELSE 0) - RecoveredIn(D) = -TakesTotal(D)
      BY <1>6, <2>1, <3>2
    <3>4. QED
      BY <1>1, <3>1, <3>2, <3>3 DEF EntryOf
  <2>3. QED
    BY <1>1, <1>2, <1>7, <1>8, <1>11, <2>2 DEF Stored, StoreRun, Store
<1>12. CASE StoreSettlement(w)
  <2>1. D.type = "settlement"
    BY <1>1, <1>12 DEF StoreSettlement, Store
  <2>2. SettlementEntry(t) = E
    BY <1>1, <1>5, <2>1
       DEF SettlementEntry, NewEntry, EntryOf, RecoveredIn, NetPayIn, GosiChange, GratuityIn
  <2>3. D.employee \in Employees
    BY <1>3, <2>1, Kinds DEF Settlements
  <2>4. active' \subseteq Employees /\ left' \subseteq Employees
    BY <1>1, <1>8, <1>12, <2>3 DEF StoreSettlement
  <2>5. QED
    BY <1>1, <1>2, <1>7, <1>12, <2>2, <2>4 DEF Stored, StoreSettlement, Store
<1>13. CASE StorePayment(w)
  <2>1. D.type \in {"salary_payment", "gosi_payment", "eosb_payment"}
    BY <1>1, <1>13 DEF StorePayment, Store, Payments
  <2>2. PaymentEntry(t) = E
    <3>1. PICK p, g, q : /\ p = IF D.type = "salary_payment" THEN D.amount ELSE 0
                         /\ g = IF D.type = "gosi_payment" THEN D.amount ELSE 0
                         /\ q = IF D.type = "eosb_payment" THEN D.amount ELSE 0
      OBVIOUS
    <3>2. PaymentEntry(t) = [key |-> t.key, advances |-> 0, netPay |-> p, gosi |-> g, eosb |-> q]
      <4>1. PaymentEntry(t) = [[key |-> t.key, advances |-> 0, netPay |-> 0, gosi |-> 0, eosb |-> 0]
                                 EXCEPT !.netPay = p, !.gosi = g, !.eosb = q]
        BY <1>1, <3>1 DEF PaymentEntry, NewEntry
      <4>2. p \in Int /\ g \in Int /\ q \in Int
        BY <1>5, <3>1
      <4>3. QED
        BY <1>4, <4>1, <4>2, ThreeFields
    <3>3. RecoveredIn(D) = 0 /\ NetPayIn(D) = p /\ GratuityIn(D) = q
      BY <2>1, <3>1 DEF RecoveredIn, NetPayIn, GratuityIn
    <3>4. -GosiChange(D) = g
      BY <1>5, <2>1, <3>1 DEF GosiChange
    <3>5. (IF D.type = "salary_advance" THEN D.amount ELSE 0) - RecoveredIn(D) = 0
      BY <2>1, <3>3
    <3>6. QED
      BY <1>1, <3>2, <3>3, <3>4, <3>5 DEF EntryOf
  <2>3. QED
    BY <1>1, <1>2, <1>7, <1>8, <1>13, <2>2 DEF Stored, StorePayment, Store
<1>14. QED
  BY <1>9, <1>10, <1>11, <1>12, <1>13

-----------------------------------------------------------------------------
(* The invariant holds *)

LEMMA InitInv ==
    ASSUME Init
    PROVE  IInv
<1>1. documents = << >> /\ entries = << >>
  BY DEF Init
<1>2. KindInv
  BY DEF KindInv, Init
<1>3. \A type : OfType(type) = {}
  BY <1>1 DEF OfType
<1>4. Runs = {}
  BY <1>3 DEF Runs
<1>5. GosiOutstanding = 0
  BY <1>3, <1>4, SumEmpty DEF GosiOutstanding, Total
<1>6. PaidOnce
  BY <1>3, <1>4, <1>5 DEF PaidOnce, OneRunAMonth, LinesPaidOnce, GratuitiesPaidOnce
<1>7. DocumentsInOrder
  BY <1>1 DEF DocumentsInOrder
<1>8. TxnInv /\ LockInv
  BY DEF TxnInv, LockInv, Init
<1>9. QED
  BY <1>2, <1>6, <1>7, <1>8 DEF IInv

(* Every step of a transaction, by the step.                               *)
LEMMA AdvanceStep ==
    ASSUME IInv, NEW w \in Workers, Advance(w)
    PROVE  IInv'
<1>1. CASE ReadEmployee(w)
  BY <1>1, EmployeeStep
<1>2. CASE ReadOwed(w)
  BY <1>2, OwedStep
<1>3. CASE ReadRoster(w)
  BY <1>3, RosterStep
<1>4. CASE TakeLock(w)
  BY <1>4, LockStep
<1>5. CASE ReadUnderLock(w)
  BY <1>5, ReadStep
<1>6. CASE PostEntry(w)
  BY <1>6, PostStep
<1>7. CASE StopEmployee(w)
  BY <1>7, EmploymentStep
<1>8. CASE \/ StoreGrant(w) \/ StoreRepayment(w) \/ StoreRun(w) \/ StoreSettlement(w)
           \/ StorePayment(w)
  <2>1. PICK t : t = txn[w]
    OBVIOUS
  <2>2. Stored(w, t.doc, EntryOf(t.doc, t.key))
    BY <1>8, <2>1, StoresEntry
  <2>3. QED
    BY <2>2, StoreStep
<1>9. CASE Refuse(w)
  BY <1>9, FailStep DEF Refuse
<1>10. QED
  BY <1>1, <1>2, <1>3, <1>4, <1>5, <1>6, <1>7, <1>8, <1>9 DEF Advance

(* Every step keeps the invariant.                                         *)
LEMMA NextInv ==
    ASSUME IInv, [Next]_vars
    PROVE  IInv'
<1>1. ASSUME NEW w \in Workers, NEW r \in Requests, Submit(w, r) PROVE IInv'
  BY <1>1, SubmitStep
<1>2. ASSUME NEW w \in Workers, Advance(w) PROVE IInv'
  BY <1>2, AdvanceStep
<1>3. ASSUME NEW w \in Workers, Rollback(w) PROVE IInv'
  BY <1>3, FailStep DEF Rollback
<1>4. ASSUME NEW e \in Employees, StartEmployee(e) PROVE IInv'
  BY <1>4, EmploymentStep
<1>5. CASE UNCHANGED vars
  BY <1>5, NothingMoves, InvParts DEF vars, tables, TablesInv
<1>6. QED
  BY <1>1, <1>2, <1>3, <1>4, <1>5 DEF Next

(* The invariant holds always.                                             *)
LEMMA Invariance == Spec => []IInv
<1>1. Init => IInv
  BY InitInv
<1>2. IInv /\ [Next]_vars => IInv'
  BY NextInv
<1>3. QED
  BY <1>1, <1>2, PTL DEF Spec


(* The type invariant: every variable holds a value of its kind.           *)
THEOREM Types_of_payroll == Spec => []TypeOK
<1>1. IInv => TypeOK
  <2> SUFFICES ASSUME IInv PROVE TypeOK
    OBVIOUS
  <2>1. /\ documents \in Seq(Document) /\ DocumentsInOrder
        /\ active \subseteq Employees /\ left \subseteq Employees
    BY InvParts DEF TablesInv
  <2>2. ASSUME NEW d \in DOMAIN documents, NEW D, D = documents[d]
        PROVE  /\ D.type \in Types /\ D.amount \in Nat
               /\ D.type = "payroll_run" =>
                    /\ DOMAIN D.net \subseteq Employees
                    /\ \A e \in DOMAIN D.net : D.net[e] >= 0
                    /\ \A a \in DOMAIN D.takes : a < d /\ D.takes[a] > 0
    <3>1. D \in Document /\ Follows(d, D)
      BY <2>1, <2>2 DEF DocumentsInOrder
    <3>2. CASE D.type = "payroll_run"
      <4>1. D.net \in Nets(Nat) /\ D.takes \in Takes
        BY <3>1, <3>2, Kinds DEF RunsOf
      <4>2. DOMAIN D.net \subseteq Employees /\ \A e \in DOMAIN D.net : D.net[e] >= 0
        BY <4>1 DEF Nets
      <4>3. \A a \in DOMAIN D.takes : a < d /\ D.takes[a] > 0
        BY <3>1, <3>2, <4>1, TakesType DEF Follows
      <4>4. QED
        BY <3>1, <4>2, <4>3, Kinds
    <3>3. QED
      BY <3>1, <3>2, Kinds
  <2>3. ASSUME NEW w \in Workers, NEW t, t = txn[w], t # Idle PROVE t.held \cap t.wanted = {}
    <3>1. Checked(t) /\ t.held \in SUBSET Locks
      BY <2>3, RequestFacts DEF Sound, Request
    <3>2. CASE t.doc.type = "payroll_run"
      <4>1. CheckedRun(t)
        BY <3>1, <3>2 DEF Checked
      <4>2. \A l \in t.held : ~(l[2] < l[2])
        <5>1. \A l \in t.held : l[2] \in Nat
          BY <3>1 DEF Locks
        <5>2. QED
          BY <5>1
      <4>3. QED
        BY <4>1, <4>2 DEF CheckedRun
    <3>3. CASE t.doc.type # "payroll_run"
      BY <3>1, <3>3 DEF Checked, CheckedGrant, CheckedRepayment, CheckedSettlement, CheckedStop,
         CheckedSalaries, CheckedGosi, CheckedEosb, NoLock, OneLock, Types, Payments
    <3>4. QED
      BY <3>2, <3>3
  <2>4. \A w \in Active : txn[w].held \cap txn[w].wanted = {}
    BY <2>3 DEF Active
  <2>5. QED
    BY <2>1, <2>2, <2>4 DEF TypeOK
<1>2. QED
  BY <1>1, Invariance, PTL

(* Nobody is paid twice, however many pay at the same time, and whatever
   is sent again: one payslip a month, one payment of a payslip and of a
   gratuity, and no more social insurance than is owed.                    *)
THEOREM Nobody_is_paid_twice == Spec => []NobodyIsPaidTwice
<1>1. IInv => NobodyIsPaidTwice
  <2> SUFFICES ASSUME IInv PROVE NobodyIsPaidTwice
    OBVIOUS
  <2>1. PaidOnce
    BY InvParts DEF TablesInv
  <2>2. \A r \in Runs : \A p, q \in PaymentsOf("salary_payment", r) :
          p # q => documents[p].employees \cap documents[q].employees = {}
    BY <2>1 DEF PaidOnce, LinesPaidOnce, PaymentsOf
  <2>3. ASSUME NEW s \in OfType("settlement")
        PROVE  Cardinality(PaymentsOf("eosb_payment", s)) <= 1
    <3>1. \A p, q \in PaymentsOf("eosb_payment", s) : p = q
      BY <2>1 DEF PaidOnce, GratuitiesPaidOnce, PaymentsOf
    <3>2. CASE PaymentsOf("eosb_payment", s) = {}
      BY <3>2, FS_EmptySet
    <3>3. CASE PaymentsOf("eosb_payment", s) # {}
      <4>1. PICK p : p \in PaymentsOf("eosb_payment", s)
        BY <3>3
      <4>2. PaymentsOf("eosb_payment", s) = {p}
        BY <3>1, <4>1
      <4>3. QED
        BY <4>2, FS_Singleton
    <3>4. QED
      BY <3>2, <3>3
  <2>4. QED
    BY <2>1, <2>2, <2>3 DEF NobodyIsPaidTwice, PaidOnce, OneRunAMonth
<1>2. QED
  BY <1>1, Invariance, PTL

-----------------------------------------------------------------------------
(* Nobody waits in a circle *)

(* A finite set of numbers has a greatest one.                             *)
LEMMA GreatestNumber ==
    ASSUME NEW N, N \subseteq Nat, IsFiniteSet(N), N # {}
    PROVE  \E m \in N : \A k \in N : k <= m
<1> DEFINE Good == {R \in SUBSET N : R # {} => \E m \in R : \A k \in R : k <= m}
<1>1. {} \in Good
  OBVIOUS
<1>2. ASSUME NEW R \in SUBSET N, NEW x \in R, R \ {x} \in Good PROVE R \in Good
  <2>1. CASE R \ {x} = {}
    <3>1. \A k \in R : k <= x
      BY <1>2, <2>1
    <3>2. QED
      BY <1>2, <3>1
  <2>2. CASE R \ {x} # {}
    <3>1. PICK m \in R \ {x} : \A k \in R \ {x} : k <= m
      BY <1>2, <2>2
    <3>2. m \in Nat /\ x \in Nat
      BY <1>2, <3>1
    <3>3. CASE x <= m
      <4>1. \A k \in R : k <= m
        BY <3>1, <3>3
      <4>2. QED
        BY <1>2, <3>1, <4>1
    <3>4. CASE m < x
      <4>1. \A k \in R : k <= x
        BY <1>2, <3>1, <3>2, <3>4
      <4>2. QED
        BY <1>2, <4>1
    <3>5. QED
      BY <3>2, <3>3, <3>4
  <2>3. QED
    BY <2>1, <2>2
<1> HIDE DEF Good
<1>3. N \in Good
  BY <1>1, <1>2, SubsetInduction
<1>4. QED
  BY <1>3 DEF Good

(* Who waits for a lock and holds one is a run: it holds locks of lower
   ids than those it wants.                                                *)
LEMMA HolderWaits ==
    ASSUME NEW t, Checked(t), t.pc = "lock", t.held # {}
    PROVE  /\ t.held \cup t.wanted \subseteq AdvanceLocks
           /\ \A l \in t.held, k \in t.wanted : l[2] < k[2]
  BY DEF Checked, CheckedGrant, CheckedRepayment, CheckedRun, CheckedSettlement, CheckedStop,
         CheckedSalaries, CheckedGosi, CheckedEosb, OneLock, Types, Payments

(* Runs, repayments and payments never wait for each other in a circle,
   whatever the rosters: the locks are taken in the order of the ids, and
   nobody takes one once it waits in the engine.                           *)
THEOREM Nobody_waits_in_a_circle == Spec => []NobodyWaitsInACircle
<1>1. IInv => NobodyWaitsInACircle
  <2> SUFFICES ASSUME IInv, NEW S \in SUBSET Active, S # {},
                      \A w \in S : \E v \in S : WaitsFor(w, v)
               PROVE  FALSE
    BY DEF NobodyWaitsInACircle
  <2>1. \A w \in S : w \in Workers /\ txn[w] # Idle /\ Checked(txn[w]) /\ txn[w] \in Request
    BY RequestFacts DEF Active, Sound
  <2>2. ASSUME NEW w \in S PROVE txn[w].pc = "lock"
    <3>1. PICK v \in S : WaitsFor(w, v)
      OBVIOUS
    <3>2. CASE v \in Storing
      <4>1. txn[v].pc = "store"
        BY <3>2 DEF Storing, At
      <4>2. PICK u \in S : WaitsFor(v, u)
        BY <3>1
      <4>3. QED
        BY <4>1, <4>2 DEF WaitsFor, At
    <3>3. CASE v \notin Storing
      BY <3>1, <3>3 DEF WaitsFor, Numbering, Posting, At
    <3>4. QED
      BY <3>2, <3>3
  <2>3. ASSUME NEW w \in S
        PROVE  \E v \in S : \E l \in txn[w].wanted : l \in txn[v].held
    <3>1. PICK v \in S : WaitsFor(w, v)
      OBVIOUS
    <3>2. At(w, "lock") /\ ~At(w, "post")
      BY <2>1, <2>2 DEF At
    <3>3. QED
      BY <3>1, <3>2 DEF WaitsFor, NextLocks, Blocking, Locked
  <2> DEFINE N == {e \in Employees : \E w \in S : <<"advances", e>> \in txn[w].held}
  <2>4. ASSUME NEW w \in S, NEW l \in txn[w].held
        PROVE  \E e \in N : l = <<"advances", e>>
    <3>1. l \in AdvanceLocks
      BY <2>1, <2>2, HolderWaits
    <3>2. QED
      BY <3>1 DEF AdvanceLocks
  <2>5. N # {}
    <3>1. PICK w \in S : TRUE
      OBVIOUS
    <3>2. PICK v \in S : \E l \in txn[w].wanted : l \in txn[v].held
      BY <2>3
    <3>3. QED
      BY <2>4, <3>2
  <2>6. N \subseteq Nat /\ IsFiniteSet(N)
    BY PayrollAssumption, FS_Subset
  <2>7. PICK m \in N : \A k \in N : k <= m
    <3> HIDE DEF N
    <3>1. QED
      BY <2>5, <2>6, GreatestNumber
  <2>8. PICK w \in S : <<"advances", m>> \in txn[w].held
    OBVIOUS
  <2>9. PICK v \in S, l \in txn[w].wanted : l \in txn[v].held
    BY <2>3
  <2>10. PICK e \in N : l = <<"advances", e>>
    BY <2>4, <2>9
  <2>11. m < e
    <3>1. <<"advances", m>>[2] < l[2]
      BY <2>1, <2>2, <2>8, <2>9, HolderWaits
    <3>2. QED
      BY <2>10, <3>1
  <2>12. e <= m /\ e \in Nat /\ m \in Nat
    BY <2>6, <2>7, <2>10
  <2>13. QED
    BY <2>11, <2>12
<1>2. QED
  BY <1>1, Invariance, PTL


-----------------------------------------------------------------------------
(* Advances are open items *)

Worth == [a \in Advances |-> Amount(a)]
Settled == [a \in Advances |-> Recovered(a)]

(* The steps of the abstract specification, in terms of the advances.      *)
LEMMA OpenItemsParts ==
    /\ AdvancesAreOpenItems!Init <=> Worth = [a \in {} |-> 0] /\ Settled = Worth
    /\ AdvancesAreOpenItems!OpenItem <=>
         \E i \in DOMAIN Worth' \ DOMAIN Worth :
           /\ DOMAIN Worth' = DOMAIN Worth \cup {i} /\ DOMAIN Settled' = DOMAIN Worth'
           /\ Worth'[i] > 0 /\ Settled'[i] = 0
           /\ \A j \in DOMAIN Worth : Worth'[j] = Worth[j] /\ Settled'[j] = Settled[j]
    /\ AdvancesAreOpenItems!Settle <=>
         /\ Worth' = Worth
         /\ DOMAIN Settled' = DOMAIN Settled
         /\ \A i \in DOMAIN Settled :
              Settled'[i] = Settled[i] \/ Settled'[i] - Settled[i] \in 1 .. (Worth[i] - Settled[i])
    /\ AdvancesAreOpenItems!items = <<Worth, Settled>>
  BY DEF AdvancesAreOpenItems!Init, AdvancesAreOpenItems!OpenItem, AdvancesAreOpenItems!Settle,
         AdvancesAreOpenItems!Open, AdvancesAreOpenItems!items, Worth, Settled

(* What a document recovers of an advance it had not more than was open.   *)
LEMMA RecoversWhatIsOpen ==
    ASSUME documents \in Seq(Document), NEW t, Checked(t), Ready(t), t.doc \in Document,
           NEW a \in Advances
    PROVE  RecoveredBy(t.doc, a) = 0 \/ RecoveredBy(t.doc, a) \in 1 .. Remaining(a)
<1>1. Remaining(a) \in Int
  <2>1. Recovered(a) \in Nat /\ Amount(a) \in Nat
    BY RecoveredType, OfKind
  <2>2. QED
    BY <2>1 DEF Remaining
<1>2. CASE t.doc.type = "payroll_run"
  <2>1. RepaidBy(t.doc, a) = 0
    BY <1>2 DEF RepaidBy
  <2>2. CASE a \in DOMAIN t.doc.takes
    <3>1. t.doc.takes[a] <= Remaining(a) /\ t.doc.takes \in Takes
      BY <1>2, <2>2, Kinds DEF Checked, CheckedRun, RunsOf
    <3>2. t.doc.takes[a] \in Nat \ {0}
      BY <2>2, <3>1, TakesType
    <3>3. QED
      BY <1>1, <1>2, <2>1, <2>2, <3>1, <3>2 DEF RecoveredBy, WithheldBy
  <2>3. QED
    BY <1>2, <2>1, <2>2 DEF RecoveredBy, WithheldBy
<1>3. CASE t.doc.type = "advance_repayment"
  <2>1. t.doc.amount \in Nat \ {0} /\ t.doc.amount <= Remaining(t.doc.of)
    BY <1>3 DEF Checked, CheckedRepayment, Repayments
  <2>2. QED
    BY <1>1, <1>3, <2>1 DEF RecoveredBy, RepaidBy, WithheldBy
<1>4. QED
  BY <1>2, <1>3 DEF RecoveredBy, RepaidBy, WithheldBy

(* A grant opens an item; every other document settles some of what is
   open, or nothing.                                                       *)
LEMMA StoreItems ==
    ASSUME IInv, NEW w \in Workers, NEW D, NEW E, Stored(w, D, E)
    PROVE  AdvancesAreOpenItems!OpenItem \/ AdvancesAreOpenItems!Settle
<1>1. PICK t : t = txn[w]
  OBVIOUS
<1>2. Appended(D) /\ D = t.doc
  BY <1>1, StoreStep DEF Stored
<1>3. Checked(t) /\ Ready(t) /\ documents \in Seq(Document) /\ D \in Document
  BY <1>1, <1>2, StoredDocument DEF Stored, Appended
<1>4. PICK n : n = Len(documents) + 1
  OBVIOUS
<1>5. /\ DOMAIN Worth = Advances /\ DOMAIN Settled = Advances
      /\ DOMAIN Worth' = Advances' /\ DOMAIN Settled' = Advances'
      /\ \A a \in Advances : Worth[a] = Amount(a) /\ Settled[a] = Recovered(a)
      /\ Worth = [a \in Advances |-> Worth[a]] /\ Worth' = [a \in Advances' |-> Worth'[a]]
  BY DEF Worth, Settled
<1>6. ASSUME NEW a \in Advances'
      PROVE  Worth'[a] = Amount(a)' /\ Settled'[a] = Recovered(a)'
  BY <1>6 DEF Worth, Settled
<1>7. ASSUME NEW a \in Advances, a \in Advances'
      PROVE  /\ Worth'[a] = Worth[a] /\ Settled'[a] = Settled[a] + RecoveredBy(D, a)
             /\ Settled[a] \in Nat /\ RecoveredBy(D, a) \in Nat
             /\ RecoveredBy(D, a) = 0 \/ RecoveredBy(D, a) \in 1 .. (Worth[a] - Settled[a])
  <2>1. /\ Recovered(a)' = Recovered(a) + RecoveredBy(D, a)
        /\ Recovered(a) \in Nat /\ RecoveredBy(D, a) \in Nat /\ Amount(a)' = Amount(a)
    BY <1>2, RemainingStep
  <2>2. RecoveredBy(D, a) = 0 \/ RecoveredBy(D, a) \in 1 .. Remaining(a)
    BY <1>2, <1>3, RecoversWhatIsOpen
  <2>3. Worth'[a] = Amount(a)' /\ Settled'[a] = Recovered(a)'
    BY <1>6, <1>7
  <2>4. Remaining(a) = Worth[a] - Settled[a]
    BY <1>5 DEF Remaining
  <2>5. QED
    BY <1>5, <2>1, <2>2, <2>3, <2>4
<1>8. CASE D.type = "salary_advance"
  <2>1. /\ Advances' = Advances \cup {n} /\ n \notin Advances
        /\ Recovered(n)' = 0 /\ Amount(n)' = D.amount /\ D.amount \in Nat \ {0}
    BY <1>2, <1>4, <1>8, NewAdvance
  <2>2. Worth'[n] > 0 /\ Settled'[n] = 0
    BY <1>6, <2>1
  <2>3. ASSUME NEW j \in Advances PROVE Worth'[j] = Worth[j] /\ Settled'[j] = Settled[j]
    <3>1. RecoveredBy(D, j) = 0
      BY <1>8 DEF RecoveredBy, RepaidBy, WithheldBy
    <3>2. QED
      BY <1>7, <2>1, <3>1
  <2>4. QED
    BY <1>5, <2>1, <2>2, <2>3, OpenItemsParts
<1>9. CASE D.type # "salary_advance"
  <2>1. Advances' = Advances
    BY <1>2, <1>9, AppendedOfType DEF Advances
  <2>2. Worth' = Worth
    BY <1>5, <1>7, <2>1
  <2>3. ASSUME NEW a \in Advances
        PROVE  Settled'[a] = Settled[a] \/ Settled'[a] - Settled[a] \in 1 .. (Worth[a] - Settled[a])
    BY <1>7, <2>1
  <2>4. QED
    BY <1>5, <2>1, <2>2, <2>3, OpenItemsParts
<1>10. QED
  BY <1>8, <1>9

(* Only a storing action changes the documents or the entries.             *)
LEMMA NextKinds ==
    ASSUME IInv, [Next]_vars
    PROVE  \/ UNCHANGED <<documents, entries>>
           \/ \E w \in Workers : Stored(w, txn[w].doc, EntryOf(txn[w].doc, txn[w].key))
<1>1. ASSUME NEW w \in Workers, Advance(w)
      PROVE  \/ UNCHANGED <<documents, entries>>
             \/ Stored(w, txn[w].doc, EntryOf(txn[w].doc, txn[w].key))
  <2>1. CASE \/ StoreGrant(w) \/ StoreRepayment(w) \/ StoreRun(w) \/ StoreSettlement(w)
             \/ StorePayment(w)
    <3>1. PICK t : t = txn[w]
      OBVIOUS
    <3>2. Stored(w, t.doc, EntryOf(t.doc, t.key))
      BY <2>1, <3>1, StoresEntry
    <3>3. QED
      BY <3>1, <3>2
  <2>2. CASE ReadEmployee(w) \/ ReadOwed(w) \/ ReadRoster(w)
    BY <2>2 DEF ReadEmployee, ReadOwed, ReadRoster, Proceed, Fail, tables
  <2>3. CASE TakeLock(w) \/ ReadUnderLock(w) \/ PostEntry(w) \/ StopEmployee(w) \/ Refuse(w)
    BY <2>3 DEF TakeLock, ReadUnderLock, PostEntry, StopEmployee, Refuse, Fail, tables
  <2>4. QED
    BY <1>1, <2>1, <2>2, <2>3 DEF Advance
<1>2. ASSUME NEW w \in Workers, NEW r \in Requests, Submit(w, r) PROVE UNCHANGED <<documents, entries>>
  BY <1>2 DEF Submit, tables
<1>3. ASSUME NEW w \in Workers, Rollback(w) PROVE UNCHANGED <<documents, entries>>
  BY <1>3 DEF Rollback, Fail, tables
<1>4. ASSUME NEW e \in Employees, StartEmployee(e) PROVE UNCHANGED <<documents, entries>>
  BY <1>4 DEF StartEmployee
<1>5. CASE UNCHANGED vars
  BY <1>5 DEF vars, tables
<1>6. QED
  BY <1>1, <1>2, <1>3, <1>4, <1>5 DEF Next

(* Payroll implements the open items: repayments and runs that meet never
   take more of an advance than it still owes.                             *)
THEOREM Recovers_advances_once == Spec => RecoversAdvancesOnce
<1>1. Init => AdvancesAreOpenItems!Init
  <2> SUFFICES ASSUME Init PROVE AdvancesAreOpenItems!Init
    OBVIOUS
  <2>1. Advances = {}
    BY DEF Init, Advances, OfType
  <2>2. Worth = [a \in {} |-> 0] /\ Settled = [a \in {} |-> 0]
    BY <2>1 DEF Worth, Settled
  <2>3. QED
    BY <2>2, OpenItemsParts
<1>2. IInv /\ [Next]_vars =>
        [AdvancesAreOpenItems!OpenItem \/ AdvancesAreOpenItems!ChangeItem
           \/ AdvancesAreOpenItems!Settle]_(AdvancesAreOpenItems!items)
  <2> SUFFICES ASSUME IInv, [Next]_vars
               PROVE  [AdvancesAreOpenItems!OpenItem \/ AdvancesAreOpenItems!ChangeItem
                         \/ AdvancesAreOpenItems!Settle]_(AdvancesAreOpenItems!items)
    OBVIOUS
  <2>1. CASE UNCHANGED <<documents, entries>>
    <3>1. Advances' = Advances /\ \A a : Recovered(a)' = Recovered(a) /\ Amount(a)' = Amount(a)
      BY <2>1, DocumentsKept
    <3>2. Worth' = Worth /\ Settled' = Settled
      BY <3>1 DEF Worth, Settled
    <3>3. UNCHANGED AdvancesAreOpenItems!items
      BY <3>2 DEF AdvancesAreOpenItems!items, Worth, Settled
    <3>4. QED
      BY <3>3
  <2>2. CASE \E w \in Workers : Stored(w, txn[w].doc, EntryOf(txn[w].doc, txn[w].key))
    <3>1. PICK w \in Workers : Stored(w, txn[w].doc, EntryOf(txn[w].doc, txn[w].key))
      BY <2>2
    <3>2. QED
      BY <3>1, StoreItems
  <2>3. QED
    BY <2>1, <2>2, NextKinds
<1>3. QED
  BY <1>1, <1>2, Invariance, PTL DEF Spec, RecoversAdvancesOnce, AdvancesAreOpenItems!Spec


-----------------------------------------------------------------------------
(* The accounts, although runs and payments are sent again *)

(* What a client may send again: runs and the payments that a unique index
   protects.  A key is sent again with its request; the settlement of a
   gratuity that is paid again was itself sent with one key.               *)
Replayable == {"payroll_run", "salary_payment", "eosb_payment"}
SettlementRequests(e) == {q \in Requests : q.type = "settlement" /\ q.employee = e}
SafeRetries ==
    \A r \in Requests : r.key \in RetriedKeys =>
      /\ r.type \in Replayable
      /\ \A q \in Requests : q.key = r.key => q = r
      /\ r.type = "eosb_payment" => \A p, q \in SettlementRequests(r.employee) : p.key = q.key

(* A request that was posted cannot be posted once more.                   *)
Done(r) ==
    /\ r.type = "payroll_run" => MonthRun(r.month)
    /\ r.type = "salary_payment" =>
         \E q \in Runs : documents[q].month = r.month /\ Wanted(r, Unpaid(q)) = {}
    /\ r.type = "eosb_payment" =>
         \E s \in OfType("settlement") :
           documents[s].employee = r.employee /\ PaymentsOf("eosb_payment", s) # {}
Replayed == \A r \in Requests : r.key \in RetriedKeys /\ Posted(r.key) # {} => Done(r)

(* Who is paid a gratuity by a request that may be sent again is settled
   once: the termination date is read before the entry is posted.          *)
PaidLeavers ==
    {r.employee : r \in {q \in Requests : q.type = "eosb_payment" /\ q.key \in RetriedKeys}}
Leavings(e) == {s \in OfType("settlement") : documents[s].employee = e}
Settling(t, e) == t.doc.type = "settlement" /\ t.doc.employee = e /\ t.pc # "employee"
SettledOnce(e) ==
    /\ \A s, q \in Leavings(e) : s = q
    /\ Leavings(e) # {} => e \in left
    /\ \A w \in Active : Settling(txn[w], e) => e \notin left
SettleInv == \A e \in PaidLeavers : SettledOnce(e)

(* What is done stays done.                                                *)
LEMMA DoneStays ==
    ASSUME NEW D, Appended(D), NEW r, Done(r)
    PROVE  Done(r)'
<1>1. r.type = "payroll_run" => MonthRun(r.month)'
  BY StoredGrows DEF Done, MonthRun, Runs
<1>2. ASSUME r.type = "salary_payment"
      PROVE  \E q \in Runs' : documents'[q].month = r.month /\ Wanted(r, Unpaid(q)') = {}
  <2>1. PICK q \in Runs : documents[q].month = r.month /\ Wanted(r, Unpaid(q)) = {}
    BY <1>2 DEF Done
  <2>2. q \in Runs' /\ documents'[q].month = r.month
    BY <2>1, StoredGrows DEF Runs
  <2>3. Unpaid(q)' \subseteq Unpaid(q)
    BY <2>1, UnpaidStep
  <2>4. Wanted(r, Unpaid(q)') = {}
    BY <2>1, <2>3 DEF Wanted
  <2>5. QED
    BY <2>2, <2>4
<1>3. ASSUME r.type = "eosb_payment"
      PROVE  \E s \in OfType("settlement")' :
               documents'[s].employee = r.employee /\ PaymentsOf("eosb_payment", s)' # {}
  <2>1. PICK s \in OfType("settlement") :
               documents[s].employee = r.employee /\ PaymentsOf("eosb_payment", s) # {}
    BY <1>3 DEF Done
  <2>2. s \in OfType("settlement")' /\ documents'[s].employee = r.employee
    BY <2>1, StoredGrows
  <2>3. PaymentsOf("eosb_payment", s) \subseteq PaymentsOf("eosb_payment", s)'
    BY AppendedPaymentsOf
  <2>4. QED
    BY <2>1, <2>2, <2>3
<1>4. QED
  BY <1>1, <1>2, <1>3 DEF Done, Wanted

(* A stored document has a new entry: had one been found by its key, the
   request would be done and a unique index would refuse the document.     *)
LEMMA EntryIsNew ==
    ASSUME IInv, SafeRetries, Replayed, SettleInv, NEW w \in Workers, NEW t, t = txn[w],
           t # Idle, t.pc = "store", Storable(t.doc)
    PROVE  t.entry = 0
<1>1. SUFFICES ASSUME t.entry # 0 PROVE FALSE
  OBVIOUS
<1>2. Checked(t) /\ Asked(t) /\ KeyTold(t) /\ Ready(t)
  BY StoredDocument DEF Sound
<1>3. Posted(t.key) # {} /\ t.key \in RetriedKeys
  BY <1>1, <1>2 DEF KeyTold
<1>4. PICK r \in Requests : Answers(t, r)
  BY <1>2 DEF Asked
<1>5. r.key = t.key /\ r.type = t.doc.type /\ Done(r) /\ r.type \in Replayable
  BY <1>3, <1>4 DEF Replayed, SafeRetries, Answers
<1>6. CASE t.doc.type = "payroll_run"
  BY <1>4, <1>5, <1>6 DEF Answers, Done, Storable
<1>7. CASE t.doc.type = "salary_payment"
  <2>1. PICK q \in Runs : documents[q].month = r.month /\ Wanted(r, Unpaid(q)) = {}
    BY <1>5, <1>7 DEF Done
  <2>2. /\ t.doc.of \in Runs /\ documents[t.doc.of].month = r.month /\ t.doc.employees # {}
        /\ t.doc.employees = Wanted(r, Unpaid(t.doc.of))
    BY <1>2, <1>4, <1>7 DEF Answers, Checked, CheckedSalaries
  <2>3. q = t.doc.of
    BY <2>1, <2>2, InvParts DEF TablesInv, PaidOnce, OneRunAMonth
  <2>4. QED
    BY <2>1, <2>2, <2>3
<1>8. CASE t.doc.type = "eosb_payment"
  <2>1. PICK s \in OfType("settlement") :
               documents[s].employee = r.employee /\ PaymentsOf("eosb_payment", s) # {}
    BY <1>5, <1>8 DEF Done
  <2>2. t.doc.of \in OfType("settlement") /\ documents[t.doc.of].employee = r.employee
    BY <1>2, <1>4, <1>8 DEF Answers, Checked, CheckedEosb
  <2>3. r.employee \in PaidLeavers
    BY <1>3, <1>5, <1>8 DEF PaidLeavers
  <2>4. s = t.doc.of
    BY <2>1, <2>2, <2>3 DEF SettleInv, SettledOnce, Leavings
  <2>5. QED
    BY <1>8, <2>1, <2>4 DEF Storable
<1>9. QED
  BY <1>5, <1>6, <1>7, <1>8 DEF Replayable

(* What is stored is done.                                                 *)
LEMMA ReplayStep ==
    ASSUME IInv, SafeRetries, Replayed, NEW w \in Workers, NEW D, NEW E, Stored(w, D, E)
    PROVE  Replayed'
<1>1. PICK t, n : t = txn[w] /\ n = Len(documents) + 1
  OBVIOUS
<1>2. /\ t # Idle /\ t.pc = "store" /\ t.doc = D /\ Storable(D) /\ E.key = t.key /\ E \in Entry
      /\ entries' = entries \/ entries' = Append(entries, E)
  BY <1>1 DEF Stored
<1>3. Appended(D) /\ Checked(t) /\ Asked(t) /\ Ready(t)
  BY <1>1, <1>2, StoreStep, StoredDocument DEF Sound
<1>4. ASSUME NEW k, Posted(k) = {}, Posted(k)' # {} PROVE k = t.key
  <2>1. entries \in Seq(Entry)
    BY InvParts DEF TablesInv
  <2>2. entries' = Append(entries, E)
    BY <1>2, <1>4 DEF Posted
  <2>3. \A i \in DOMAIN entries' : (i \in DOMAIN entries /\ entries'[i] = entries[i]) \/ entries'[i] = E
    BY <1>2, <2>1, <2>2
  <2>4. QED
    BY <1>2, <1>4, <2>3 DEF Posted
<1>5. ASSUME NEW r \in Requests, r.key \in RetriedKeys, r.key = t.key PROVE Done(r)'
  <2>1. PICK q \in Requests : Answers(t, q)
    BY <1>3 DEF Asked
  <2>2. Answers(t, r) /\ r.type = D.type
    <3>1. q = r
      BY <1>5, <2>1 DEF SafeRetries, Answers
    <3>2. QED
      BY <1>2, <2>1, <3>1 DEF Answers
  <2>3. documents'[n] = D
    BY <1>1, <1>3, AppendedDocuments
  <2>4. CASE D.type = "payroll_run"
    <3>1. n \in Runs'
      BY <1>1, <1>3, <2>4, AppendedOfType DEF Runs
    <3>2. D.month = r.month
      BY <1>2, <2>2, <2>4 DEF Answers
    <3>3. MonthRun(r.month)'
      BY <2>3, <3>1, <3>2 DEF MonthRun
    <3>4. QED
      BY <2>2, <2>4, <3>3 DEF Done
  <2>5. CASE D.type = "salary_payment"
    <3>1. PICK run : run = D.of
      OBVIOUS
    <3>2. run \in Runs /\ documents[run].month = r.month /\ D.employees = Wanted(r, Unpaid(run))
      BY <1>2, <1>3, <2>2, <2>5, <3>1 DEF Answers, Checked, CheckedSalaries
    <3>3. run \in Runs' /\ documents'[run].month = r.month
      BY <1>3, <3>2, StoredGrows DEF Runs
    <3>4. Unpaid(run)' = Unpaid(run) \ D.employees
      BY <1>3, <2>5, <3>1, <3>2, UnpaidStep DEF PaidBy
    <3>5. Wanted(r, Unpaid(run)') = {}
      BY <3>2, <3>4 DEF Wanted
    <3>6. QED
      BY <2>2, <2>5, <3>3, <3>5 DEF Done, Wanted
  <2>6. CASE D.type = "eosb_payment"
    <3>1. PICK s : s = D.of
      OBVIOUS
    <3>2. s \in OfType("settlement") /\ documents[s].employee = r.employee
      BY <1>2, <1>3, <2>2, <2>6, <3>1 DEF Answers, Checked, CheckedEosb
    <3>3. s \in OfType("settlement")' /\ documents'[s].employee = r.employee
      BY <1>3, <3>2, StoredGrows
    <3>4. n \in PaymentsOf("eosb_payment", s)'
      BY <1>1, <1>3, <2>6, <3>1, AppendedPaymentsOf
    <3>5. QED
      BY <2>2, <2>6, <3>3, <3>4 DEF Done
  <2>7. QED
    BY <1>5, <2>2, <2>4, <2>5, <2>6 DEF SafeRetries, Replayable
<1>6. ASSUME NEW r \in Requests, r.key \in RetriedKeys, Posted(r.key)' # {} PROVE Done(r)'
  <2>1. CASE Posted(r.key) # {}
    <3>1. Done(r)
      BY <1>6, <2>1 DEF Replayed
    <3>2. QED
      BY <1>3, <3>1, DoneStays
  <2>2. CASE Posted(r.key) = {}
    BY <1>4, <1>5, <1>6, <2>2
  <2>3. QED
    BY <2>1, <2>2
<1>7. QED
  BY <1>6 DEF Replayed


(* Settlements of an employee under way, when none is stored.              *)
LEMMA SettlersMove ==
    ASSUME IInv, SettleInv, UNCHANGED <<documents, left>>,
           \A w \in Workers : \A e : txn'[w] # Idle /\ Settling(txn'[w], e) =>
             e \notin left \/ (txn[w] # Idle /\ Settling(txn[w], e))
    PROVE  SettleInv'
<1>1. \A e : Leavings(e)' = Leavings(e)
  BY DocumentsKept DEF Leavings
<1>2. ASSUME NEW e \in PaidLeavers PROVE SettledOnce(e)'
  <2>1. SettledOnce(e)
    BY <1>2 DEF SettleInv
  <2>2. ASSUME NEW w \in Workers, NEW s, s = txn'[w], s # Idle, Settling(s, e) PROVE e \notin left
    BY <2>1, <2>2 DEF SettledOnce, Active
  <2>3. QED
    BY <1>1, <2>1, <2>2 DEF SettledOnce, Active, Settling
<1>3. QED
  BY <1>2 DEF SettleInv, PaidLeavers

(* One transaction moves on, with its document or with another one.        *)
LEMMA SettlerMoves ==
    ASSUME IInv, SettleInv, UNCHANGED <<documents, left>>, NEW w \in Workers, NEW m, Set(w, m),
           m # Idle => \A e : Settling(m, e) => e \notin left \/ (txn[w] # Idle /\ Settling(txn[w], e))
    PROVE  SettleInv'
<1>1. txn'[w] = m /\ \A v \in Workers \ {w} : txn'[v] = txn[v]
  BY InvParts DEF Set
<1>2. ASSUME NEW v \in Workers, NEW e, txn'[v] # Idle, Settling(txn'[v], e)
      PROVE  e \notin left \/ (txn[v] # Idle /\ Settling(txn[v], e))
  BY <1>1, <1>2
<1>3. QED
  BY <1>2, SettlersMove

(* The steps before a document is stored: the termination date is read by
   the first of a settlement.                                              *)
LEMMA SettlersGoOn ==
    ASSUME IInv, SettleInv, NEW w \in Workers,
           \/ ReadEmployee(w) \/ ReadOwed(w) \/ ReadRoster(w) \/ TakeLock(w) \/ ReadUnderLock(w)
           \/ PostEntry(w) \/ Fail(w)
    PROVE  SettleInv'
<1>1. PICK t : t = txn[w]
  OBVIOUS
<1>2. CASE Fail(w)
  BY <1>2, SettlerMoves DEF Fail, tables
<1>3. ASSUME t # Idle, t \in Request, NEW m, Set(w, m), UNCHANGED tables,
             (m.doc = t.doc /\ t.pc # "employee") \/ m.doc.type # "settlement"
      PROVE  SettleInv'
  BY <1>1, <1>3, SettlerMoves DEF Settling, tables
<1>4. t # Idle => t \in Request
  BY <1>1, RequestFacts
<1>5. CASE ReadEmployee(w) /\ ~Fail(w)
  <2>1. t # Idle /\ t \in Request /\ UNCHANGED tables
    BY <1>1, <1>4, <1>5 DEF ReadEmployee, At, Proceed
  <2>2. PICK pc : Set(w, [t EXCEPT !.pc = pc])
    BY <1>1, <1>5 DEF ReadEmployee, Proceed
  <2>3. t.doc.type = "settlement" => t.doc.employee \notin left
    BY <1>1, <1>5 DEF ReadEmployee
  <2>4. PICK m : m = [t EXCEPT !.pc = pc]
    OBVIOUS
  <2>5. m.doc = t.doc
    BY <2>1, <2>4 DEF Request
  <2>6. QED
    BY <2>1, <2>2, <2>3, <2>4, <2>5, SettlerMoves DEF Settling, tables
<1>6. CASE ReadOwed(w) /\ ~Fail(w)
  <2>1. t # Idle /\ t.pc = "owed" /\ t \in Request /\ UNCHANGED tables
    BY <1>1, <1>4, <1>6 DEF ReadOwed, At, Proceed
  <2>2. \/ \E pc : Set(w, [t EXCEPT !.pc = pc])
        \/ Set(w, [t EXCEPT !.pc = "store", !.posts = FALSE])
    BY <1>1, <1>6 DEF ReadOwed, Proceed
  <2>3. PICK m : Set(w, m) /\ m.doc = t.doc
    <3>1. ASSUME NEW pc PROVE [t EXCEPT !.pc = pc].doc = t.doc
      BY <2>1 DEF Request
    <3>2. [t EXCEPT !.pc = "store", !.posts = FALSE].doc = t.doc
      BY <2>1 DEF Request
    <3>3. QED
      BY <2>2, <3>1, <3>2
  <2>4. QED
    BY <1>3, <2>1, <2>3
<1>7. CASE ReadRoster(w) /\ ~Fail(w)
  <2>1. t # Idle /\ t.pc = "roster" /\ t \in Request /\ UNCHANGED tables
    BY <1>1, <1>4, <1>7 DEF ReadRoster, At
  <2>2. PICK wanted : Set(w, [t EXCEPT !.pc = "lock", !.wanted = wanted])
    BY <1>1, <1>7 DEF ReadRoster
  <2>3. [t EXCEPT !.pc = "lock", !.wanted = wanted].doc = t.doc
    BY <2>1 DEF Request
  <2>4. QED
    BY <1>3, <2>1, <2>2, <2>3
<1>8. CASE TakeLock(w)
  <2>1. t # Idle /\ t.pc = "lock" /\ t \in Request /\ UNCHANGED tables
    BY <1>1, <1>4, <1>8 DEF TakeLock, At
  <2>2. PICK held, wanted, pc : Set(w, [t EXCEPT !.held = held, !.wanted = wanted, !.pc = pc])
    BY <1>1, <1>8 DEF TakeLock
  <2>3. [t EXCEPT !.held = held, !.wanted = wanted, !.pc = pc].doc = t.doc
    BY <2>1 DEF Request
  <2>4. QED
    BY <1>3, <2>1, <2>2, <2>3
<1>9. CASE ReadUnderLock(w) /\ ~Fail(w)
  <2>1. t # Idle /\ t.pc = "read" /\ t \in Request /\ UNCHANGED tables /\ Checked(t)
    BY <1>1, <1>4, <1>9, RequestFacts DEF ReadUnderLock, At, Sound
  <2>2. PICK doc : doc = Completed(t)
    OBVIOUS
  <2>3. Set(w, [t EXCEPT !.pc = "post", !.doc = doc])
    BY <1>1, <1>9, <2>2 DEF ReadUnderLock
  <2>4. PICK m : m = [t EXCEPT !.pc = "post", !.doc = doc]
    OBVIOUS
  <2>5. m.doc = doc
    BY <2>1, <2>4 DEF Request
  <2>6. doc = t.doc \/ doc.type # "settlement"
    <3>1. CASE t.doc.type = "payroll_run"
      BY <2>2, <3>1 DEF Completed, RunFor
    <3>2. CASE t.doc.type = "salary_payment"
      <4>1. t.doc \in SalaryPayments
        BY <2>1, <3>2 DEF Checked, CheckedSalaries
      <4>2. doc.type = t.doc.type
        BY <2>2, <3>2, <4>1 DEF Completed, SalaryPayments
      <4>3. QED
        BY <3>2, <4>2
    <3>3. CASE t.doc.type \notin {"payroll_run", "salary_payment"}
      BY <2>2, <3>3 DEF Completed
    <3>4. QED
      BY <3>1, <3>2, <3>3
  <2>7. QED
    BY <1>3, <2>1, <2>3, <2>4, <2>5, <2>6
<1>10. CASE PostEntry(w) /\ ~Fail(w)
  <2>1. t # Idle /\ t.pc = "post" /\ t \in Request /\ UNCHANGED tables
    BY <1>1, <1>4, <1>10 DEF PostEntry, At
  <2>2. \/ Set(w, [t EXCEPT !.pc = "store"])
        \/ \E e \in Posted(t.key) : Set(w, [t EXCEPT !.pc = "store", !.entry = e])
    BY <1>1, <1>10 DEF PostEntry
  <2>3. PICK m : Set(w, m) /\ m.doc = t.doc
    <3>1. [t EXCEPT !.pc = "store"].doc = t.doc
      BY <2>1 DEF Request
    <3>2. ASSUME NEW e PROVE [t EXCEPT !.pc = "store", !.entry = e].doc = t.doc
      BY <2>1 DEF Request
    <3>3. QED
      BY <2>2, <3>1, <3>2
  <2>4. QED
    BY <1>3, <2>1, <2>3
<1>11. QED
  BY <1>2, <1>5, <1>6, <1>7, <1>8, <1>9, <1>10

(* A settlement that is stored is the first of its employee.               *)
LEMMA SettleStep ==
    ASSUME IInv, SafeRetries, SettleInv, NEW w \in Workers, NEW D, NEW E, Stored(w, D, E),
           left' = IF D.type = "settlement" THEN left \cup {D.employee} ELSE left
    PROVE  SettleInv'
<1>1. PICK t, n : t = txn[w] /\ n = Len(documents) + 1
  OBVIOUS
<1>2. t # Idle /\ t.pc = "store" /\ t.doc = D /\ Storable(D) /\ Set(w, Idle)
  BY <1>1 DEF Stored
<1>3. Appended(D) /\ Checked(t) /\ Asked(t) /\ Ready(t)
  BY <1>1, <1>2, StoreStep, StoredDocument DEF Sound
<1>4. txn'[w] = Idle /\ \A v \in Workers \ {w} : txn'[v] = txn[v]
  BY <1>2, InvParts DEF Set
<1>5. ASSUME NEW e
      PROVE  Leavings(e)' = Leavings(e)
                              \cup (IF D.type = "settlement" /\ D.employee = e THEN {n} ELSE {})
  <2>1. /\ OfType("settlement") \subseteq DOMAIN documents
        /\ OfType("settlement")'
             = OfType("settlement") \cup (IF D.type = "settlement" THEN {n} ELSE {})
    BY <1>1, <1>3, AppendedOfType
  <2>2. documents'[n] = D /\ \A i \in DOMAIN documents : documents'[i] = documents[i]
    BY <1>1, <1>3, AppendedDocuments
  <2>3. Leavings(e)' = {s \in OfType("settlement")' : documents'[s].employee = e}
    BY DEF Leavings
  <2>4. QED
    BY <2>1, <2>2, <2>3 DEF Leavings
<1>6. ASSUME NEW e \in PaidLeavers PROVE SettledOnce(e)'
  <2>1. SettledOnce(e)
    BY <1>6 DEF SettleInv
  <2>2. CASE D.type = "settlement" /\ D.employee = e
    <3>1. Settling(t, e)
      BY <1>2, <2>2 DEF Settling
    <3>2. e \notin left /\ Leavings(e) = {}
      BY <1>1, <1>2, <2>1, <3>1 DEF SettledOnce, Active
    <3>3. ASSUME NEW v \in Workers, NEW s, s = txn'[v], s # Idle, Settling(s, e) PROVE FALSE
      <4>1. s = txn[v] /\ v # w
        BY <1>4, <3>3
      <4>2. Asked(s) /\ Apart(s, t)
        BY <1>1, <1>2, <3>3, <4>1, RequestFacts, InvParts DEF LockInv, Sound
      <4>3. PICK p \in Requests : Answers(s, p)
        BY <4>2 DEF Asked
      <4>4. PICK q \in Requests : Answers(t, q)
        BY <1>3 DEF Asked
      <4>5. /\ p \in SettlementRequests(e) /\ p.key = s.key
            /\ q \in SettlementRequests(e) /\ q.key = t.key
        BY <3>1, <3>3, <4>3, <4>4 DEF Settling, Answers, SettlementRequests
      <4>6. PICK r \in Requests : r.type = "eosb_payment" /\ r.key \in RetriedKeys /\ r.employee = e
        BY <1>6 DEF PaidLeavers
      <4>7. p.key = q.key
        BY <4>5, <4>6 DEF SafeRetries
      <4>8. t.key \in RetriedKeys
        BY <4>2, <4>5, <4>7 DEF Apart
      <4>9. q.type = "settlement" /\ q.type \in Replayable
        BY <4>4, <4>5, <4>8 DEF SafeRetries, SettlementRequests
      <4>10. QED
        BY <4>9 DEF Replayable
    <3>4. Leavings(e)' = {n} /\ e \in left'
      BY <1>5, <2>2, <3>2
    <3>5. QED
      BY <3>3, <3>4 DEF SettledOnce, Active
  <2>3. CASE ~(D.type = "settlement" /\ D.employee = e)
    <3>1. Leavings(e)' = Leavings(e)
      BY <1>5, <2>3
    <3>2. e \in left' <=> e \in left
      BY <2>3
    <3>3. ASSUME NEW v \in Workers, NEW s, s = txn'[v], s # Idle, Settling(s, e) PROVE e \notin left
      BY <1>4, <2>1, <3>3 DEF SettledOnce, Active
    <3>4. QED
      BY <2>1, <3>1, <3>2, <3>3 DEF SettledOnce, Active
  <2>4. QED
    BY <2>2, <2>3
<1>7. QED
  BY <1>6 DEF SettleInv, PaidLeavers


(* The balances of the accounts.                                           *)
AdvancesBalance == Total(DOMAIN entries, LAMBDA e : entries[e].advances)
NetPayBalance == Total(DOMAIN entries, LAMBDA e : entries[e].netPay)
GosiBalance == Total(DOMAIN entries, LAMBDA e : entries[e].gosi)
EosbBalance == Total(DOMAIN entries, LAMBDA e : entries[e].eosb)

(* What must hold of them.                                                 *)
LEMMA AccountsParts ==
    AccountsMatchTheDocuments <=>
      /\ AdvancesBalance = Dues
      /\ -NetPayBalance = NetSum - Sum("salary_payment")
      /\ -GosiBalance = GosiOutstanding
      /\ -EosbBalance = Sum("settlement") - Sum("eosb_payment")
  BY DEF AccountsMatchTheDocuments, AdvancesBalance, NetPayBalance, GosiBalance, EosbBalance,
         Dues, NetSum, Sum

(* An entry is posted.                                                     *)
LEMMA BalanceStep ==
    ASSUME entries \in Seq(Entry), NEW E \in Entry, entries' = Append(entries, E)
    PROVE  /\ AdvancesBalance' = AdvancesBalance + E.advances /\ AdvancesBalance \in Int
           /\ NetPayBalance' = NetPayBalance + E.netPay /\ NetPayBalance \in Int
           /\ GosiBalance' = GosiBalance + E.gosi /\ GosiBalance \in Int
           /\ EosbBalance' = EosbBalance + E.eosb /\ EosbBalance \in Int
<1>1. PICK n : n = Len(entries) /\ n \in Nat
  OBVIOUS
<1>2. PICK H : H = entries'
  OBVIOUS
<1>3. /\ DOMAIN entries = 1 .. n /\ DOMAIN entries' = 1 .. n + 1
      /\ \A k \in 1 .. n : H[k] = entries[k] /\ entries[k] \in Entry
      /\ H[n + 1] = E /\ \A k \in 1 .. n + 1 : H[k] \in Entry
  BY <1>1, <1>2
<1>11. /\ \A k \in 1 .. n : /\ entries[k].advances \in Int /\ entries[k].netPay \in Int
                             /\ entries[k].gosi \in Int /\ entries[k].eosb \in Int
       /\ \A k \in 1 .. n + 1 : /\ H[k].advances \in Int /\ H[k].netPay \in Int
                                 /\ H[k].gosi \in Int /\ H[k].eosb \in Int
  <2>1. \A e \in Entry : e.advances \in Int /\ e.netPay \in Int /\ e.gosi \in Int /\ e.eosb \in Int
    BY DEF Entry
  <2>2. QED
    BY <1>3, <2>1
<1>4. /\ AdvancesBalance = SumFunction([k \in 1 .. n |-> entries[k].advances])
      /\ NetPayBalance = SumFunction([k \in 1 .. n |-> entries[k].netPay])
      /\ GosiBalance = SumFunction([k \in 1 .. n |-> entries[k].gosi])
      /\ EosbBalance = SumFunction([k \in 1 .. n |-> entries[k].eosb])
  BY <1>3 DEF AdvancesBalance, NetPayBalance, GosiBalance, EosbBalance, Total
<1>5. /\ AdvancesBalance' = SumFunction([k \in 1 .. n + 1 |-> H[k].advances])
      /\ NetPayBalance' = SumFunction([k \in 1 .. n + 1 |-> H[k].netPay])
      /\ GosiBalance' = SumFunction([k \in 1 .. n + 1 |-> H[k].gosi])
      /\ EosbBalance' = SumFunction([k \in 1 .. n + 1 |-> H[k].eosb])
  BY <1>2, <1>3 DEF AdvancesBalance, NetPayBalance, GosiBalance, EosbBalance, Total
<1>6. AdvancesBalance' = AdvancesBalance + E.advances /\ AdvancesBalance \in Int
  <2>1. PICK f, g : /\ f = [k \in 1 .. n |-> entries[k].advances]
                    /\ g = [k \in 1 .. n + 1 |-> H[k].advances]
    OBVIOUS
  <2>2. /\ f \in [1 .. n -> Int] /\ g \in [1 .. n + 1 -> Int]
        /\ \A k \in 1 .. n : g[k] = f[k]
        /\ g[n + 1] = E.advances
    <3>1. f \in [1 .. n -> Int] /\ g \in [1 .. n + 1 -> Int]
      BY <1>11, <2>1
    <3>2. \A k \in 1 .. n : g[k] = f[k]
      BY <1>1, <1>3, <2>1
    <3>3. g[n + 1] = E.advances
      BY <1>1, <1>3, <2>1
    <3>4. QED
      BY <3>1, <3>2, <3>3
  <2>3. SumFunction(g) = SumFunction(f) + g[n + 1] /\ SumFunction(f) \in Int
    BY <1>1, <2>2, SumAppended
  <2>4. QED
    BY <1>4, <1>5, <2>1, <2>2, <2>3
<1>7. NetPayBalance' = NetPayBalance + E.netPay /\ NetPayBalance \in Int
  <2>1. PICK f, g : /\ f = [k \in 1 .. n |-> entries[k].netPay]
                    /\ g = [k \in 1 .. n + 1 |-> H[k].netPay]
    OBVIOUS
  <2>2. /\ f \in [1 .. n -> Int] /\ g \in [1 .. n + 1 -> Int]
        /\ \A k \in 1 .. n : g[k] = f[k]
        /\ g[n + 1] = E.netPay
    <3>1. f \in [1 .. n -> Int] /\ g \in [1 .. n + 1 -> Int]
      BY <1>11, <2>1
    <3>2. \A k \in 1 .. n : g[k] = f[k]
      BY <1>1, <1>3, <2>1
    <3>3. g[n + 1] = E.netPay
      BY <1>1, <1>3, <2>1
    <3>4. QED
      BY <3>1, <3>2, <3>3
  <2>3. SumFunction(g) = SumFunction(f) + g[n + 1] /\ SumFunction(f) \in Int
    BY <1>1, <2>2, SumAppended
  <2>4. QED
    BY <1>4, <1>5, <2>1, <2>2, <2>3
<1>8. GosiBalance' = GosiBalance + E.gosi /\ GosiBalance \in Int
  <2>1. PICK f, g : /\ f = [k \in 1 .. n |-> entries[k].gosi]
                    /\ g = [k \in 1 .. n + 1 |-> H[k].gosi]
    OBVIOUS
  <2>2. /\ f \in [1 .. n -> Int] /\ g \in [1 .. n + 1 -> Int]
        /\ \A k \in 1 .. n : g[k] = f[k]
        /\ g[n + 1] = E.gosi
    <3>1. f \in [1 .. n -> Int] /\ g \in [1 .. n + 1 -> Int]
      BY <1>11, <2>1
    <3>2. \A k \in 1 .. n : g[k] = f[k]
      BY <1>1, <1>3, <2>1
    <3>3. g[n + 1] = E.gosi
      BY <1>1, <1>3, <2>1
    <3>4. QED
      BY <3>1, <3>2, <3>3
  <2>3. SumFunction(g) = SumFunction(f) + g[n + 1] /\ SumFunction(f) \in Int
    BY <1>1, <2>2, SumAppended
  <2>4. QED
    BY <1>4, <1>5, <2>1, <2>2, <2>3
<1>9. EosbBalance' = EosbBalance + E.eosb /\ EosbBalance \in Int
  <2>1. PICK f, g : /\ f = [k \in 1 .. n |-> entries[k].eosb]
                    /\ g = [k \in 1 .. n + 1 |-> H[k].eosb]
    OBVIOUS
  <2>2. /\ f \in [1 .. n -> Int] /\ g \in [1 .. n + 1 -> Int]
        /\ \A k \in 1 .. n : g[k] = f[k]
        /\ g[n + 1] = E.eosb
    <3>1. f \in [1 .. n -> Int] /\ g \in [1 .. n + 1 -> Int]
      BY <1>11, <2>1
    <3>2. \A k \in 1 .. n : g[k] = f[k]
      BY <1>1, <1>3, <2>1
    <3>3. g[n + 1] = E.eosb
      BY <1>1, <1>3, <2>1
    <3>4. QED
      BY <3>1, <3>2, <3>3
  <2>3. SumFunction(g) = SumFunction(f) + g[n + 1] /\ SumFunction(f) \in Int
    BY <1>1, <2>2, SumAppended
  <2>4. QED
    BY <1>4, <1>5, <2>1, <2>2, <2>3
<1>10. QED
  BY <1>6, <1>7, <1>8, <1>9

(* A document and its entry change the accounts alike.  A settlement
   without entitlement has no entry and changes nothing.                   *)
LEMMA AccountsStep ==
    ASSUME IInv, AccountsMatchTheDocuments, NEW w \in Workers, NEW D, NEW key,
           Stored(w, D, EntryOf(D, key)), txn[w].entry = 0
    PROVE  AccountsMatchTheDocuments'
<1>1. PICK t, E : t = txn[w] /\ E = EntryOf(D, key)
  OBVIOUS
<1>2. /\ t # Idle /\ t.pc = "store" /\ t.doc = D /\ Storable(D) /\ E \in Entry /\ t.entry = 0
      /\ entries' = IF t.posts THEN Append(entries, E) ELSE entries
  BY <1>1 DEF Stored
<1>3. Appended(D) /\ Checked(t)
  BY <1>1, <1>2, StoreStep, StoredDocument
<1>4. entries \in Seq(Entry)
  BY InvParts DEF TablesInv
<1>5. /\ Dues' = Dues + (IF D.type = "salary_advance" THEN D.amount ELSE 0) - RecoveredIn(D)
      /\ Dues \in Int /\ RecoveredIn(D) \in Int /\ D.amount \in Int
  BY <1>3, DuesStep
<1>6. /\ NetSum' = NetSum + (IF D.type = "payroll_run" THEN NetTotal(D) ELSE 0)
      /\ NetSum \in Int
      /\ D.type = "payroll_run" => NetTotal(D) \in Int
  BY <1>3, NetSumStep
<1>7. GosiOutstanding' = GosiOutstanding + GosiChange(D) /\ GosiOutstanding \in Int
  BY <1>3, GosiStep
<1>8. /\ Sum("salary_payment")' = Sum("salary_payment")
                                    + (IF D.type = "salary_payment" THEN D.amount ELSE 0)
      /\ Sum("settlement")' = Sum("settlement") + (IF D.type = "settlement" THEN D.amount ELSE 0)
      /\ Sum("eosb_payment")' = Sum("eosb_payment")
                                  + (IF D.type = "eosb_payment" THEN D.amount ELSE 0)
      /\ Sum("salary_payment") \in Int /\ Sum("settlement") \in Int /\ Sum("eosb_payment") \in Int
  BY <1>3, SumStep
<1>9. GosiChange(D) \in Int
  BY <1>5 DEF GosiChange
<1>10. /\ E.advances = (IF D.type = "salary_advance" THEN D.amount ELSE 0) - RecoveredIn(D)
       /\ E.netPay = NetPayIn(D) /\ E.gosi = -GosiChange(D) /\ E.eosb = GratuityIn(D)
  BY <1>1 DEF EntryOf
<1>11. /\ AdvancesBalance = Dues /\ -NetPayBalance = NetSum - Sum("salary_payment")
       /\ -GosiBalance = GosiOutstanding
       /\ -EosbBalance = Sum("settlement") - Sum("eosb_payment")
  BY AccountsParts
<1>12. SUFFICES /\ AdvancesBalance' = Dues'
                /\ -NetPayBalance' = NetSum' - Sum("salary_payment")'
                /\ -GosiBalance' = GosiOutstanding'
                /\ -EosbBalance' = Sum("settlement")' - Sum("eosb_payment")'
  <2>1. (AccountsMatchTheDocuments <=>
           /\ AdvancesBalance = Dues
           /\ -NetPayBalance = NetSum - Sum("salary_payment")
           /\ -GosiBalance = GosiOutstanding
           /\ -EosbBalance = Sum("settlement") - Sum("eosb_payment"))'
    BY AccountsParts, PTL
  <2>2. QED
    BY <1>12, <2>1
<1>13. CASE t.posts
  <2>1. /\ AdvancesBalance' = AdvancesBalance + E.advances /\ AdvancesBalance \in Int
        /\ NetPayBalance' = NetPayBalance + E.netPay /\ NetPayBalance \in Int
        /\ GosiBalance' = GosiBalance + E.gosi /\ GosiBalance \in Int
        /\ EosbBalance' = EosbBalance + E.eosb /\ EosbBalance \in Int
    BY <1>2, <1>4, <1>13, BalanceStep
  <2>2. AdvancesBalance' = Dues'
    BY <1>5, <1>10, <1>11, <2>1
  <2>3. -NetPayBalance' = NetSum' - Sum("salary_payment")'
    <3>1. CASE D.type = "salary_payment"
      BY <1>5, <1>6, <1>8, <1>10, <1>11, <2>1, <3>1 DEF NetPayIn
    <3>2. CASE D.type = "payroll_run"
      BY <1>5, <1>6, <1>8, <1>10, <1>11, <2>1, <3>2 DEF NetPayIn
    <3>3. CASE D.type \notin {"salary_payment", "payroll_run"}
      BY <1>5, <1>6, <1>8, <1>10, <1>11, <2>1, <3>3 DEF NetPayIn
    <3>4. QED
      BY <3>1, <3>2, <3>3
  <2>4. -GosiBalance' = GosiOutstanding'
    BY <1>7, <1>9, <1>10, <1>11, <2>1
  <2>5. -EosbBalance' = Sum("settlement")' - Sum("eosb_payment")'
    <3>1. CASE D.type = "settlement"
      BY <1>5, <1>8, <1>10, <1>11, <2>1, <3>1 DEF GratuityIn
    <3>2. CASE D.type = "eosb_payment"
      BY <1>5, <1>8, <1>10, <1>11, <2>1, <3>2 DEF GratuityIn
    <3>3. CASE D.type \notin {"settlement", "eosb_payment"}
      BY <1>5, <1>8, <1>10, <1>11, <2>1, <3>3 DEF GratuityIn
    <3>4. QED
      BY <3>1, <3>2, <3>3
  <2>6. QED
    BY <2>2, <2>3, <2>4, <2>5
<1>14. CASE ~t.posts
  <2>1. D.type = "settlement" /\ D.amount = 0
    BY <1>2, <1>3, <1>14
       DEF Checked, CheckedGrant, CheckedRepayment, CheckedRun, CheckedSettlement, CheckedStop,
           CheckedSalaries, CheckedGosi, CheckedEosb, Types, Payments
  <2>2. entries' = entries
    BY <1>2, <1>14
  <2>3. /\ AdvancesBalance' = AdvancesBalance /\ NetPayBalance' = NetPayBalance
        /\ GosiBalance' = GosiBalance /\ EosbBalance' = EosbBalance
    BY <2>2 DEF AdvancesBalance, NetPayBalance, GosiBalance, EosbBalance, Total
  <2>4. RecoveredIn(D) = 0 /\ GosiChange(D) = 0
    BY <2>1 DEF RecoveredIn, GosiChange
  <2>5. /\ Dues' = Dues /\ NetSum' = NetSum /\ GosiOutstanding' = GosiOutstanding
        /\ Sum("salary_payment")' = Sum("salary_payment")
        /\ Sum("settlement")' = Sum("settlement") /\ Sum("eosb_payment")' = Sum("eosb_payment")
    BY <1>5, <1>6, <1>7, <1>8, <2>1, <2>4
  <2>6. QED
    BY <1>11, <2>3, <2>5
<1>15. QED
  BY <1>13, <1>14

(* A step that stores no document changes none of it.                      *)
LEMMA AccountsKept ==
    ASSUME UNCHANGED <<documents, entries>>
    PROVE  /\ Replayed => Replayed'
           /\ AccountsMatchTheDocuments' = AccountsMatchTheDocuments
<1>1. ASSUME NEW r PROVE Done(r)' = Done(r) /\ Posted(r.key)' = Posted(r.key)
  <2>1. Done(r)' = Done(r)
    BY DEF Done, MonthRun, Runs, OfType, Wanted, Unpaid, PaymentsOf
  <2>2. Posted(r.key)' = Posted(r.key)
    BY DEF Posted
  <2>3. QED
    BY <2>1, <2>2
<1>2. Replayed => Replayed'
  BY <1>1 DEF Replayed
<1>3. AccountsMatchTheDocuments' = AccountsMatchTheDocuments
  BY DEF AccountsMatchTheDocuments, Total, OfType, Advances, Runs, Remaining, Recovered, PaymentsOf,
         Amount, GosiOutstanding, NetTotal
<1>4. QED
  BY <1>2, <1>3


(* The invariant with what is sent again and the accounts.                 *)
AccountsInv == IInv /\ Replayed /\ SettleInv /\ AccountsMatchTheDocuments

(* At first there are no documents and no entries.                       *)
LEMMA AccountsInit ==
    ASSUME Init
    PROVE  AccountsInv
<1>1. IInv
  BY InitInv
<1>2. documents = << >> /\ entries = << >> /\ \A w \in Workers : txn[w] = Idle
  BY DEF Init
<1>3. \A type : OfType(type) = {}
  BY <1>2 DEF OfType
<1>4. Replayed
  BY <1>2 DEF Replayed, Posted
<1>5. SettleInv
  BY <1>2, <1>3 DEF SettleInv, SettledOnce, Leavings, Active
<1>6. AccountsMatchTheDocuments
  <2>1. /\ AdvancesBalance = 0 /\ NetPayBalance = 0 /\ GosiBalance = 0 /\ EosbBalance = 0
    BY <1>2, SumEmpty DEF AdvancesBalance, NetPayBalance, GosiBalance, EosbBalance, Total
  <2>2. Dues = 0 /\ NetSum = 0 /\ \A type : Sum(type) = 0
    BY <1>3, SumEmpty DEF Dues, NetSum, Sum, Total, Advances, Runs
  <2>3. GosiOutstanding = Sum("payroll_run") - Sum("gosi_payment")
    BY DEF GosiOutstanding, Sum, Runs
  <2>4. QED
    BY <2>1, <2>2, <2>3, AccountsParts
<1>7. QED
  BY <1>1, <1>4, <1>5, <1>6 DEF AccountsInv

(* Every step keeps the accounts and the documents together.             *)
LEMMA AccountsNext ==
    ASSUME SafeRetries, AccountsInv, [Next]_vars
    PROVE  AccountsInv'
<1>1. IInv /\ Replayed /\ SettleInv /\ AccountsMatchTheDocuments /\ IInv'
  BY NextInv DEF AccountsInv
<1>2. ASSUME NEW w \in Workers,
             \/ StoreGrant(w) \/ StoreRepayment(w) \/ StoreRun(w) \/ StoreSettlement(w)
             \/ StorePayment(w)
      PROVE  AccountsInv'
  <2>1. PICK t : t = txn[w]
    OBVIOUS
  <2>2. PICK D : D = t.doc
    OBVIOUS
  <2>3. Stored(w, D, EntryOf(D, t.key))
    BY <1>1, <1>2, <2>1, <2>2, StoresEntry
  <2>4. t # Idle /\ t.pc = "store" /\ Storable(D)
    BY <2>1, <2>2, <2>3 DEF Stored
  <2>5. t.entry = 0
    BY <1>1, <2>1, <2>2, <2>4, EntryIsNew
  <2>6. AccountsMatchTheDocuments'
    BY <1>1, <2>1, <2>3, <2>5, AccountsStep
  <2>7. Replayed'
    BY <1>1, <2>3, ReplayStep
  <2>8. left' = IF D.type = "settlement" THEN left \cup {D.employee} ELSE left
    BY <1>2, <2>1, <2>2
       DEF StoreGrant, StoreRepayment, StoreRun, StoreSettlement, StorePayment, Store, Payments
  <2>9. SettleInv'
    BY <1>1, <2>3, <2>8, SettleStep
  <2>10. QED
    BY <1>1, <2>6, <2>7, <2>9 DEF AccountsInv
<1>3. ASSUME UNCHANGED <<documents, entries>>, SettleInv' PROVE AccountsInv'
  BY <1>1, <1>3, AccountsKept DEF AccountsInv
<1>4. ASSUME NEW w \in Workers,
             \/ ReadEmployee(w) \/ ReadOwed(w) \/ ReadRoster(w) \/ TakeLock(w) \/ ReadUnderLock(w)
             \/ PostEntry(w) \/ Fail(w)
      PROVE  AccountsInv'
  <2>1. UNCHANGED <<documents, entries>>
    BY <1>4 DEF ReadEmployee, ReadOwed, ReadRoster, TakeLock, ReadUnderLock, PostEntry, Proceed,
                Fail, tables
  <2>2. QED
    BY <1>1, <1>3, <1>4, <2>1, SettlersGoOn
<1>5. ASSUME NEW w \in Workers, NEW r \in Requests, Submit(w, r) PROVE AccountsInv'
  <2>1. UNCHANGED <<documents, entries, left>>
    BY <1>5 DEF Submit, tables
  <2>2. PICK pc, wanted, doc : /\ Begin(w, r, pc, wanted, doc)
                               /\ doc.type = "settlement" => pc = "employee"
    <3>1. CASE SubmitGrant(w, r)
      BY <3>1 DEF SubmitGrant
    <3>2. CASE SubmitRepayment(w, r)
      BY <3>2 DEF SubmitRepayment
    <3>3. CASE SubmitRun(w, r)
      BY <3>3 DEF SubmitRun
    <3>4. CASE SubmitLeaver(w, r)
      BY <3>4 DEF SubmitLeaver
    <3>5. CASE SubmitSalaryPayment(w, r)
      BY <3>5 DEF SubmitSalaryPayment
    <3>6. CASE SubmitGosiPayment(w, r)
      BY <3>6 DEF SubmitGosiPayment
    <3>7. CASE SubmitEosbPayment(w, r)
      BY <3>7 DEF SubmitEosbPayment
    <3>8. QED
      BY <1>5, <3>1, <3>2, <3>3, <3>4, <3>5, <3>6, <3>7 DEF Submit
  <2>3. PICK m : m = Begun(r, pc, wanted, doc)
    OBVIOUS
  <2>4. m.pc = pc /\ m.doc = doc /\ Set(w, m)
    BY <2>2, <2>3 DEF Begun, Begin
  <2>5. SettleInv'
    BY <1>1, <2>1, <2>2, <2>4, SettlerMoves DEF Settling
  <2>6. QED
    BY <1>3, <2>1, <2>5
<1>6. ASSUME NEW w \in Workers, StopEmployee(w) PROVE AccountsInv'
  <2>1. UNCHANGED <<documents, entries, left>> /\ Set(w, Idle)
    BY <1>6 DEF StopEmployee
  <2>2. QED
    BY <1>1, <1>3, <2>1, SettlerMoves
<1>7. ASSUME UNCHANGED <<documents, entries, left, txn>> PROVE AccountsInv'
  BY <1>1, <1>3, <1>7, SettlersMove
<1>8. ASSUME NEW e \in Employees, StartEmployee(e) PROVE AccountsInv'
  BY <1>7, <1>8 DEF StartEmployee
<1>9. CASE UNCHANGED vars
  BY <1>7, <1>9 DEF vars, tables
<1>10. ASSUME NEW w \in Workers, Advance(w) \/ Rollback(w) PROVE AccountsInv'
  BY <1>2, <1>4, <1>6, <1>10 DEF Advance, Refuse, Rollback
<1>11. QED
  BY <1>5, <1>8, <1>9, <1>10 DEF Next

(* The accounts match the documents at any time, whatever runs at the same
   time, when only what a unique index protects is sent again.             *)
THEOREM Accounts_match_the_documents ==
    ASSUME SafeRetries
    PROVE  Spec => []AccountsMatchTheDocuments
<1>1. Init => AccountsInv
  BY AccountsInit
<1>2. AccountsInv /\ [Next]_vars => AccountsInv'
  BY AccountsNext
<1>3. AccountsInv => AccountsMatchTheDocuments
  BY DEF AccountsInv
<1>4. QED
  BY <1>1, <1>2, <1>3, PTL DEF Spec

=============================================================================
