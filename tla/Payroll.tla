------------------------------- MODULE Payroll -------------------------------
(***************************************************************************)
(* Salary advances and their repayments, payroll runs, end-of-service      *)
(* settlements and the payments of salaries, social insurance and          *)
(* gratuities (packages/core/src/hr).  Every document is one READ          *)
(* COMMITTED transaction and is only ever inserted: what an advance or a   *)
(* payslip still owes is computed from the documents.                      *)
(*                                                                         *)
(* Repayments and runs take an advisory lock of every employee concerned,  *)
(* payments one of the run, the settlement or the insurance; grants and    *)
(* settlements take none.  A run reads its roster before its transaction.  *)
(* The statements of postEntry are modelled in Posting; here the engine is *)
(* one step.                                                               *)
(***************************************************************************)
EXTENDS Integers, Sequences, FiniteSets, SequencesExt

CONSTANTS
    Workers,        \* concurrent requests
    Employees,      \* numbered in the order of their ids
    Months,         \* the months a run can be made for
    Gross,          \* an employee's salary and allowances
    Gosi,           \* the employee's and the employer's share of social insurance
    Gratuity,       \* what a leaver is entitled to
    Keys,           \* idempotency keys
    RetriedKeys,    \* those a client may send again after they were posted
    Requests,       \* documents that may be submitted
    Idle,           \* the transaction of a worker without one
    MaxPosted       \* bound on posted documents

Payments == {"salary_payment", "gosi_payment", "eosb_payment"}
Types == {"salary_advance", "advance_repayment", "payroll_run", "settlement"} \cup Payments

\* What the requests of each type hold besides type and key.  The advance that is
\* repaid, the run or the settlement that is paid are chosen on submission.
SoundRequest(r) ==
    /\ r.type \in Types \cup {"stop"}
    /\ r.type \in {"salary_advance", "settlement", "stop", "eosb_payment"} => r.employee \in Employees
    /\ r.type \in {"salary_advance", "advance_repayment", "gosi_payment"} => r.amount \in Nat \ {0}
    /\ r.type = "salary_advance" => r.installment \in Nat \ {0}
    /\ r.type \in {"payroll_run", "salary_payment"} => r.month \in Months
    /\ r.type = "salary_payment" => r.employees \subseteq Employees

ASSUME PayrollAssumption ==
    /\ Employees \subseteq Nat /\ IsFiniteSet(Employees)
    /\ RetriedKeys \subseteq Keys /\ MaxPosted \in Nat
    /\ Gross \in [Employees -> Nat \ {0}] /\ Gratuity \in [Employees -> Nat]
    /\ Gosi \in [Employees -> [employee : Nat, employer : Nat \ {0}]]
    /\ \A r \in Requests : r.key \in Keys /\ SoundRequest(r)

VARIABLES
    documents,      \* posted documents, in the order of their commits
    entries,        \* journal entries: key and change of the accounts
    active,         \* employees with is_active
    left,           \* employees with a termination date
    txn             \* the open transactions

tables == <<documents, entries, active, left>>
vars == <<tables, txn>>

-----------------------------------------------------------------------------
(* What is owed, computed from the documents *)

Total(S, amount(_)) == SumFunction([x \in S |-> amount(x)])
Amount(d) == documents[d].amount
OfType(type) == {d \in DOMAIN documents : documents[d].type = type}
Advances == OfType("salary_advance")
Runs == OfType("payroll_run")
AdvancesOf(e) == {a \in Advances : documents[a].employee = e}
PaymentsOf(type, d) == {p \in OfType(type) : documents[p].of = d}

(* advanceBalance: what payroll deducted and the employee paid back.       *)
Recovered(a) ==
    Total(PaymentsOf("advance_repayment", a), Amount)
      + Total({r \in Runs : a \in DOMAIN documents[r].takes}, LAMBDA r : documents[r].takes[a])

Remaining(a) == Amount(a) - Recovered(a)

(* outstandingAdvanceTotal                                                 *)
Owed(e) == Total({a \in AdvancesOf(e) : Remaining(a) > 0}, Remaining)

(* The lines of a run that are not paid yet.                               *)
Unpaid(r) ==
    LET net == documents[r].net
        paid == UNION {documents[p].employees : p \in PaymentsOf("salary_payment", r)}
    IN {e \in DOMAIN net : net[e] > 0} \ paid

GosiOutstanding == Total(Runs, Amount) - Total(OfType("gosi_payment"), Amount)

-----------------------------------------------------------------------------
(* Transactions and their locks *)

Active == {w \in Workers : txn[w] # Idle}
At(w, step) == txn[w] # Idle /\ txn[w].pc = step
Set(w, t) == txn' = [txn EXCEPT ![w] = t]
Proceed(w, next) == Set(w, [txn[w] EXCEPT !.pc = next]) /\ UNCHANGED tables
Fail(w) == Set(w, Idle) /\ UNCHANGED tables

(* The transactions that hold an advisory lock, a type's series or the
   unique key of an entry.  All payments are numbered in one series.       *)
Locked(l) == {w \in Active : l \in txn[w].held}
Series(type) == IF type \in Payments THEN "hr_payment" ELSE type
Storing == {w \in Active : At(w, "store") /\ txn[w].posts /\ txn[w].entry = 0}
Numbering(type) == {w \in Storing : Series(txn[w].doc.type) = Series(type)}
Posting(k) == {w \in Storing : txn[w].key = k}
Posted(k) == {e \in DOMAIN entries : entries[e].key = k}

MaySend(k) == \/ k \in RetriedKeys
              \/ Posted(k) = {} /\ \A v \in Active : txn[v].key # k
Room == Len(documents) + Cardinality(Active) < MaxPosted

Init ==
    /\ documents = << >>
    /\ entries = << >>
    /\ active = Employees
    /\ left = {}
    /\ txn = [w \in Workers |-> Idle]

\* `wanted` are the advisory locks to take.
Begin(w, r, pc, wanted, doc) ==
    Set(w, [pc |-> pc, key |-> r.key, doc |-> doc, wanted |-> wanted, held |-> {},
            posts |-> TRUE,     \* whether it posts a journal entry
            entry |-> 0])       \* the entry found by the replay check

SubmitGrant(w, r) ==
    /\ r.type = "salary_advance"
    /\ Begin(w, r, "employee", {}, [type |-> r.type, employee |-> r.employee,
                                    amount |-> r.amount, installment |-> r.installment])
SubmitRepayment(w, r) ==
    /\ r.type = "advance_repayment"
    /\ \E a \in Advances :
         Begin(w, r, "lock", {<<"advances", documents[a].employee>>},
               [type |-> r.type, of |-> a, amount |-> r.amount])
SubmitRun(w, r) ==
    r.type = "payroll_run" /\ Begin(w, r, "roster", {}, [type |-> r.type, month |-> r.month])
SubmitLeaver(w, r) ==
    /\ r.type \in {"settlement", "stop"}
    /\ Begin(w, r, "employee", {}, [type |-> r.type, employee |-> r.employee,
                                    amount |-> Gratuity[r.employee]])
SubmitSalaryPayment(w, r) ==
    /\ r.type = "salary_payment"
    /\ \E run \in {d \in Runs : documents[d].month = r.month} :
         Begin(w, r, "lock", {<<"run", run>>},
               [type |-> r.type, of |-> run, employees |-> r.employees, amount |-> 0])
SubmitGosiPayment(w, r) ==
    /\ r.type = "gosi_payment"
    /\ Begin(w, r, "lock", {<<"gosi", 0>>}, [type |-> r.type, amount |-> r.amount])
SubmitEosbPayment(w, r) ==
    /\ r.type = "eosb_payment"
    /\ \E s \in {d \in OfType("settlement") : documents[d].employee = r.employee} :
         Begin(w, r, "lock", {<<"settlement", s>>},
               [type |-> r.type, of |-> s, amount |-> Amount(s)])

Submit(w, r) ==
    /\ txn[w] = Idle /\ Room /\ MaySend(r.key)
    /\ \/ SubmitGrant(w, r) \/ SubmitRepayment(w, r) \/ SubmitRun(w, r) \/ SubmitLeaver(w, r)
       \/ SubmitSalaryPayment(w, r) \/ SubmitGosiPayment(w, r) \/ SubmitEosbPayment(w, r)
    /\ UNCHANGED tables

-----------------------------------------------------------------------------
(* Reading the employee, the roster, and what is owed *)

(* The employee's row is read without a lock.  Only an employee at work is
   asked for what is owed when stopped by hand.                            *)
ReadEmployee(w) ==
    LET doc == txn[w].doc
        atWork == doc.employee \in active
    IN
    /\ At(w, "employee")
    /\ \/ doc.type = "salary_advance" /\ atWork /\ Proceed(w, "post")
       \/ doc.type = "settlement" /\ atWork /\ doc.employee \notin left /\ Proceed(w, "owed")
       \/ doc.type = "stop" /\ Proceed(w, IF atWork THEN "owed" ELSE "stop")
       \/ /\ doc.type # "stop"
          /\ ~atWork \/ (doc.type = "settlement" /\ doc.employee \in left)
          /\ Fail(w)

(* A leaver must not owe on an advance.  A settlement without entitlement
   posts nothing.                                                          *)
ReadOwed(w) ==
    LET t == txn[w] IN
    /\ At(w, "owed")
    /\ \/ /\ Owed(t.doc.employee) = 0
          /\ \/ t.doc.type = "stop" /\ Proceed(w, "stop")
             \/ t.doc.type = "settlement" /\ t.doc.amount > 0 /\ Proceed(w, "post")
             \/ /\ t.doc.type = "settlement" /\ t.doc.amount = 0
                /\ Set(w, [t EXCEPT !.pc = "store", !.posts = FALSE])
                /\ UNCHANGED tables
       \/ Owed(t.doc.employee) > 0 /\ Fail(w)

MonthRun(month) == \E r \in Runs : documents[r].month = month

(* Before its transaction a run looks for one of the same month and reads
   who works here.                                                         *)
ReadRoster(w) ==
    LET t == txn[w] IN
    /\ At(w, "roster")
    /\ \/ /\ ~MonthRun(t.doc.month) /\ active # {}
          /\ Set(w, [t EXCEPT !.pc = "lock", !.wanted = {<<"advances", e>> : e \in active}])
          /\ UNCHANGED tables
       \/ (MonthRun(t.doc.month) \/ active = {}) /\ Fail(w)

(* Mutant of NextLocks: the locks are taken in any order.                  *)
AnyLocks(wanted) == wanted

(* lockAdvancesOf takes the locks in the order of the ids.                 *)
NextLocks(wanted) == {l \in wanted : \A k \in wanted : l[2] <= k[2]}

(* Mutant of Blocking: nobody waits for an advisory lock.                  *)
NotBlocking(l) == {}

(* Who makes a transaction wait that asks for lock l.                      *)
Blocking(l) == Locked(l)

TakeLock(w) ==
    LET t == txn[w] IN
    /\ At(w, "lock")
    /\ \E l \in NextLocks(t.wanted) :
         /\ Blocking(l) = {}
         /\ Set(w, [t EXCEPT !.held = t.held \cup {l}, !.wanted = t.wanted \ {l},
                             !.pc = IF t.wanted = {l} THEN "read" ELSE "lock"])
    /\ UNCHANGED tables

Min2(m, n) == IF m <= n THEN m ELSE n

(* The run for a roster: every open advance gives at most an installment;
   what is left of the gross salary is the net pay; `amount` is the social
   insurance.                                                              *)
RunFor(month, roster) ==
    LET open == {a \in Advances : documents[a].employee \in roster /\ Remaining(a) > 0}
        takes == [a \in open |-> Min2(Remaining(a), documents[a].installment)]
        taken(e) == Total({a \in open : documents[a].employee = e}, LAMBDA a : takes[a])
    IN [type |-> "payroll_run", month |-> month, takes |-> takes,
        net |-> [e \in roster |-> Gross[e] - Gosi[e].employee - taken(e)],
        amount |-> Total(roster, LAMBDA e : Gosi[e].employee + Gosi[e].employer)]

Roster(t) == {l[2] : l \in t.held}

(* The lines of a run a payment is for: some employees', or all.           *)
LinesToPay(doc) ==
    IF doc.employees = {} THEN Unpaid(doc.of) ELSE Unpaid(doc.of) \cap doc.employees

\* A document that may be posted, given what is read under the locks.
Allowed(doc) ==
    /\ doc.type = "advance_repayment" => doc.amount <= Remaining(doc.of)
    /\ doc.type = "salary_payment" => LinesToPay(doc) # {}
    /\ doc.type = "gosi_payment" => doc.amount <= GosiOutstanding
    /\ doc.type = "eosb_payment" => PaymentsOf("eosb_payment", doc.of) = {} /\ doc.amount > 0

\* The document completed with what was read.
Completed(t) ==
    LET doc == t.doc IN
    IF doc.type = "payroll_run" THEN RunFor(doc.month, Roster(t))
    ELSE IF doc.type = "salary_payment"
    THEN [doc EXCEPT !.employees = LinesToPay(doc),
                     !.amount = Total(LinesToPay(doc), LAMBDA e : documents[doc.of].net[e])]
    ELSE doc

(* What is owed is read under the advisory locks.                          *)
ReadUnderLock(w) ==
    LET t == txn[w] IN
    /\ At(w, "read")
    /\ \/ /\ Allowed(t.doc)
          /\ Set(w, [t EXCEPT !.pc = "post", !.doc = Completed(t)])
          /\ UNCHANGED tables
       \/ ~Allowed(t.doc) /\ Fail(w)

-----------------------------------------------------------------------------
(* postEntry, the document and COMMIT *)

NetTotal(doc) == Total(DOMAIN doc.net, LAMBDA e : doc.net[e])
TakesTotal(doc) == Total(DOMAIN doc.takes, LAMBDA a : doc.takes[a])

(* The engine refuses a line of nothing: someone must get net pay.         *)
Postable(doc) == doc.type = "payroll_run" => NetTotal(doc) > 0

PostEntry(w) ==
    LET t == txn[w] IN
    /\ At(w, "post")
    /\ Numbering(t.doc.type) = {} /\ Posting(t.key) = {}
    /\ \/ /\ Postable(t.doc)
          /\ \/ Posted(t.key) = {} /\ Set(w, [t EXCEPT !.pc = "store"])
             \/ \E e \in Posted(t.key) : Set(w, [t EXCEPT !.pc = "store", !.entry = e])
          /\ UNCHANGED tables
       \/ ~Postable(t.doc) /\ Fail(w)

(* Debits count up, credits down: a run credits what it recovers, the net
   pay and the social insurance it owes.                                   *)
NewEntry(t) == [key |-> t.key, advances |-> 0, netPay |-> 0, gosi |-> 0, eosb |-> 0]
GrantEntry(t) == [NewEntry(t) EXCEPT !.advances = t.doc.amount]
RepaymentEntry(t) == [NewEntry(t) EXCEPT !.advances = -t.doc.amount]
RunEntry(t) == [NewEntry(t) EXCEPT !.advances = -TakesTotal(t.doc), !.netPay = -NetTotal(t.doc),
                                   !.gosi = -t.doc.amount]
SettlementEntry(t) == [NewEntry(t) EXCEPT !.eosb = -t.doc.amount]
PaymentEntry(t) ==
    LET paid(type) == IF t.doc.type = type THEN t.doc.amount ELSE 0
    IN [NewEntry(t) EXCEPT !.netPay = paid("salary_payment"), !.gosi = paid("gosi_payment"),
                           !.eosb = paid("eosb_payment")]

(* Mutant of Storable: (company, year, month) is not a unique index.       *)
AnyMonth(doc) == doc.type = "payroll_run" => \A e \in DOMAIN doc.net : doc.net[e] >= 0

(* Mutant of Storable: net pay is not checked.                             *)
AnyNet(doc) == doc.type = "payroll_run" => ~MonthRun(doc.month)

(* The unique indexes on the month of a run, the line and the settlement of
   a payment, and the check that nobody's net pay is negative.             *)
Storable(doc) ==
    /\ doc.type = "payroll_run" =>
         ~MonthRun(doc.month) /\ \A e \in DOMAIN doc.net : doc.net[e] >= 0
    /\ doc.type = "salary_payment" => doc.employees \subseteq Unpaid(doc.of)
    /\ doc.type = "eosb_payment" => PaymentsOf("eosb_payment", doc.of) = {}

(* The document is stored, with its entry when it posts one.               *)
Store(w, types, entry(_)) ==
    LET t == txn[w] IN
    /\ At(w, "store") /\ t.doc.type \in types /\ Storable(t.doc)
    /\ entries' = IF t.posts /\ t.entry = 0 THEN Append(entries, entry(t)) ELSE entries
    /\ documents' = Append(documents, t.doc)
    /\ Set(w, Idle)

StoreGrant(w) == Store(w, {"salary_advance"}, GrantEntry) /\ UNCHANGED <<active, left>>
StoreRepayment(w) == Store(w, {"advance_repayment"}, RepaymentEntry) /\ UNCHANGED <<active, left>>
StoreRun(w) == Store(w, {"payroll_run"}, RunEntry) /\ UNCHANGED <<active, left>>
StorePayment(w) == Store(w, Payments, PaymentEntry) /\ UNCHANGED <<active, left>>

(* A settlement also ends the employment.                                  *)
StoreSettlement(w) ==
    /\ Store(w, {"settlement"}, SettlementEntry)
    /\ active' = active \ {txn[w].doc.employee}
    /\ left' = left \cup {txn[w].doc.employee}

Refuse(w) == At(w, "store") /\ ~Storable(txn[w].doc) /\ Fail(w)

(* employee.update: is_active is written after the check, in a transaction
   of its own.                                                             *)
StopEmployee(w) ==
    /\ At(w, "stop")
    /\ active' = active \ {txn[w].doc.employee}
    /\ Set(w, Idle)
    /\ UNCHANGED <<documents, entries, left>>

StartEmployee(e) ==
    /\ e \notin active
    /\ active' = active \cup {e}
    /\ UNCHANGED <<documents, entries, left, txn>>

(* An error in another step, a timeout or a crash before COMMIT.           *)
Rollback(w) == txn[w] # Idle /\ Fail(w)

Advance(w) ==
    \/ ReadEmployee(w) \/ ReadOwed(w) \/ ReadRoster(w)
    \/ TakeLock(w) \/ ReadUnderLock(w)
    \/ PostEntry(w) \/ StopEmployee(w)
    \/ StoreGrant(w) \/ StoreRepayment(w) \/ StoreRun(w) \/ StoreSettlement(w) \/ StorePayment(w)
    \/ Refuse(w)

Next ==
    \/ \E w \in Workers :
         \/ \E r \in Requests : Submit(w, r)
         \/ Advance(w) \/ Rollback(w)
    \/ \E e \in Employees : StartEmployee(e)

Spec == Init /\ [][Next]_vars

-----------------------------------------------------------------------------
(* What payroll must guarantee *)

(* Every variable holds a value of its kind; nobody's net pay is negative. *)
TypeOK ==
    /\ \A d \in DOMAIN documents :
         /\ documents[d].type \in Types /\ documents[d].amount \in Nat
         /\ documents[d].type = "payroll_run" =>
              /\ DOMAIN documents[d].net \subseteq Employees
              /\ \A e \in DOMAIN documents[d].net : documents[d].net[e] >= 0
              /\ \A a \in DOMAIN documents[d].takes : a < d /\ documents[d].takes[a] > 0
    /\ active \subseteq Employees /\ left \subseteq Employees
    /\ \A w \in Active : txn[w].held \cap txn[w].wanted = {}

(* An advance is recovered once: repayments and runs that meet never take
   more than what it still owes, and what they take is never changed
   ("two repayments, or a repayment and a payroll run, cannot both take the
   same remaining amount", salary-advance.service.ts).                     *)
AdvancesAreOpenItems ==
    INSTANCE OpenItems WITH worth <- [a \in Advances |-> Amount(a)],
                            settled <- [a \in Advances |-> Recovered(a)]
RecoversAdvancesOnce == AdvancesAreOpenItems!Spec

(* The accounts tell what the documents say: what employees still owe on
   advances, the net pay, the insurance and the gratuities not paid yet,
   although runs and payments are sent again (hr-payment.service.ts).      *)
AccountsMatchTheDocuments ==
    LET balance(amount(_)) == Total(DOMAIN entries, amount)
        paid(type) == Total(OfType(type), Amount)
    IN /\ balance(LAMBDA e : entries[e].advances) = Total(Advances, Remaining)
       /\ -balance(LAMBDA e : entries[e].netPay)
            = Total(Runs, LAMBDA r : NetTotal(documents[r])) - paid("salary_payment")
       /\ -balance(LAMBDA e : entries[e].gosi) = GosiOutstanding
       /\ -balance(LAMBDA e : entries[e].eosb) = paid("settlement") - paid("eosb_payment")

(* Nobody is paid twice: one payslip a month, one payment of a payslip and
   of a gratuity, and no more social insurance than is owed, whoever pays at
   the same time (create, paySalaries, payGosi, payEndOfService).          *)
NobodyIsPaidTwice ==
    /\ \A r, s \in Runs : documents[r].month = documents[s].month => r = s
    /\ \A r \in Runs : \A p, q \in PaymentsOf("salary_payment", r) :
         p # q => documents[p].employees \cap documents[q].employees = {}
    /\ \A s \in OfType("settlement") : Cardinality(PaymentsOf("eosb_payment", s)) <= 1
    /\ GosiOutstanding >= 0

(* Who waits for whom, for an advisory lock or in the engine.              *)
WaitsFor(w, v) ==
    /\ v # w
    /\ \/ At(w, "lock") /\ \E l \in NextLocks(txn[w].wanted) : v \in Blocking(l)
       \/ At(w, "post") /\ v \in Numbering(txn[w].doc.type) \cup Posting(txn[w].key)

(* "Locks are taken in a fixed order so two payroll runs or a run and a
   repayment cannot deadlock" (lockAdvancesOf): no circle of transactions
   waits, whatever the rosters.                                            *)
NobodyWaitsInACircle ==
    ~\E S \in SUBSET Active : S # {} /\ \A w \in S : \E v \in S : WaitsFor(w, v)

-----------------------------------------------------------------------------
(* What a comment says and the code does not do *)

(* "An employee who still owes a salary advance cannot be settled: once the
   employee is inactive, payroll no longer recovers the advance and the
   receivable would stay on the books for good" (settle).                  *)
LeaversOweNothing == \A e \in left \ active : Owed(e) = 0
=============================================================================
