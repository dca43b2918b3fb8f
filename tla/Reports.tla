------------------------------- MODULE Reports -------------------------------
(***************************************************************************)
(* The financial statements (packages/core/src/accounting): the trial      *)
(* balance of a period, the balance sheet, the cash-flow statement and the *)
(* statement of one account.  Each is a sum over the lines of the posted   *)
(* entries, placed by the entry's date.  An entry is one debit and one     *)
(* credit of one amount in the base currency; codes, names and languages   *)
(* are left out.                                                           *)
(***************************************************************************)
EXTENDS Integers, Sequences, FiniteSets, Functions

CONSTANTS
    Accounts,       \* every account there may be
    TypeOf,         \* ASSET, LIABILITY, EQUITY, REVENUE, EXPENSE
    SectionOf,      \* where the account's code puts it in the cash-flow statement
    Dates

AccountTypes == {"ASSET", "LIABILITY", "EQUITY", "REVENUE", "EXPENSE"}

\* The code's first digits: 11101 and 11102, other 11; 12 to 15; 21; 22; 3.
SectionsOf(type) ==
    CASE type = "ASSET" -> {"cash", "current_assets", "fixed_assets"}
      [] type = "LIABILITY" -> {"current_liabilities", "long_term_liabilities"}
      [] type = "EQUITY" -> {"equity"}
      [] OTHER -> {"none"}

ASSUME ReportsAssumption ==
    /\ IsFiniteSet(Accounts) /\ Dates \subseteq Nat
    /\ TypeOf \in [Accounts -> AccountTypes]
    /\ \A a \in Accounts : SectionOf[a] \in SectionsOf(TypeOf[a])

VARIABLE entries    \* posted entries: debited and credited account, date, amount

Total(S, amount(_)) == SumFunction([x \in S |-> amount(x)])
Amount(e) == entries[e].amount

Debits(a, D) == Total({e \in DOMAIN entries : entries[e].debit = a /\ entries[e].date \in D}, Amount)
Credits(a, D) == Total({e \in DOMAIN entries : entries[e].credit = a /\ entries[e].date \in D}, Amount)
Net(a, D) == Debits(a, D) - Credits(a, D)

Before(from) == {d \in Dates : d < from}
UpTo(to) == {d \in Dates : d <= to}

\* Mutant of Within: the last day is left out.
WithinButLast(from, to) == {d \in Dates : from <= d /\ d < to}

Within(from, to) == {d \in Dates : from <= d /\ d <= to}

OfType(types) == {a \in Accounts : TypeOf[a] \in types}
InSection(s) == {a \in Accounts : SectionOf[a] = s}

-----------------------------------------------------------------------------
(* The trial balance: what is carried in, the movement and the closing
   balance of every account, each on its side.                             *)

OnDebitSide(n) == IF n >= 0 THEN n ELSE 0
Closing(a, from, to) == Net(a, Before(from)) + Net(a, Within(from, to))

TrialBalanceBalances(from, to) ==
    LET sides(net(_)) == Total(Accounts, LAMBDA a : OnDebitSide(net(a)))
                           = Total(Accounts, LAMBDA a : OnDebitSide(-net(a)))
    IN /\ sides(LAMBDA a : Net(a, Before(from)))
       /\ Total(Accounts, LAMBDA a : Debits(a, Within(from, to)))
            = Total(Accounts, LAMBDA a : Credits(a, Within(from, to)))
       /\ sides(LAMBDA a : Closing(a, from, to))

(* Net income: revenue less expense of some dates.                         *)
NetIncome(D) == Total(OfType({"REVENUE"}), LAMBDA a : -Net(a, D))
                  - Total(OfType({"EXPENSE"}), LAMBDA a : Net(a, D))

(* The balance sheet: everything to date, with the income so far as equity. *)
BalanceSheetBalances ==
    Total(OfType({"ASSET"}), LAMBDA a : Net(a, Dates))
      = Total(OfType({"LIABILITY", "EQUITY"}), LAMBDA a : -Net(a, Dates)) + NetIncome(Dates)

(* The cash-flow statement: net income, and the changes of everything but
   cash between the day before and the last day.                           *)
Change(section, from, to) ==
    Total(InSection(section), LAMBDA a : Net(a, UpTo(to)) - Net(a, Before(from)))

CashFlow(from, to) ==
    NetIncome(Within(from, to))
      - Change("current_assets", from, to) - Change("current_liabilities", from, to)
      - Change("fixed_assets", from, to)
      - Change("long_term_liabilities", from, to) - Change("equity", from, to)

CashFlowBalances(from, to) == CashFlow(from, to) = Change("cash", from, to)

(* The statement of one account: the lines in the order of their dates, and
   a running balance that starts from what is carried in.                  *)
Earlier(d, e) == \/ entries[d].date < entries[e].date
                 \/ entries[d].date = entries[e].date /\ d < e
InOrder(S) ==
    CHOOSE s \in [1 .. Cardinality(S) -> S] :
      \A i, j \in 1 .. Cardinality(S) : i < j => Earlier(s[i], s[j])

LinesOf(a, D) ==
    {e \in DOMAIN entries : a \in {entries[e].debit, entries[e].credit} /\ entries[e].date \in D}
Signed(a, e) == (IF entries[e].debit = a THEN Amount(e) ELSE 0)
                  - (IF entries[e].credit = a THEN Amount(e) ELSE 0)

RunningBalance(a, from, to) ==
    LET shown == InOrder(LinesOf(a, Within(from, to)))
        running[n \in 0 .. Cardinality(LinesOf(a, Within(from, to)))] ==
          IF n = 0 THEN Net(a, Before(from)) ELSE running[n - 1] + Signed(a, shown[n])
    IN running[Cardinality(LinesOf(a, Within(from, to)))]
=============================================================================
