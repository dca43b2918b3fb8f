------------------------------- MODULE Ledger -------------------------------
(***************************************************************************)
(* The data of the general ledger: journal lines, journal entries, the     *)
(* document number series an entry is numbered in, and what a posting      *)
(* command is (packages/core/src/contracts.ts, schema.prisma).  One        *)
(* company; an entry's id is its position in the sequence `ledger`.        *)
(***************************************************************************)
EXTENDS Integers, Sequences, FiniteSets, SequencesExt

CONSTANTS
    Keys,               \* idempotency keys sent by clients
    NoKey,              \* stands for the random key of a reversal, never met again
    DocTypes,           \* source document types
    Accounts,           \* ledger accounts of the company
    PostableAccounts,   \* those that are active, postable leaves
    Periods,            \* fiscal periods
    Years,              \* fiscal years
    YearOf,             \* the fiscal year of a period
    Fine,               \* how many units of a submitted amount make one stored unit
    Commands            \* the posting commands that may be submitted

CommandLine == [account : Accounts, debit : Int, credit : Int]
Rate == [num : Nat, den : Nat \ {0}]
Command == [key : Keys, docType : DocTypes, period : Periods,
            lines : Seq(CommandLine), rate : Rate]

ASSUME LedgerAssumption ==
    /\ NoKey \notin Keys
    /\ PostableAccounts \subseteq Accounts
    /\ YearOf \in [Periods -> Years]
    /\ Fine \in Nat \ {0}
    /\ Commands \subseteq Command

Line == [account : Accounts, debit : Int, credit : Int,
         baseDebit : Int, baseCredit : Int]
Entry == [key : Keys \cup {NoKey}, docType : DocTypes, period : Periods,
          lines : Seq(Line), reversalOf : Nat, number : Nat]

(* A series of document numbers: (document type, fiscal year); a reversal
   draws from the series `<type>_REVERSAL`.                                *)
SeriesKeys == [docType : DocTypes, reversal : BOOLEAN, year : Years]
SeriesOf(e) == [docType |-> e.docType, reversal |-> e.reversalOf # 0,
                year |-> YearOf[e.period]]

SumOf(lines, side) == FoldLeft(LAMBDA t, l : t + l[side], 0, lines)

(* Storing into NUMERIC(19,4): n/d rounded half away from zero.            *)
ToNumeric(n, d) == IF n >= 0 THEN (2 * n + d) \div (2 * d)
                             ELSE -((d - 2 * n) \div (2 * d))

OneSided(debit, credit) == (debit > 0) # (credit > 0)

(* The CHECK constraints on a journal line.                                *)
LineAllowed(l) ==
    /\ l.debit >= 0 /\ l.credit >= 0 /\ OneSided(l.debit, l.credit)
    /\ l.baseDebit >= 0 /\ l.baseCredit >= 0 /\ OneSided(l.baseDebit, l.baseCredit)

(* What the deferred constraint trigger demands of an entry at COMMIT.     *)
Balanced(lines) ==
    /\ Len(lines) >= 2
    /\ SumOf(lines, "debit") = SumOf(lines, "credit")
    /\ SumOf(lines, "baseDebit") = SumOf(lines, "baseCredit")

(* validateShape: what the engine asks of a command before any query.      *)
ValidShape(lines) ==
    /\ Len(lines) >= 2
    /\ \A i \in DOMAIN lines : OneSided(lines[i].debit, lines[i].credit)
    /\ SumOf(lines, "debit") = SumOf(lines, "credit")

(* The stored line of a command's line: the base amounts come from the
   submitted amount times the rate, each column rounded on its own.        *)
StoredLine(l, rate) ==
    [account |-> l.account,
     debit |-> ToNumeric(l.debit, Fine), credit |-> ToNumeric(l.credit, Fine),
     baseDebit |-> ToNumeric(l.debit * rate.num, Fine * rate.den),
     baseCredit |-> ToNumeric(l.credit * rate.num, Fine * rate.den)]

(* Mutant of MirrorLine: the base amounts are copied, not flipped.         *)
FlipWithoutBase(l) == [l EXCEPT !.debit = l.credit, !.credit = l.debit]

MirrorLine(l) == [account |-> l.account, debit |-> l.credit, credit |-> l.debit,
                  baseDebit |-> l.baseCredit, baseCredit |-> l.baseDebit]
Mirror(lines) == [i \in DOMAIN lines |-> MirrorLine(lines[i])]
=============================================================================
