----------------------------- MODULE MCPosting -----------------------------
(***************************************************************************)
(* Small instances of Posting: two document types, two periods of two      *)
(* fiscal years, and commands that post, that reuse a key for another      *)
(* document, that name an account nobody may post to, that leave a         *)
(* residual when converted, and that are finer than what is stored.        *)
(***************************************************************************)
EXTENDS Posting, TLC

CONSTANTS k1, k2, k3, w1, w2, a1, a2, header

MCYearOf == [p \in Periods |-> IF p = "jan" THEN "2026" ELSE "2027"]

Debit(a, n) == [account |-> a, debit |-> n, credit |-> 0]
Credit(a, n) == [account |-> a, debit |-> 0, credit |-> n]
AtPar == [num |-> 1, den |-> 1]
Third == [num |-> 1, den |-> 3]

Cmd(k, t, p, lines, rate) ==
    [key |-> k, docType |-> t, period |-> p, lines |-> lines, rate |-> rate]

Plain(k, t, p) == Cmd(k, t, p, <<Debit(a1, 4), Credit(a2, 4)>>, AtPar)
Residual(k, t, p) == Cmd(k, t, p, <<Debit(a1, 8), Credit(a2, 4), Credit(a2, 4)>>, Third)
Exact(k, t, p) == Cmd(k, t, p, <<Debit(a1, 12), Credit(a2, 6), Credit(a2, 6)>>, Third)
TooFine(k, t, p) == Cmd(k, t, p, <<Debit(a1, 2), Credit(a2, 1), Credit(a2, 1)>>, AtPar)
OnHeader(k, t, p) == Cmd(k, t, p, <<Debit(header, 4), Credit(a2, 4)>>, AtPar)
Unbalanced(k, t, p) == Cmd(k, t, p, <<Debit(a1, 4), Credit(a2, 2)>>, AtPar)

\* Two requests with every kind of command.
MixedCommands == {Plain(k1, "JV", "jan"), Residual(k2, "JV", "jan"), TooFine(k2, "JV", "jan"),
                  Exact(k2, "JV", "next"), OnHeader(k2, "JV", "jan"),
                  Unbalanced(k2, "JV", "jan"), Plain(k1, "INV", "jan")}

\* Requests that compete for one series and for one key.
RaceCommands == {Plain(k1, "JV", "jan"), Plain(k2, "JV", "jan"), Plain(k2, "INV", "jan")}

Workers2 == {w1, w2}
SymmetricWorkers == Permutations(Workers)
=============================================================================
