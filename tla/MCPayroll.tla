------------------------------ MODULE MCPayroll ------------------------------
(***************************************************************************)
(* Small instances of Payroll: two employees, one with social insurance of *)
(* her own and a gratuity, and requests that meet on one advance, one      *)
(* month, one payslip and one settlement.                                  *)
(***************************************************************************)
EXTENDS Payroll, TLC

CONSTANTS w1, w2, k1, k2, k3, k4, k5, k6, k7, k8, k9

MCGross == (1 :> 4) @@ (2 :> 2)
MCGosi == (1 :> [employee |-> 1, employer |-> 1]) @@ (2 :> [employee |-> 0, employer |-> 1])
MCGratuity == (1 :> 2) @@ (2 :> 0)

Grant(k, e, n, part) ==
    [type |-> "salary_advance", key |-> k, employee |-> e, amount |-> n, installment |-> part]
Repay(k, n) == [type |-> "advance_repayment", key |-> k, amount |-> n]
Run(k, m) == [type |-> "payroll_run", key |-> k, month |-> m]
For(type, k, e) == [type |-> type, key |-> k, employee |-> e]
PaySalaries(k, m, E) == [type |-> "salary_payment", key |-> k, month |-> m, employees |-> E]
PayGosi(k, n) == [type |-> "gosi_payment", key |-> k, amount |-> n]

\* Everything that can meet.
MixedRequests ==
    {Grant(k1, 1, 3, 2), Grant(k2, 2, 3, 3), Repay(k2, 2), Run(k3, 1), Run(k4, 2),
     For("settlement", k5, 1), For("settlement", k5, 2), For("stop", k5, 2),
     PaySalaries(k6, 1, {}), PaySalaries(k7, 1, {1}), PayGosi(k7, 1), PayGosi(k8, 2), For("eosb_payment", k9, 1)}

\* An advance is granted to an employee who leaves.
LeaverRequests == {Grant(k1, 1, 3, 2), For("settlement", k2, 1)}

TwoWorkers == {w1, w2}
SymmetricWorkers == Permutations(Workers)
=============================================================================
