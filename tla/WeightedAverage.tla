--------------------------- MODULE WeightedAverage ---------------------------
(***************************************************************************)
(* The weighted-average arithmetic of packages/core/src/inventory/         *)
(* weighted-average.util.ts.  A stock state is a quantity and a value.     *)
(* Quantities, prices and amounts are decimals of four places and counted  *)
(* in their smallest unit; one unit of goods is Unit of these, so that a   *)
(* quantity times a price has to be divided by Unit, and a quotient is     *)
(* rounded half away from zero, as toDecimalPlaces does.                   *)
(***************************************************************************)
EXTENDS Integers

CONSTANT Unit       \* 10^4

ASSUME UnitAssumption == Unit \in Nat \ {0}

State == [quantity : Nat, value : Nat]
Nothing == [quantity |-> 0, value |-> 0]

Lesser(a, b) == IF a <= b THEN a ELSE b
AtLeastZero(n) == IF n >= 0 THEN n ELSE 0
RoundedQuotient(n, d) == (2 * n + d) \div (2 * d)

(* What a line of a document is worth: each line is rounded on its own.    *)
LineValue(quantity, price) ==
    IF quantity >= 0 THEN RoundedQuotient(quantity * price, Unit)
    ELSE -RoundedQuotient((-quantity) * price, Unit)

AverageUnitCost(s) == IF s.quantity = 0 THEN 0 ELSE RoundedQuotient(s.value * Unit, s.quantity)

(* applyReceipt *)
Received(s, quantity, unitCost) ==
    [quantity |-> s.quantity + quantity, value |-> s.value + LineValue(quantity, unitCost)]

(* Mutant of IssuedValue: the last units are charged at the rounded average. *)
AverageShare(s, quantity) == LineValue(quantity, AverageUnitCost(s))

Share(s, quantity) == IF s.quantity = 0 THEN 0 ELSE RoundedQuotient(quantity * s.value, s.quantity)

(* applyIssue: the value charged; the last units take all that is left.    *)
IssuedValue(s, quantity) ==
    IF quantity = s.quantity THEN s.value ELSE Lesser(s.value, Share(s, quantity))

(* Mutant of CanIssue: any quantity may leave a row that is not empty.     *)
AnyQuantity(s, quantity) == quantity > 0 /\ s.quantity > 0

CanIssue(s, quantity) == quantity > 0 /\ quantity <= s.quantity

AfterIssue(s, quantity) ==
    [quantity |-> s.quantity - quantity,
     value |-> AtLeastZero(s.value - IssuedValue(s, quantity))]

(* applyCountAdjustment: the difference is valued at the recorded cost, the
   remaining value is floored at zero.                                     *)
Variance(s, counted) == counted - s.quantity
VarianceValue(s, counted, unitCost) == LineValue(Variance(s, counted), unitCost)
Counted(s, counted, unitCost) ==
    [quantity |-> counted,
     value |-> AtLeastZero(s.value + VarianceValue(s, counted, unitCost))]
=============================================================================
