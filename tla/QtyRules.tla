------------------------------ MODULE QtyRules ------------------------------
(***************************************************************************)
(* Quantities as the exchange wants them (api/order.go): multiples of the  *)
(* symbol's step, printed with its precision.  A quantity is a number of   *)
(* units in the last printed digit, 10^-Precision coins.                   *)
(***************************************************************************)
EXTENDS Naturals, FiniteSetsExt

CONSTANTS
  Precision,  \* QuantityPrecision: digits after the point
  Step        \* LOT_SIZE stepSize, in units

ASSUME PrecisionAssumption == Precision \in Nat
ASSUME StepAssumption      == Step \in Nat \ {0}

\* (Bug.)  Rounding to the nearest multiple instead of down.
RoundToNearest(num, den) == ((2 * num + den * Step) \div (2 * den * Step)) * Step

\* roundToStepSize of the quotient num / den.
RoundToStep(num, den) == (num \div (den * Step)) * Step

Tens == {1, 10, 100, 1000, 10000, 100000, 1000000, 10000000, 100000000}

\* TrimRight(s, "0") on the digits of q, as the number the rest denotes.
Stripped(q) == IF q = 0 THEN 0 ELSE q \div Max({d \in Tens : q % d = 0})

\* formatQuantity, as the number its string denotes.  With digits after the
\* point the zeros removed are those of the fraction; without, there is no
\* point to stop at.
Formatted(q) == IF Precision = 0 THEN Stripped(q) ELSE q

\* (Bug.)  Rounding before the multiplication.
ShareEarly(q, pct) == Formatted(RoundToStep(q, 100) * pct)

\* A share of a position or of an order: pct percent of q.
Share(q, pct) == Formatted(RoundToStep(q * pct, 100))
=============================================================================
