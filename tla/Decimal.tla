------------------------------ MODULE Decimal ------------------------------
(***************************************************************************)
(* Amounts of money. Nothing limits the decimals of an amount in a         *)
(* request, and products of amounts have more of them, but the columns are *)
(* DECIMAL(15,2): amounts of requests are counted in parts, Parts of which *)
(* make one unit of a column, and what is written to a column is rounded.  *)
(***************************************************************************)
EXTENDS Integers

CONSTANT Parts \* how many parts of an amount make a unit of a column

ASSUME PartsAssumption == Parts \in Nat \ {0}

\* DECIMAL(15,2) rounds half away from zero what is written to it.
Round(n) ==
  IF n >= 0 THEN (2 * n + Parts) \div (2 * Parts) ELSE -((Parts - 2 * n) \div (2 * Parts))

\* SET total = total + parts: the sum is rounded, not what is added.
Plus(total, parts) == Round(Parts * total + parts)

\* n ends in half a unit: only then does it matter whether n is rounded or its sum
\* with whole units.
IsHalf(n) == 2 * (n % Parts) = Parts
=============================================================================
