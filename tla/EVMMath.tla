------------------------------- MODULE EVMMath -------------------------------
(***************************************************************************)
(* The arithmetic helpers the contracts share.  Solidity 0.8 arithmetic is *)
(* checked: an operation that would leave its type's range reverts, which  *)
(* the modules express as a guard where the boundary can be reached.       *)
(***************************************************************************)
LOCAL INSTANCE Integers

\* OpenZeppelin's Math.min.
MathMin(a, b) == IF a <= b THEN a ELSE b

\* OpenZeppelin's Math.max.
MathMax(a, b) == IF a >= b THEN a ELSE b

\* 10 ** n, for a natural number n.
Pow10[n \in Nat] == IF n = 0 THEN 1 ELSE 10 * Pow10[n - 1]
==============================================================================
