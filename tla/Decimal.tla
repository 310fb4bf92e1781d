------------------------------- MODULE Decimal -------------------------------
(***************************************************************************)
(* contracts/external/Decimal.sol: fixed-point numbers, as the contracts   *)
(* use them.  A D256 is the natural number held in its value field, BASE   *)
(* stands for 1.0, and every division truncates.  A division by zero and a *)
(* product above 2^256 revert; the first is a guard of the operations that *)
(* can meet it, the second is out of reach of the values modelled.         *)
(***************************************************************************)
EXTENDS Integers

CONSTANT BASE       \* 10 ** 18 in the contract

\* getPartial()
getPartial(target, numerator, denominator) ==
    (target * numerator) \div denominator

\* from(a): the whole number a.
from(a) == a * BASE

\* one()
one == BASE

\* ratio(a, b): a over b.
ratio(a, b) == getPartial(a, BASE, b)

\* mul(self, b) and div(self, b) for a plain integer b.
mulInt(d, b) == d * b

divInt(d, b) == d \div b

\* div(self, b) for a D256 b.
divDec(d, b) == getPartial(d, BASE, b)

\* asUint256(): the integer part.
asUint256(d) == d \div BASE
==============================================================================
