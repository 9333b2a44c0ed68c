---------------------------- MODULE FixedPoint ----------------------------
(***************************************************************************)
(* Non-negative fixed-point numbers (dex/utils/q96.ts).  A number is an    *)
(* integer multiple of 1/One; the code has One = 2^96 and unbounded        *)
(* integers, so every operation is exact up to the roundings written here. *)
(***************************************************************************)
EXTENDS Integers

CONSTANT One

ASSUME OneAssumption == One \in Nat \ {0}

NumberToQ96(r) == r * One

RoundDownQ96(a) == a \div One
RoundUpQ96(a) == IF a % One = 0 THEN a \div One ELSE (a \div One) + 1

MulQ96(a, b) == (a * b) \div One
DivQ96(a, b) == (a * One) \div b
InvQ96(a) == DivQ96(One, a)

\* The quotient of the product is rounded twice.
MulDivQ96(a, b, c) == RoundDownQ96((a * b * One) \div c)
MulDivRoundUpQ96(a, b, c) == RoundUpQ96((a * b * One) \div c)
=============================================================================
