------------------------------ MODULE Numbers ------------------------------
(***************************************************************************)
(* The conversion of an integer to a number of JavaScript, a float of      *)
(* bounded precision: Number(x), where the code turns a bigint into a      *)
(* number and back.                                                        *)
(***************************************************************************)
EXTENDS Integers

CONSTANT ExactUpTo   \* every integer up to it is a number: 2^53

ASSUME NumbersAssumption == ExactUpTo \in Nat \ {0}

IsPowerOfTwo(h) == \A d \in 1..h : h % d = 0 /\ d % 2 = 1 => d = 1

\* Half the distance of the numbers around n, where not every integer is one.
HalfSteps(n) ==
    {h \in 1..n : n \div h >= ExactUpTo /\ n \div (2 * h) < ExactUpTo /\ IsPowerOfTwo(h)}

\* Number(n): rounds to the nearest number, of two to the even one.
AsNumber(n) ==
    LET half == CHOOSE h \in HalfSteps(n) : TRUE
        behind == n \div (2 * half)
        over == n % (2 * half)
        up == over > half \/ (over = half /\ behind % 2 = 1)
    IN  IF HalfSteps(n) = {} THEN n
        ELSE 2 * half * (IF up THEN behind + 1 ELSE behind)
=============================================================================
