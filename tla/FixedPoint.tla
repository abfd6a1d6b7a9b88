---------------------------- MODULE FixedPoint -----------------------------
(***************************************************************************)
(* threads/fixed_point.h: reals as integers in units of 1/F.               *)
(***************************************************************************)
EXTENDS Integers

CONSTANTS
    F,           \* 1 << 14 in fixed_point.h
    INT_RANGE    \* 2^32, the values of an int

ASSUME FAssumption == F \in Nat \ {0} /\ INT_RANGE \in Nat \ {0}

\* An int keeps the low bits of a result that is too large for it.  Only the
\* results that come near the limit are reduced (see Mlfqs).
int(x) == ((x + INT_RANGE \div 2) % INT_RANGE) - INT_RANGE \div 2

\* Division as in C, for b > 0: it drops the fraction.
quotient(a, b) == IF a >= 0 THEN a \div b ELSE -((-a) \div b)

int_to_fp(n) == n * F
fp_to_int(x) == quotient(x, F)
fp_to_int_nearest(x) == quotient(int(IF x >= 0 THEN x + F \div 2 ELSE x - F \div 2), F)
fp_add(x, y) == x + y
fp_add_int(x, n) == x + n * F
fp_mul(x, y) == quotient(x * y, F)
fp_mul_int(x, n) == x * n
fp_div(x, y) == quotient(x * F, y)
fp_div_int(x, n) == quotient(x, n)

=============================================================================
