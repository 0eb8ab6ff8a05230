------------------------------ MODULE Decimals ------------------------------
(***************************************************************************)
(* The numbers of the TypeScript helpers: decimals (decimal.js), and token *)
(* amounts as integers with One raw units to the token.  A decimal x is    *)
(* represented by the integer x * Scale: decimal.js keeps 20 significant   *)
(* digits, two more than an amount has, and here a decimal is Scale \div   *)
(* One times finer than an amount.  Each operation rounds half up.         *)
(***************************************************************************)
EXTENDS FixedPoint

CONSTANT Scale    \* the finest decimal is 1 / Scale

Sign(x) == IF x < 0 THEN -1 ELSE 1
Magnitude(x) == IF x < 0 THEN -x ELSE x

DecMul(x, y) == Sign(x) * Sign(y) * MulDivRounded(Magnitude(x), Magnitude(y), Scale)
DecDiv(x, y) == Sign(x) * Sign(y) * MulDivRounded(Magnitude(x), Scale, Magnitude(y))

DecPow(x, n) == PowerBy(DecMul, Scale, x, n)

(* The n-th root, and the power p / q for the small fractions that weights *)
(* are.                                                                    *)
DecRoot(x, n) == RootBy(DecMul, Scale, x, n)
DecPowFraction(x, p, q) == DecRoot(DecPow(x, p), q)

(* fp cuts the decimals that a raw amount cannot hold.                     *)
Fp(x) == Sign(x) * (Magnitude(x) \div (Scale \div One))
FromFp(raw) == raw * (Scale \div One)
FromFpAll(raws) == [i \in DOMAIN raws |-> FromFp(raws[i])]

TotalOf(numbers) == FoldLeft(+, 0, numbers)

(* fpMul, fpDiv: raw amounts, rounded down.                                *)
FpMul(a, b) == MulDiv(a, b, One)
FpDiv(a, b) == MulDiv(a, One, b)
=============================================================================
