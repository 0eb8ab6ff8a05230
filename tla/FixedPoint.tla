----------------------------- MODULE FixedPoint -----------------------------
(***************************************************************************)
(* The contracts' fixed-point arithmetic, with One units to the number 1.  *)
(* Every operation says which way it rounds.                               *)
(***************************************************************************)
EXTENDS Integers, Sequences, SequencesExt

CONSTANT One   \* 10^18 in the code

ASSUME OneAssumption == One \in Nat \ {0}

---------------------------------------------------------------------------
(* Products that are divided at once, as the contracts' 256-bit integers   *)
(* compute them, for a checker whose own integers have 32 bits: only the   *)
(* quotient must be small.                                                 *)

Limit == 2147483647

Fits(a, b) == b = 0 \/ a <= Limit \div b

(* Quotient and remainder of a * b by c, from those of a * (b \div 2).     *)
Carry(quotient, rest, c) == <<quotient + rest \div c, rest % c>>
Twice(half, a, bit, c) ==
    Carry(2 * half[1] + bit * (a \div c), 2 * half[2] + bit * (a % c), c)

ProductBy(a, b, c) ==
    LET product[m \in Nat] ==
            IF Fits(a, m) THEN <<(a * m) \div c, (a * m) % c>>
            ELSE Twice(product[m \div 2], a, m % 2, c)
    IN  product[b]

Up(p) == IF p[2] = 0 THEN p[1] ELSE p[1] + 1
HalfUp(p, c) == IF 2 * p[2] >= c THEN p[1] + 1 ELSE p[1]

MulDiv(a, b, c) == IF Fits(a, b) THEN (a * b) \div c ELSE ProductBy(a, b, c)[1]
MulDivUp(a, b, c) == IF Fits(a, b) THEN -((-(a * b)) \div c) ELSE Up(ProductBy(a, b, c))
MulDivRounded(a, b, c) == HalfUp(ProductBy(a, b, c), c)

(* x to the power n, where one stands for 1.                               *)
Square(Times(_, _), x) == Times(x, x)

PowerBy(Times(_, _), one, x, n) ==
    LET power[k \in Nat] ==
            IF k <= 1 THEN IF k = 0 THEN one ELSE x
            ELSE IF k % 2 = 0 THEN Square(Times, power[k \div 2])
            ELSE Times(Square(Times, power[k \div 2]), x)
    IN  power[n]

(* The largest z with z^n <= x, between the smaller of x and one and the   *)
(* first one that is too large, by bisection.                              *)
RootBy(Times(_, _), one, x, n) ==
    LET Above(z) == PowerBy(Times, one, z, n) > x
        bound[z \in Nat] == IF Above(z) THEN z ELSE bound[2 * z]
        search[low \in Nat, high \in Nat] ==
            IF high - low <= 1 THEN low
            ELSE IF Above((low + high) \div 2) THEN search[low, (low + high) \div 2]
            ELSE search[(low + high) \div 2, high]
    IN  search[IF x < one THEN x ELSE one, bound[one]]

Gcd[m \in Nat, n \in Nat] == IF n = 0 THEN m ELSE Gcd[n, m % n]

---------------------------------------------------------------------------
(* FixedPoint and Math.                                                    *)

(* Plain integer division, Math.divUp.                                     *)
QuotientUp(a, b) == IF a = 0 THEN 0 ELSE 1 + (a - 1) \div b

mulDown(a, b) == MulDiv(a, b, One)
mulUp(a, b) == MulDivUp(a, b, One)
divDown(a, b) == MulDiv(a, One, b)
divUp(a, b) == MulDivUp(a, One, b)
complement(x) == IF x < One THEN One - x ELSE 0

Total(numbers) == FoldLeft(+, 0, numbers)

(* LogExpMath.pow for an exponent that is a small fraction, p / q of One:  *)
(* the q-th root of the p-th power, one unit at most below the true value. *)
LogExpPow(x, y) ==
    RootBy(mulUp, One, PowerBy(mulDown, One, x, y \div Gcd[y, One]), One \div Gcd[y, One])

(* The error bound of the power function is one unit at this precision.    *)
MaxPowError == 1
LessError(power) == IF power < MaxPowError THEN 0 ELSE power - MaxPowError

powDown(x, y) ==
    CASE y = One -> x
      [] y = 2 * One -> mulDown(x, x)
      [] y = 4 * One -> mulDown(mulDown(x, x), mulDown(x, x))
      [] OTHER -> LessError(LogExpPow(x, y))

powUp(x, y) ==
    CASE y = One -> x
      [] y = 2 * One -> mulUp(x, x)
      [] y = 4 * One -> mulUp(mulUp(x, x), mulUp(x, x))
      [] OTHER -> LogExpPow(x, y) + MaxPowError
=============================================================================
