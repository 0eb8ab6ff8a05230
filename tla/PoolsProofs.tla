---------------------------- MODULE PoolsProofs ----------------------------
(***************************************************************************)
(* Proofs about Pools: their arithmetic, which rounds as it says, the      *)
(* types of what they keep, and the payment of the protocol's fees.        *)
(*                                                                         *)
(* FixedPoint multiplies and divides at once by a recursion that halves a  *)
(* factor; the products are shown to be exact (MulDivIsExact).  What is    *)
(* proved of the hooks holds for any mathematics: whatever it computes,    *)
(* the hooks revert or answer with amounts (WeightedAnswers, StableAnswers *)
(* and the lemmas before them), and the Vault and the Pool token subtract  *)
(* no more than there is.  Every step of a client is a PoolStep: it leaves *)
(* what fees depend on alone, swaps, settles the fees, leaves in Recovery  *)
(* Mode or opens the Pool.  The invariant PoolsInv is the types, with the  *)
(* bounds of the amplification parameter, and Paid, which says that the    *)
(* Pool remembers its present invariant, not zero in a Weighted Pool,      *)
(* unless there were swaps or it is in Recovery Mode; a Pool that has been *)
(* opened stays so, for MinimumBpt Pool tokens belong to an address that   *)
(* nobody signs for.                                                       *)
(***************************************************************************)
EXTENDS MCPools, SumTheorems

---------------------------------------------------------------------------
(* Products that are divided at once.                                      *)

(* Quotient and rest are determined by their sizes.                        *)
LEMMA QuotientUnique ==
  ASSUME NEW a \in Int, NEW c \in Nat \ {0}, NEW q \in Int, NEW r \in Int,
         a = c * q + r, 0 <= r, r < c
  PROVE  a \div c = q /\ a % c = r
OBVIOUS

(* The quotient, the rest and the number.                                  *)
LEMMA QuotientAndRest ==
  ASSUME NEW a \in Int, NEW c \in Nat \ {0}
  PROVE  /\ a \div c \in Int /\ a % c \in Int
         /\ a = c * (a \div c) + (a % c) /\ 0 <= a % c /\ a % c < c
OBVIOUS

(* The product's quotient and rest by c, as the recursion computes them.   *)
Products(f, a, c) ==
    f = [m \in Nat |-> IF Fits(a, m) THEN <<(a * m) \div c, (a * m) % c>>
                       ELSE Twice(f[m \div 2], a, m % 2, c)]

Exact(a, c) == [m \in Nat |-> <<(a * m) \div c, (a * m) % c>>]

(* Doubling the quotient and the rest, and carrying, is exact.             *)
LEMMA TwiceIsExact ==
  ASSUME NEW a \in Int, NEW c \in Nat \ {0}, NEW m \in Nat
  PROVE  /\ m \div 2 \in Nat
         /\ Twice(Exact(a, c)[m \div 2], a, m % 2, c) = Exact(a, c)[m]
<1> DEFINE h == m \div 2
           bit == m % 2
           q == (a * h) \div c
           r == (a * h) % c
           qa == a \div c
           ra == a % c
           qs == (2 * r + bit * ra) \div c
           rs == (2 * r + bit * ra) % c
<1>1. h \in Nat /\ bit \in 0 .. 1 /\ m = 2 * h + bit
  OBVIOUS
<1>2. a * h \in Int
  BY <1>1
<1> HIDE DEF h, bit
<1>3. q \in Int /\ r \in Int /\ a * h = c * q + r
  BY <1>2, QuotientAndRest
<1>4. qa \in Int /\ ra \in Int /\ a = c * qa + ra
  BY QuotientAndRest
<1> HIDE DEF q, r, qa, ra
<1>5. 2 * r + bit * ra \in Int
  BY <1>1, <1>3, <1>4
<1>6. qs \in Int /\ rs \in Int /\ 2 * r + bit * ra = c * qs + rs /\ 0 <= rs /\ rs < c
  BY <1>5, QuotientAndRest
<1> HIDE DEF qs, rs
<1>7. a * m = c * (2 * q + bit * qa + qs) + rs
  <2>1. a * m = 2 * (a * h) + bit * a
    BY <1>1
  <2>2. CASE bit = 0
    BY <2>1, <2>2, <1>1, <1>3, <1>4, <1>6
  <2>3. CASE bit = 1
    BY <2>1, <2>3, <1>1, <1>3, <1>4, <1>6
  <2> QED
    BY <2>2, <2>3, <1>1
<1>8. a * m \in Int /\ 2 * q + bit * qa + qs \in Int
  BY <1>1, <1>3, <1>4, <1>6
<1>9. (a * m) \div c = 2 * q + bit * qa + qs /\ (a * m) % c = rs
  BY <1>6, <1>7, <1>8, QuotientUnique
<1>10. Exact(a, c)[h] = <<q, r>> /\ Exact(a, c)[m] = <<(a * m) \div c, (a * m) % c>>
  BY <1>1 DEF Exact, q, r
<1>11. Twice(<<q, r>>, a, bit, c) = <<2 * q + bit * qa + qs, rs>>
  BY DEF Twice, Carry, qa, ra, qs, rs
<1> QED
  BY <1>1, <1>9, <1>10, <1>11 DEF h, bit

(* The recursion computes the exact product.                               *)
LEMMA ProductByIsExact ==
  ASSUME NEW a \in Int, NEW c \in Nat \ {0}, NEW b \in Nat
  PROVE  ProductBy(a, b, c) = <<(a * b) \div c, (a * b) % c>>
<1> DEFINE p == CHOOSE f : Products(f, a, c)
<1>1. ProductBy(a, b, c) = p[b]
  BY DEF ProductBy, Products
<1>2. Products(Exact(a, c), a, c)
  <2>1. \A m \in Nat : Exact(a, c)[m] = <<(a * m) \div c, (a * m) % c>>
    BY DEF Exact
  <2>2. \A m \in Nat : Exact(a, c)[m] = IF Fits(a, m) THEN <<(a * m) \div c, (a * m) % c>>
                                        ELSE Twice(Exact(a, c)[m \div 2], a, m % 2, c)
    BY <2>1, TwiceIsExact
  <2>3. Exact(a, c) = [m \in Nat |-> Exact(a, c)[m]]
    BY DEF Exact
  <2> QED
    BY <2>2, <2>3 DEF Products
<1>3. Products(p, a, c)
  BY <1>2
<1> HIDE DEF p
<1> DEFINE T == {m \in 0 .. b : \A k \in 0 .. m : p[k] = Exact(a, c)[k]}
<1>4. ASSUME NEW k \in Nat, k # 0 => p[k \div 2] = Exact(a, c)[k \div 2]
      PROVE  p[k] = Exact(a, c)[k]
  <2>1. p[k] = IF Fits(a, k) THEN <<(a * k) \div c, (a * k) % c>>
               ELSE Twice(p[k \div 2], a, k % 2, c)
    BY <1>3 DEF Products
  <2>2. Exact(a, c)[k] = <<(a * k) \div c, (a * k) % c>>
    BY DEF Exact
  <2>3. ~ Fits(a, k) => k # 0
    BY DEF Fits
  <2>4. Twice(Exact(a, c)[k \div 2], a, k % 2, c) = Exact(a, c)[k]
    BY TwiceIsExact
  <2>5. CASE Fits(a, k)
    BY <2>1, <2>2, <2>5
  <2>6. CASE ~ Fits(a, k)
    <3>1. p[k \div 2] = Exact(a, c)[k \div 2]
      BY <1>4, <2>3, <2>6
    <3>2. p[k] = Twice(p[k \div 2], a, k % 2, c)
      BY <2>1, <2>6
    <3> QED
      BY <2>4, <3>1, <3>2
  <2> QED
    BY <2>5, <2>6
<1>5. 0 \in T
  BY <1>4
<1>6. \A m \in 0 .. b : m + 1 \in 0 .. b /\ m \in T => m + 1 \in T
  <2> SUFFICES ASSUME NEW m \in 0 .. b, m + 1 \in 0 .. b, m \in T
               PROVE  m + 1 \in T
    OBVIOUS
  <2>1. (m + 1) \div 2 \in 0 .. m /\ m + 1 \in Nat
    OBVIOUS
  <2>2. p[m + 1] = Exact(a, c)[m + 1]
    BY <2>1, <1>4
  <2>3. \A k \in 0 .. m + 1 : k \in 0 .. m \/ k = m + 1
    OBVIOUS
  <2> QED
    BY <2>2, <2>3
<1>7. 0 .. b \subseteq T
  <2> HIDE DEF T
  <2> QED
    BY <1>5, <1>6, UpTo
<1> QED
  BY <1>1, <1>7 DEF Exact

(* Every product that is divided is exact, whether it fits or not.         *)
LEMMA MulDivIsExact ==
  ASSUME NEW a \in Int, NEW b \in Nat, NEW c \in Nat \ {0}
  PROVE  MulDiv(a, b, c) = (a * b) \div c
BY ProductByIsExact DEF MulDiv

(* So is the same rounded up.                                              *)
LEMMA MulDivUpIsExact ==
  ASSUME NEW a \in Int, NEW b \in Nat, NEW c \in Nat \ {0}
  PROVE  MulDivUp(a, b, c) = -((-(a * b)) \div c)
<1> DEFINE x == a * b
           q == x \div c
           r == x % c
<1>1. x \in Int
  OBVIOUS
<1>2. MulDivUp(a, b, c) = IF Fits(a, b) THEN -((-x) \div c) ELSE IF r = 0 THEN q ELSE q + 1
  <2>1. ProductBy(a, b, c) = <<q, r>>
    BY ProductByIsExact
  <2>2. Up(ProductBy(a, b, c)) = IF r = 0 THEN q ELSE q + 1
    <3> HIDE DEF q, r
    <3> QED
      BY <2>1 DEF Up
  <2> QED
    BY <2>2 DEF MulDivUp
<1> HIDE DEF x
<1>3. q \in Int /\ r \in Int /\ x = c * q + r /\ 0 <= r /\ r < c
  BY <1>1, QuotientAndRest
<1> HIDE DEF q, r
<1>4. CASE r = 0
  <2>1. -x = c * (-q) + 0 /\ -x \in Int /\ -q \in Int
    BY <1>1, <1>3, <1>4
  <2>2. (-x) \div c = -q
    BY <2>1, QuotientUnique
  <2> QED
    BY <1>2, <1>3, <1>4, <2>2 DEF x
<1>5. CASE r # 0
  <2>1. -x = c * (-q - 1) + (c - r) /\ -x \in Int /\ -q - 1 \in Int /\ c - r \in Int
        /\ 0 <= c - r /\ c - r < c
    BY <1>1, <1>3, <1>5
  <2>2. (-x) \div c = -q - 1
    BY <2>1, QuotientUnique
  <2> QED
    BY <1>2, <1>3, <1>5, <2>2 DEF x
<1> QED
  BY <1>4, <1>5

(* Quotients rounded down and rounded up.                                  *)
LEMMA DownAndUp ==
  ASSUME NEW x \in Int, NEW c \in Nat \ {0}
  PROVE  /\ (x \div c) * c <= x /\ x < (x \div c + 1) * c
         /\ (-((-x) \div c)) * c >= x /\ x > (-((-x) \div c) - 1) * c
<1> DEFINE q == x \div c
           r == x % c
           n == (-x) \div c
           s == (-x) % c
<1>1. q \in Int /\ r \in Int /\ x = c * q + r /\ 0 <= r /\ r < c
  BY QuotientAndRest
<1>2. -x \in Int
  OBVIOUS
<1>3. n \in Int /\ s \in Int /\ -x = c * n + s /\ 0 <= s /\ s < c
  BY <1>2, QuotientAndRest
<1> HIDE DEF q, r, n, s
<1>4. q * c <= x /\ x < (q + 1) * c
  BY <1>1
<1>5. (-n) * c >= x /\ x > (-n - 1) * c
  BY <1>3
<1> QED
  BY <1>4, <1>5 DEF q, n

(* Multiplications and divisions round as their names say, by less than a  *)
(* unit, for any precision and any amounts (FixedPoint.sol: mulDown,       *)
(* mulUp, divDown, divUp).                                                 *)
THEOREM RoundsAsItSays ==
  ASSUME NEW a \in Nat, NEW b \in Nat
  PROVE  /\ mulDown(a, b) * One <= a * b /\ a * b < (mulDown(a, b) + 1) * One
         /\ mulUp(a, b) * One >= a * b /\ a * b > (mulUp(a, b) - 1) * One
         /\ b > 0 => /\ divDown(a, b) * b <= a * One /\ a * One < (divDown(a, b) + 1) * b
                     /\ divUp(a, b) * b >= a * One /\ a * One > (divUp(a, b) - 1) * b
<1>1. One \in Nat \ {0} /\ a * b \in Int /\ a * One \in Int
  BY OneAssumption
<1>2. mulDown(a, b) = (a * b) \div One /\ mulUp(a, b) = -((-(a * b)) \div One)
  BY <1>1, MulDivIsExact, MulDivUpIsExact DEF mulDown, mulUp
<1>3. ASSUME b > 0
      PROVE  divDown(a, b) = (a * One) \div b /\ divUp(a, b) = -((-(a * One)) \div b)
  BY <1>1, <1>3, MulDivIsExact, MulDivUpIsExact DEF divDown, divUp
<1> DEFINE x == a * b
           y == a * One
<1>4. /\ (x \div One) * One <= x /\ x < (x \div One + 1) * One
      /\ (-((-x) \div One)) * One >= x /\ x > (-((-x) \div One) - 1) * One
  <2> HIDE DEF x
  <2>1. x \in Int
    BY <1>1 DEF x
  <2> QED
    BY <1>1, <2>1, DownAndUp
<1>5. b > 0 => /\ (y \div b) * b <= y /\ y < (y \div b + 1) * b
               /\ (-((-y) \div b)) * b >= y /\ y > (-((-y) \div b) - 1) * b
  <2> HIDE DEF y
  <2>1. y \in Int
    BY <1>1 DEF y
  <2> QED
    BY <2>1, DownAndUp
<1> HIDE DEF x, y
<1>6. mulDown(a, b) = x \div One /\ mulUp(a, b) = -((-x) \div One)
  BY <1>2 DEF x
<1>7. b > 0 => divDown(a, b) = y \div b /\ divUp(a, b) = -((-y) \div b)
  BY <1>3 DEF y
<1>8. /\ mulDown(a, b) * One <= x /\ x < (mulDown(a, b) + 1) * One
      /\ mulUp(a, b) * One >= x /\ x > (mulUp(a, b) - 1) * One
  BY <1>4, <1>6
<1>9. b > 0 => /\ divDown(a, b) * b <= y /\ y < (divDown(a, b) + 1) * b
               /\ divUp(a, b) * b >= y /\ y > (divUp(a, b) - 1) * b
  BY <1>5, <1>7
<1> QED
  BY <1>8, <1>9 DEF x, y

(* A proportional join takes at least the share that its Pool tokens are   *)
(* of the supply, and a proportional exit, in Recovery Mode too, gives at  *)
(* most that, of every token, for any precision, balances and supply:      *)
(* neither takes anything from the other holders of Pool tokens            *)
(* (BasePoolMath.sol, RecoveryModeHelper.sol).                             *)
THEOREM ProportionalIsFair ==
  ASSUME balances \in [Tokens -> Nat], NEW i \in Tokens,
         NEW amount \in Nat, NEW supply \in Nat \ {0}
  PROVE  /\ ProportionalAmountsIn(amount, supply)[i] * supply >= balances[i] * amount
         /\ ProportionalAmountsOut(amount, supply)[i] * supply <= balances[i] * amount
<1> DEFINE b == balances[i]
           down == divDown(amount, supply)
           up == divUp(amount, supply)
           out == mulDown(b, down)
           in == mulUp(b, up)
<1>1. b \in Nat /\ One \in Nat \ {0}
  BY OneAssumption
<1>2. down \in Nat /\ down * supply <= amount * One
  <2>1. down = (amount * One) \div supply /\ amount * One \in Nat
    BY <1>1, MulDivIsExact DEF divDown
  <2>2. (amount * One) \div supply \in Nat
    <3> DEFINE x == amount * One
    <3>1. x \in Nat
      BY <2>1
    <3> HIDE DEF x
    <3>2. x \div supply \in Nat
      BY <3>1
    <3> QED
      BY <3>2 DEF x
  <2> QED
    BY <2>1, <2>2, <1>1, RoundsAsItSays
<1>3. up \in Nat /\ up * supply >= amount * One
  <2>1. up = -((-(amount * One)) \div supply)
    BY <1>1, MulDivUpIsExact DEF divUp
  <2>2. up \in Int
    <3> DEFINE x == -(amount * One)
    <3>1. x \in Int
      BY <1>1
    <3> HIDE DEF x
    <3>2. x \div supply \in Int
      BY <3>1
    <3> QED
      BY <2>1, <3>2 DEF x
  <2>3. up * supply >= amount * One
    BY <1>1, RoundsAsItSays
  <2>4. amount * One >= 0
    BY <1>1
  <2> HIDE DEF up
  <2>5. amount * One \in Int
    BY <1>1
  <2> DEFINE x == amount * One
  <2> HIDE DEF x
  <2>6. x \in Int /\ x >= 0 /\ up * supply >= x
    BY <2>3, <2>4, <2>5 DEF x
  <2>7. up >= 0
    BY <2>2, <2>6
  <2> QED
    BY <2>2, <2>3, <2>7
<1> HIDE DEF b, down, up
<1>4. out * One <= b * down /\ in * One >= b * up
  BY <1>1, <1>2, <1>3, RoundsAsItSays
<1>5. out \in Int /\ in \in Int
  <2>1. out = (b * down) \div One /\ in = -((-(b * up)) \div One)
    BY <1>1, <1>2, <1>3, MulDivIsExact, MulDivUpIsExact DEF mulDown, mulUp
  <2> DEFINE x == b * down
             y == -(b * up)
  <2>2. x \in Int /\ y \in Int
    BY <1>1, <1>2, <1>3
  <2> HIDE DEF x, y
  <2>3. x \div One \in Int /\ y \div One \in Int
    BY <1>1, <2>2
  <2> QED
    BY <2>1, <2>3 DEF x, y
<1> HIDE DEF out, in
<1>6. out * supply <= b * amount
  <2>1. (out * One) * supply <= (b * down) * supply
    BY <1>1, <1>2, <1>4, <1>5
  <2>2. b * (down * supply) <= b * (amount * One)
    BY <1>1, <1>2
  <2>3. (out * supply) * One <= (b * amount) * One
    BY <1>1, <1>2, <1>5, <2>1, <2>2
  <2> QED
    BY <1>1, <1>5, <2>3
<1>7. in * supply >= b * amount
  <2>1. (in * One) * supply >= (b * up) * supply
    BY <1>1, <1>3, <1>4, <1>5
  <2>2. b * (up * supply) >= b * (amount * One)
    BY <1>1, <1>3
  <2>3. (in * supply) * One >= (b * amount) * One
    BY <1>1, <1>3, <1>5, <2>1, <2>2
  <2> QED
    BY <1>1, <1>5, <2>3
<1> QED
  BY <1>6, <1>7 DEF ProportionalAmountsIn, ProportionalAmountsOut, b, in, out, up, down

(* Both Pools are initialized in the same states.                          *)
LEMMA SameInitialized == Stable!Initialized <=> Initialized
<1>1. circulating = Stable!circulating
  BY DEF circulating, Stable!circulating, FoldFunction, Stable!FoldFunction,
         FoldFunctionOnSet, Stable!FoldFunctionOnSet, MapThenFoldSet, Stable!MapThenFoldSet
<1> QED
  BY <1>1 DEF Initialized, Stable!Initialized

---------------------------------------------------------------------------
(* What is minted for the protocol is never negative.                      *)

(* A part of an amount is not negative, and not more than the amount.      *)
LEMMA PartOf ==
  ASSUME NEW a \in Nat, NEW b \in Nat, NEW c \in Nat \ {0}
  PROVE  MulDiv(a, b, c) \in Nat /\ (a <= c => MulDiv(a, b, c) <= b)
<1> DEFINE x == a * b
           q == x \div c
<1>1. MulDiv(a, b, c) = q /\ x \in Nat
  BY MulDivIsExact
<1>2. a <= c => x <= b * c
  BY <1>1
<1> HIDE DEF x
<1>3. q \in Nat /\ q * c <= x
  BY <1>1, DownAndUp
<1> HIDE DEF q
<1>4. ASSUME a <= c
      PROVE  q <= b
  <2>1. q * c <= b * c
    BY <1>1, <1>2, <1>3, <1>4
  <2> QED
    BY <1>3, <2>1
<1> QED
  BY <1>1, <1>3, <1>4

(* So are quotients and products of shares.                                *)
LEMMA SharesAreNat ==
  ASSUME NEW a \in Nat, NEW b \in Nat
  PROVE  /\ b > 0 => divDown(a, b) \in Nat
         /\ b > 0 /\ a <= b => divDown(a, b) <= One
         /\ mulDown(a, b) \in Nat
         /\ a <= One => mulDown(a, b) <= b
<1>1. One \in Nat \ {0}
  BY OneAssumption
<1>2. mulDown(a, b) \in Nat /\ (a <= One => mulDown(a, b) <= b)
  BY <1>1, PartOf DEF mulDown
<1>3. ASSUME b > 0
      PROVE  divDown(a, b) \in Nat /\ (a <= b => divDown(a, b) <= One)
  <2>1. b \in Nat \ {0} /\ One \in Nat
    BY <1>1, <1>3
  <2> QED
    BY <2>1, PartOf DEF divDown
<1> QED
  BY <1>2, <1>3

(* Half of a Pool at most is worth some Pool tokens.                       *)
LEMMA ShareIsWorth ==
  ASSUME NEW supply \in Nat, NEW percentage \in 0 .. One \div 2
  PROVE  bptForPoolOwnershipPercentage(supply, percentage) \in Nat
<1>1. One \in Nat \ {0} /\ percentage \in Nat /\ percentage < One
  BY OneAssumption
<1>2. complement(percentage) \in Nat \ {0}
  BY <1>1 DEF complement
<1> QED
  BY <1>1, <1>2, PartOf DEF bptForPoolOwnershipPercentage

(* The protocol never owns more than its percentage (WeightedPools).       *)
LEMMA WeightedShare ==
  ASSUME NEW growth \in Nat, NEW supplyGrowth \in Nat, NEW percentage \in Nat
  PROVE  getProtocolOwnershipPercentage(growth, supplyGrowth, percentage) \in 0 .. percentage
<1> DEFINE ratio == divDown(supplyGrowth, growth)
<1>1. CASE supplyGrowth >= growth
  BY <1>1 DEF getProtocolOwnershipPercentage
<1>2. CASE supplyGrowth < growth
  <2>1. ratio \in Nat /\ ratio <= One
    BY <1>2, SharesAreNat
  <2> HIDE DEF ratio
  <2>2. One - ratio \in Nat /\ One - ratio <= One
    BY <2>1, OneAssumption
  <2>3. mulDown(One - ratio, percentage) \in Nat /\ mulDown(One - ratio, percentage) <= percentage
    BY <2>2, SharesAreNat
  <2> QED
    BY <1>2, <2>3 DEF getProtocolOwnershipPercentage, ratio
<1> QED
  BY <1>1, <1>2

(* The cached percentage is at most a half, as governance's are.           *)
LEMMA CacheIsPercentage ==
  ASSUME feeCache \in ProtocolFees
  PROVE  getProtocolFeePercentageCache \in 0 .. One \div 2
<1>1. feeCache \in 0 .. One \div 2 /\ One \div 2 \in Nat
  BY BasePoolAssumption, OneAssumption
<1> QED
  BY <1>1 DEF getProtocolFeePercentageCache

(* Parts of that are percentages too.                                      *)
LEMMA UpToHalf ==
  ASSUME NEW p \in 0 .. One \div 2, NEW s \in 0 .. p
  PROVE  s \in 0 .. One \div 2 /\ p \in Nat
BY OneAssumption

(* The Pool tokens in circulation: each account's are some of them.        *)
LEMMA CirculatingIs ==
  ASSUME bpt \in [Accounts -> Nat]
  PROVE  /\ circulating \in Nat /\ Stable!circulating = circulating
         /\ \A a \in Accounts : bpt[a] <= circulating
<1>1. Stable!circulating = circulating
  BY DEF circulating, Stable!circulating, FoldFunction, Stable!FoldFunction,
         FoldFunctionOnSet, Stable!FoldFunctionOnSet, MapThenFoldSet, Stable!MapThenFoldSet
<1> DEFINE c == circulating
           s == SumOf(bpt, Accounts)
<1>2. c = s
  <2>1. c = SumOf(bpt, DOMAIN bpt)
    BY DEF circulating, FoldFunction, FoldFunctionOnSet, SumOf, MapThenSumSet
  <2> QED
    BY <2>1
<1>3. s \in Nat /\ \A a \in Accounts : bpt[a] <= s
  BY SumOfNat, BasePoolAssumption
<1> HIDE DEF c, s
<1>4. c \in Nat /\ \A a \in Accounts : bpt[a] <= c
  BY <1>2, <1>3
<1> QED
  BY <1>1, <1>4 DEF c

(* What is due for past swaps.                                             *)
LEMMA WeightedDueIsNat ==
  ASSUME NEW invariant \in Nat, bpt \in [Accounts -> Nat], feeCache \in ProtocolFees,
         lastInvariant \in Nat \ {0}
  PROVE  getPreJoinExitProtocolFees(invariant) \in Nat
<1> DEFINE growth == divDown(invariant, lastInvariant)
           percentage == getProtocolFeePercentageCache
           share == getProtocolOwnershipPercentage(growth, One, percentage)
<1>1. growth \in Nat /\ One \in Nat
  BY SharesAreNat, OneAssumption
<1>2. percentage \in 0 .. One \div 2 /\ circulating \in Nat
  BY CacheIsPercentage, CirculatingIs
<1> HIDE DEF growth, percentage
<1>3. percentage \in Nat
  BY <1>1, <1>2
<1>4. share \in 0 .. percentage
  BY <1>1, <1>3, WeightedShare
<1> HIDE DEF share
<1>5. bptForPoolOwnershipPercentage(circulating, share) \in Nat
  BY <1>2, <1>4, UpToHalf, ShareIsWorth
<1> QED
  BY <1>5 DEF getPreJoinExitProtocolFees, totalSupply, growth, percentage, share

(* What is due for the swaps that a join or an exit amounts to.            *)
LEMMA WeightedFeesAreNat ==
  ASSUME NEW growth \in Nat, NEW preSupply \in Nat \ {0}, NEW postSupply \in Nat,
         feeCache \in ProtocolFees
  PROVE  getPostJoinExitProtocolFees(growth, preSupply, postSupply) \in Nat
<1> DEFINE supplyGrowth == divDown(postSupply, preSupply)
           percentage == getProtocolFeePercentageCache
           share == getProtocolOwnershipPercentage(growth, supplyGrowth, percentage)
<1>1. supplyGrowth \in Nat
  BY SharesAreNat
<1>2. percentage \in 0 .. One \div 2
  BY CacheIsPercentage
<1> HIDE DEF supplyGrowth, percentage
<1>3. percentage \in Nat
  BY <1>2, OneAssumption
<1>4. share \in 0 .. percentage
  BY <1>1, <1>3, WeightedShare
<1> HIDE DEF share
<1>5. bptForPoolOwnershipPercentage(postSupply, share) \in Nat
  BY <1>2, <1>4, UpToHalf, ShareIsWorth
<1> QED
  BY <1>5 DEF getPostJoinExitProtocolFees, supplyGrowth, percentage, share

(* Both Pools compute with the same arithmetic.                            *)
LEMMA SameArithmetic ==
  /\ \A x, y, z : Stable!MulDiv(x, y, z) = MulDiv(x, y, z)
  /\ \A x, y : Stable!bptForPoolOwnershipPercentage(x, y) = bptForPoolOwnershipPercentage(x, y)
<1>1. ASSUME NEW x, NEW y, NEW z
      PROVE  Stable!MulDiv(x, y, z) = MulDiv(x, y, z)
  <2>1. Stable!ProductBy(x, y, z) = ProductBy(x, y, z)
    BY DEF Stable!ProductBy, ProductBy, Stable!Fits, Fits, Stable!Twice, Twice, Stable!Carry, Carry,
       Stable!Limit, Limit
  <2>2. Stable!Fits(x, y) = Fits(x, y)
    BY DEF Stable!Fits, Fits, Stable!Limit, Limit
  <2> QED
    BY <2>1, <2>2 DEF Stable!MulDiv, MulDiv
<1>2. ASSUME NEW x, NEW y
      PROVE  Stable!bptForPoolOwnershipPercentage(x, y) = bptForPoolOwnershipPercentage(x, y)
  <2>1. Stable!complement(y) = complement(y)
    BY DEF Stable!complement, complement
  <2> QED
    BY <1>1, <2>1 DEF Stable!bptForPoolOwnershipPercentage, bptForPoolOwnershipPercentage
<1> QED
  BY <1>1, <1>2

(* The same of the Stable Pool.                                            *)
LEMMA StableDueIsNat ==
  ASSUME NEW invariant \in Nat \ {0}, bpt \in [Accounts -> Nat], feeCache \in ProtocolFees,
         lastInvariant \in Nat
  PROVE  Stable!bptForPoolOwnershipPercentage(Stable!circulating,
             Stable!getProtocolPoolOwnershipPercentage(invariant)) \in Nat
<1> DEFINE diff == IF invariant > lastInvariant THEN invariant - lastInvariant ELSE 0
           grown == divDown(diff, invariant)
           percentage == getProtocolFeePercentageCache
           share == mulDown(grown, percentage)
<1>1. diff \in Nat /\ diff <= invariant
  OBVIOUS
<1>2. Stable!getProtocolPoolOwnershipPercentage(invariant) = share
  <2>1. Stable!getProtocolFeePercentageCache = percentage
    BY DEF Stable!getProtocolFeePercentageCache, getProtocolFeePercentageCache
  <2> QED
    BY <2>1, SameArithmetic DEF Stable!getProtocolPoolOwnershipPercentage, Stable!mulDown, mulDown,
       Stable!divDown, divDown
<1> HIDE DEF diff
<1>3. grown \in Nat /\ grown <= One
  BY <1>1, SharesAreNat
<1>4. percentage \in 0 .. One \div 2 /\ circulating \in Nat /\ Stable!circulating = circulating
  BY CacheIsPercentage, CirculatingIs
<1> HIDE DEF grown, percentage
<1>5. percentage \in Nat
  BY <1>4, OneAssumption
<1>6. share \in 0 .. percentage
  <2>1. mulDown(grown, percentage) \in Nat /\ mulDown(grown, percentage) <= percentage
    BY <1>3, <1>5, SharesAreNat
  <2> QED
    BY <1>5, <2>1
<1> HIDE DEF share
<1>7. bptForPoolOwnershipPercentage(circulating, share) \in Nat
  BY <1>4, <1>6, UpToHalf, ShareIsWorth
<1> QED
  BY <1>2, <1>4, <1>7, SameArithmetic

(* What a join or an exit of a Stable Pool pays for the swaps it amounts   *)
(* to.                                                                     *)
LEMMA StableFeesAreNat ==
  ASSUME NEW invariant \in Nat, NEW feeless \in Nat, NEW supply \in Nat, feeCache \in ProtocolFees
  PROVE  Stable!FeesDue(invariant, feeless, supply) \in Nat
<1> DEFINE percentage == getProtocolFeePercentageCache
           part1 == MulDiv(invariant - feeless, percentage, invariant)
<1>1. Stable!getProtocolFeePercentageCache = percentage
  BY DEF Stable!getProtocolFeePercentageCache, getProtocolFeePercentageCache
<1>2. percentage \in 0 .. One \div 2
  BY CacheIsPercentage
<1> HIDE DEF percentage
<1>3. percentage \in Nat
  BY <1>2, OneAssumption
<1>4. CASE invariant <= feeless
  BY <1>4 DEF Stable!FeesDue
<1>5. CASE invariant > feeless
  <2>1. invariant - feeless \in Nat /\ invariant - feeless <= invariant /\ invariant \in Nat \ {0}
    BY <1>5
  <2>2. part1 \in 0 .. percentage
    BY <1>3, <2>1, PartOf
  <2> HIDE DEF part1
  <2>3. bptForPoolOwnershipPercentage(supply, part1) \in Nat
    BY <1>2, <2>2, UpToHalf, ShareIsWorth
  <2>4. Stable!FeesDue(invariant, feeless, supply) = bptForPoolOwnershipPercentage(supply, part1)
    <3>1. ~(invariant <= feeless)
      BY <1>5
    <3> QED
      BY <1>1, <3>1, SameArithmetic DEF Stable!FeesDue, part1
  <2> QED
    BY <2>3, <2>4
<1> QED
  BY <1>4, <1>5

---------------------------------------------------------------------------
(* What hooks answer, and the types of the state they leave.               *)

(* An amount of Pool tokens for amounts of tokens, and one with the Pool   *)
(* tokens to mint for the protocol and the invariant to remember.          *)
Offered(r) == r.bpt \in Nat /\ \A i \in Tokens : r.amounts[i] \in Nat
Answered(r) == Offered(r) /\ r.fees \in Nat /\ r.invariant \in Nat

(* Both Pools share their hooks.                                           *)
LEMMA SameAnswers ==
  /\ Stable!Failure = Failure
  /\ \A x, y : Stable!Result(x, y) = Result(x, y)
  /\ \A r, x, y : Stable!WithFees(r, x, y) = WithFees(r, x, y)
  /\ \A x : Stable!Available(x) <=> Available(x)
  /\ \A x, y : Stable!Plus(x, y) = Plus(x, y) /\ Stable!Minus(x, y) = Minus(x, y)
BY DEF Stable!Failure, Failure, Stable!NoTokens, NoTokens, Stable!Tokens, Tokens, Stable!Result, Result,
   Stable!Reverted, Reverted, Stable!WithFees, WithFees, Stable!Available, Available,
   Stable!Plus, Plus, Stable!Minus, Minus

(* They mint and burn alike.                                               *)
LEMMA SameMints ==
  \A f, a, x : Stable!Minted(f, a, x) = Minted(f, a, x) /\ Stable!Burned(f, a, x) = Burned(f, a, x)
BY DEF Stable!Minted, Minted, Stable!Burned, Burned

(* A hook of the Stable Pool is one of the Pools in general.               *)
LEMMA SameHooks ==
  /\ \A who, r : Stable!Join(who, r) => Join(who, r)
  /\ \A who, to, r : Stable!Exit(who, to, r) => Exit(who, to, r)
  /\ \A who, to, d : Stable!RecoveryModeExit(who, to, d) => RecoveryModeExit(who, to, d)
  /\ \A i, o, x, y : Stable!Swap(i, o, x, y) => Swap(i, o, x, y)
  /\ \A to, x, y, z : Stable!Initialize(to, x, y, z) => Initialize(to, x, y, z)
  /\ \A x, y : Stable!UpdateFeeCache(x, y) => UpdateFeeCache(x, y)
  /\ \A x : Stable!DisableRecoveryMode(x) => DisableRecoveryMode(x)
<1>1. Stable!Initialized <=> Initialized
  BY SameInitialized
<1>2. Stable!settings = settings
  BY DEF Stable!settings, settings
<1>3. ASSUME NEW who, NEW r
      PROVE  Stable!Join(who, r) => Join(who, r)
  BY <1>1, <1>2, SameAnswers, SameMints DEF Stable!Join, Join, Stable!settings, settings
<1>4. ASSUME NEW who, NEW to, NEW r
      PROVE  Stable!Exit(who, to, r) => Exit(who, to, r)
  BY <1>1, <1>2, SameAnswers, SameMints DEF Stable!Exit, Exit, Stable!settings, settings
<1>5. ASSUME NEW who, NEW to, NEW d
      PROVE  Stable!RecoveryModeExit(who, to, d) => RecoveryModeExit(who, to, d)
  <2>1. \A x, y : Stable!ProportionalAmountsOut(x, y) = ProportionalAmountsOut(x, y)
    BY SameArithmetic DEF Stable!ProportionalAmountsOut, ProportionalAmountsOut, Stable!Tokens, Tokens,
       Stable!mulDown, mulDown, Stable!divDown, divDown
  <2>2. Stable!circulating = circulating
    BY DEF circulating, Stable!circulating, FoldFunction, Stable!FoldFunction,
           FoldFunctionOnSet, Stable!FoldFunctionOnSet, MapThenFoldSet, Stable!MapThenFoldSet
  <2> QED
    BY <1>1, <1>2, <2>1, <2>2, SameAnswers, SameMints
       DEF Stable!RecoveryModeExit, RecoveryModeExit, Stable!settings, settings
<1>6. ASSUME NEW i, NEW o, NEW x, NEW y
      PROVE  Stable!Swap(i, o, x, y) => Swap(i, o, x, y)
  BY <1>1, <1>2 DEF Stable!Swap, Swap, Stable!settings, settings
<1>7. ASSUME NEW to, NEW x, NEW y, NEW z
      PROVE  Stable!Initialize(to, x, y, z) => Initialize(to, x, y, z)
  BY <1>1, <1>2, SameAnswers, SameMints DEF Stable!Initialize, Initialize, Stable!settings, settings
<1>8. ASSUME NEW x, NEW y
      PROVE  Stable!UpdateFeeCache(x, y) => UpdateFeeCache(x, y)
  BY <1>1, SameMints DEF Stable!UpdateFeeCache, UpdateFeeCache
<1>9. ASSUME NEW x
      PROVE  Stable!DisableRecoveryMode(x) => DisableRecoveryMode(x)
  BY DEF Stable!DisableRecoveryMode, DisableRecoveryMode
<1> QED
  BY <1>3, <1>4, <1>5, <1>6, <1>7, <1>8, <1>9

(* Minting and burning keep holdings from below zero.                      *)
LEMMA HoldingsAreNat ==
  ASSUME NEW f \in [Accounts -> Nat], NEW who, NEW x \in Nat
  PROVE  /\ Minted(f, who, x) \in [Accounts -> Nat]
         /\ x <= f[who] => Burned(f, who, x) \in [Accounts -> Nat]
<1>1. Minted(f, who, x) \in [Accounts -> Nat]
  <2>1. Minted(f, who, x) = [a \in Accounts |-> IF a = who THEN f[who] + x ELSE f[a]]
    BY DEF Minted
  <2>2. \A a \in Accounts : (IF a = who THEN f[who] + x ELSE f[a]) \in Nat
    OBVIOUS
  <2> QED
    BY <2>1, <2>2
<1>2. ASSUME x <= f[who]
      PROVE  Burned(f, who, x) \in [Accounts -> Nat]
  <2>1. Burned(f, who, x) = [a \in Accounts |-> IF a = who THEN f[who] - x ELSE f[a]]
    BY DEF Burned
  <2>2. \A a \in Accounts : (IF a = who THEN f[who] - x ELSE f[a]) \in Nat
    BY <1>2
  <2> QED
    BY <2>1, <2>2
<1> QED
  BY <1>1, <1>2

(* A join leaves amounts that are not negative.                            *)
LEMMA JoinTypes ==
  ASSUME NEW who, NEW r, BaseTypeOK, Answered(r), Join(who, r)
  PROVE  BaseTypeOK'
<1> USE DEF BaseTypeOK, Answered, Offered, Tokens
<1>1. balances' = [i \in DOMAIN balances |-> balances[i] + r.amounts[i]]
  BY DEF Join, Plus
<1>2. balances' \in [DOMAIN balances' -> Nat]
  BY <1>1
<1>3. bpt' \in [Accounts -> Nat]
  BY HoldingsAreNat DEF Join
<1> QED
  BY <1>2, <1>3 DEF Join, settings

(* So does an exit.                                                        *)
LEMMA ExitTypes ==
  ASSUME NEW who, NEW to, NEW r, BaseTypeOK, Answered(r), Available(r.amounts), Exit(who, to, r)
  PROVE  BaseTypeOK'
<1> USE DEF BaseTypeOK, Answered, Offered, Tokens
<1>1. balances' = [i \in DOMAIN balances |-> balances[i] - r.amounts[i]]
  BY DEF Exit, Minus
<1>2. balances' \in [DOMAIN balances' -> Nat]
  <2>1. \A i \in DOMAIN balances : balances[i] - r.amounts[i] \in Nat
    BY DEF Available
  <2> QED
    BY <1>1, <2>1
<1>3. bpt' \in [Accounts -> Nat]
  <2>1. r.bpt <= bpt[who] /\ bpt' = Minted(Burned(bpt, who, r.bpt), Collector, r.fees)
    BY DEF Exit
  <2> QED
    BY <2>1, HoldingsAreNat
<1> QED
  BY <1>2, <1>3 DEF Exit, settings

(* In Recovery Mode nothing is checked, but nobody gets more than there    *)
(* is, for nobody has more Pool tokens than there are.                     *)
LEMMA RecoveryExitTypes ==
  ASSUME NEW who \in Accounts, NEW to, NEW d, d.bptIn \in Nat, BaseTypeOK, RecoveryModeExit(who, to, d)
  PROVE  BaseTypeOK'
<1> USE DEF BaseTypeOK, Tokens
<1> DEFINE out == ProportionalAmountsOut(d.bptIn, circulating)
<1>1. balances' = [i \in DOMAIN balances |-> balances[i] - out[i]]
  BY DEF RecoveryModeExit, Minus
<1>2. circulating \in Nat \ {0} /\ d.bptIn <= circulating
  <2> DEFINE c == circulating
  <2>1. c \in Nat /\ c > 0 /\ bpt[who] <= c /\ bpt[who] \in Nat /\ d.bptIn <= bpt[who]
    BY CirculatingIs DEF RecoveryModeExit, Initialized
  <2> HIDE DEF c
  <2>2. c \in Nat \ {0} /\ d.bptIn <= c
    BY <2>1
  <2> QED
    BY <2>2 DEF c
<1>3. ASSUME NEW i \in Tokens
      PROVE  balances[i] - out[i] \in Nat
  <2> DEFINE c == circulating
             x == d.bptIn
             b == balances[i]
             o == out[i]
  <2>1. o * c <= b * x
    BY <1>2, <1>3, ProportionalIsFair
  <2>2. o \in Nat
    <3>1. o = mulDown(b, divDown(x, c))
      BY <1>3 DEF ProportionalAmountsOut
    <3> HIDE DEF out
    <3>2. b \in Nat /\ c \in Nat /\ c > 0 /\ x \in Nat
      BY <1>2, <1>3
    <3> HIDE DEF b, c, x, o
    <3>3. divDown(x, c) \in Nat
      BY <3>2, SharesAreNat
    <3> QED
      BY <3>1, <3>2, <3>3, SharesAreNat
  <2>3. b \in Nat /\ c \in Nat \ {0} /\ x \in Nat /\ x <= c
    BY <1>2, <1>3
  <2> HIDE DEF b, c, x, o
  <2>4. b * x <= b * c
    BY <2>3
  <2>5. o * c <= b * c
    BY <2>1, <2>2, <2>3, <2>4
  <2>6. o <= b
    BY <2>2, <2>3, <2>5
  <2> QED
    BY <2>2, <2>3, <2>6 DEF b, o
<1>4. balances' \in [DOMAIN balances' -> Nat]
  BY <1>1, <1>3
<1>5. bpt' \in [Accounts -> Nat]
  <2>1. d.bptIn <= bpt[who] /\ bpt' = Burned(bpt, who, d.bptIn)
    BY DEF RecoveryModeExit
  <2> QED
    BY <2>1, HoldingsAreNat
<1> QED
  BY <1>4, <1>5 DEF RecoveryModeExit, settings

(* A swap takes no more than there is.                                     *)
LEMMA SwapTypes ==
  ASSUME NEW in, NEW out, NEW x, NEW y, BaseTypeOK, Swap(in, out, x, y)
  PROVE  BaseTypeOK'
<1> USE DEF BaseTypeOK, Tokens
<1>1. x \in Nat /\ y \in Nat /\ in # out /\ y <= balances[out]
      /\ balances' = [balances EXCEPT ![in] = @ + x, ![out] = @ - y]
  BY DEF Swap
<1>2. balances' = [i \in DOMAIN balances |-> IF i = out THEN balances[i] - y
                                             ELSE IF i = in THEN balances[i] + x ELSE balances[i]]
  BY <1>1
<1>3. \A i \in DOMAIN balances : (IF i = out THEN balances[i] - y
                                  ELSE IF i = in THEN balances[i] + x ELSE balances[i]) \in Nat
  BY <1>1
<1>4. balances' \in [DOMAIN balances' -> Nat]
  BY <1>2, <1>3
<1> QED
  BY <1>4 DEF Swap, settings

(* The first join.                                                         *)
LEMMA InitializeTypes ==
  ASSUME NEW to, NEW amounts, NEW x \in Nat, NEW v \in Nat, \A i \in Tokens : amounts[i] \in Nat,
         BaseTypeOK, Initialize(to, amounts, x, v)
  PROVE  BaseTypeOK'
<1> USE DEF BaseTypeOK, Tokens
<1>1. balances' = [i \in DOMAIN balances |-> balances[i] + amounts[i]]
  BY DEF Initialize, Plus
<1>2. balances' \in [DOMAIN balances' -> Nat]
  BY <1>1
<1>3. bpt' \in [Accounts -> Nat]
  <2>1. MinimumBpt \in Nat /\ x - MinimumBpt \in Nat
        /\ bpt' = Minted(Minted(bpt, Zero, MinimumBpt), to, x - MinimumBpt)
    BY BasePoolAssumption DEF Initialize
  <2> QED
    BY <2>1, HoldingsAreNat
<1> QED
  BY <1>2, <1>3 DEF Initialize, settings

(* The payment of what is due, and of nothing.                             *)
LEMMA FeeTypes ==
  ASSUME NEW due \in Nat, NEW v \in Nat, BaseTypeOK,
         UpdateFeeCache(due, v) \/ DisableRecoveryMode(v)
  PROVE  BaseTypeOK'
<1> USE DEF BaseTypeOK, Tokens
<1>1. CASE UpdateFeeCache(due, v)
  <2>1. bpt' \in [Accounts -> Nat]
    BY <1>1, HoldingsAreNat DEF UpdateFeeCache
  <2> QED
    BY <1>1, <2>1 DEF UpdateFeeCache
<1>2. CASE DisableRecoveryMode(v)
  BY <1>2 DEF DisableRecoveryMode
<1> QED
  BY <1>1, <1>2

---------------------------------------------------------------------------
(* What each step does to the protocol's fees.                             *)

Opened == bpt[Zero] >= MinimumBpt
Untouched == bpt = [a \in Accounts |-> 0] /\ balances = [i \in DOMAIN Weights |-> 0]

(* A Weighted Pool divides by the invariant it remembers.                  *)
Divisible == part = "weighted" => lastInvariant # 0
Remembers == lastInvariant = CurrentInvariant /\ Divisible

(* Nothing that fees depend on changes; Recovery Mode may begin.           *)
Keeps ==
    /\ UNCHANGED <<balances, bpt, lastInvariant, traded, lastAmp>>
    /\ recovery => recovery'
Trades == Initialized /\ UNCHANGED <<bpt, lastInvariant>> /\ traded' = TRUE
Settles ==
    /\ Remembers'
    /\ \/ Initialized /\ bpt'[Zero] >= bpt[Zero]
       \/ UNCHANGED <<balances, bpt>>
Leaves ==
    /\ Initialized /\ recovery /\ recovery'
    /\ bpt'[Zero] = bpt[Zero] /\ UNCHANGED lastInvariant
Opens == ~Initialized /\ (Untouched => Opened' /\ Remembers')

PoolStep == Keeps \/ Trades \/ Settles \/ Leaves \/ Opens

(* What fees and amounts are computed from: a Pool that is not initialized *)
(* is as it was created.                                                   *)
Ready ==
    /\ BaseTypeOK
    /\ Initialized => Divisible
    /\ ~Initialized => Untouched

(* What is locked makes the supply positive.                               *)
LEMMA SupplyIs ==
  ASSUME NEW f \in [Accounts -> Nat]
  PROVE  /\ f[Zero] >= MinimumBpt => SumOf(f, Accounts) > 0
         /\ (\A a \in Accounts : f[a] = 0) => SumOf(f, Accounts) = 0
<1>1. IsFiniteSet(Accounts) /\ Zero \in Accounts /\ MinimumBpt \in Nat \ {0}
  BY BasePoolAssumption
<1>2. SumOf(f, Accounts) \in Nat /\ f[Zero] <= SumOf(f, Accounts)
  BY <1>1, SumOfNat
<1>3. (\A a \in Accounts : f[a] = 0) => SumOf(f, Accounts) = 0
  BY <1>1, SumOfZeros
<1> QED
  BY <1>1, <1>2, <1>3

(* A Pool is initialized when MinimumBpt is locked.                        *)
LEMMA InitializedIs ==
  ASSUME bpt \in [Accounts -> Nat]
  PROVE  /\ Opened => Initialized
         /\ Untouched => ~Initialized
<1>1. circulating = SumOf(bpt, Accounts)
  <2>1. circulating = SumOf(bpt, DOMAIN bpt)
    BY DEF circulating, FoldFunction, FoldFunctionOnSet, SumOf, MapThenSumSet
  <2> QED
    BY <2>1
<1>2. Untouched => \A a \in Accounts : bpt[a] = 0
  BY DEF Untouched
<1> DEFINE s == circulating
<1>3. (Opened => s > 0) /\ (Untouched => s = 0)
  <2> DEFINE t == SumOf(bpt, Accounts)
  <2>1. (bpt[Zero] >= MinimumBpt => t > 0) /\ ((\A a \in Accounts : bpt[a] = 0) => t = 0)
    BY SupplyIs
  <2> HIDE DEF t
  <2>2. s = t
    BY <1>1 DEF t
  <2> HIDE DEF s
  <2> QED
    BY <1>2, <2>1, <2>2 DEF Opened
<1>4. Initialized <=> s > 0
  BY DEF Initialized
<1> HIDE DEF s
<1> QED
  BY <1>3, <1>4

(* Minting takes nothing from what is locked at the zero address.          *)
LEMMA MintingKeepsLocked ==
  ASSUME NEW f \in [Accounts -> Nat], NEW fees, NEW who, NEW r \in Nat
  PROVE  /\ [f EXCEPT ![Collector] = @ + fees][Zero] = f[Zero]
         /\ [[f EXCEPT ![Collector] = @ + fees] EXCEPT ![who] = @ + r][Zero] >= f[Zero]
<1>1. Zero \in Accounts /\ Collector # Zero /\ f[Zero] \in Nat
  BY BasePoolAssumption
<1>2. [f EXCEPT ![Collector] = @ + fees]
          = [a \in Accounts |-> IF a = Collector THEN f[Collector] + fees ELSE f[a]]
  OBVIOUS
<1> DEFINE g == [a \in Accounts |-> IF a = Collector THEN f[Collector] + fees ELSE f[a]]
<1>3. g[Zero] = f[Zero] /\ DOMAIN g = Accounts
  BY <1>1
<1> HIDE DEF g
<1>4. [g EXCEPT ![who] = @ + r][Zero] = IF who = Zero THEN g[Zero] + r ELSE g[Zero]
  BY <1>1, <1>3
<1> QED
  BY <1>1, <1>2, <1>3, <1>4 DEF g

(* What is minted first is locked.                                         *)
LEMMA OpeningLocks ==
  ASSUME NEW who, NEW m \in Nat, m >= MinimumBpt
  PROVE  LET none == [a \in Accounts |-> 0]
         IN  [[none EXCEPT ![Zero] = @ + MinimumBpt] EXCEPT ![who] = @ + (m - MinimumBpt)][Zero]
                 >= MinimumBpt
<1>1. Zero \in Accounts /\ MinimumBpt \in Nat
  BY BasePoolAssumption
<1> DEFINE none == [a \in Accounts |-> 0]
           g == [none EXCEPT ![Zero] = @ + MinimumBpt]
<1>2. g[Zero] = MinimumBpt /\ DOMAIN g = Accounts
  BY <1>1
<1> HIDE DEF g
<1>3. [g EXCEPT ![who] = @ + (m - MinimumBpt)][Zero]
          = IF who = Zero THEN g[Zero] + (m - MinimumBpt) ELSE g[Zero]
  BY <1>1, <1>2
<1> QED
  BY <1>1, <1>2, <1>3 DEF g

(* Nor does burning, for nobody signs as that address.                     *)
LEMMA BurningKeepsLocked ==
  ASSUME NEW f \in [Accounts -> Nat], NEW fees, NEW who, NEW r, who # Zero
  PROVE  /\ [f EXCEPT ![who] = @ - r][Zero] = f[Zero]
         /\ [[f EXCEPT ![who] = @ - r] EXCEPT ![Collector] = @ + fees][Zero] = f[Zero]
<1>1. Zero \in Accounts /\ Collector # Zero /\ f[Zero] \in Nat
  BY BasePoolAssumption
<1> DEFINE g == [f EXCEPT ![who] = @ - r]
<1>2. g[Zero] = f[Zero] /\ DOMAIN g = Accounts
  BY <1>1
<1> HIDE DEF g
<1>3. [g EXCEPT ![Collector] = @ + fees][Zero] = g[Zero]
  BY <1>1, <1>2
<1> QED
  BY <1>2, <1>3 DEF g

(* A hook reverts or answers with an amount of Pool tokens for amounts of  *)
(* tokens.                                                                 *)
LEMMA ResultIs ==
  ASSUME NEW x, NEW y
  PROVE  Result(x, y) = Failure \/ Offered(Result(x, y))
BY DEF Result, Failure, Offered

(* So do joins and exits of a Weighted Pool.                               *)
LEMMA WeightedAnswers ==
  ASSUME NEW data, NEW supply
  PROVE  /\ doJoin(data, supply) = Failure \/ Offered(doJoin(data, supply))
         /\ doExit(data, supply) = Failure \/ Offered(doExit(data, supply))
<1> DEFINE F(r) == r = Failure \/ Offered(r)
<1>1. F(joinExactTokensIn(data, supply)) /\ F(joinTokenIn(data, supply))
      /\ F(exitTokenOut(data, supply)) /\ F(exitExactTokensOut(data, supply))
  BY ResultIs DEF joinExactTokensIn, joinTokenIn, exitTokenOut, exitExactTokensOut, AtLeast, AtMost
<1>2. \A x, y : F(Result(x, y))
  BY ResultIs
<1>3. F(Failure)
  OBVIOUS
<1>4. F(doJoin(data, supply))
  <2> HIDE DEF F
  <2> QED
    BY <1>1, <1>2, <1>3 DEF doJoin
<1>5. F(doExit(data, supply))
  <2> HIDE DEF F
  <2> QED
    BY <1>1, <1>2, <1>3 DEF doExit
<1> QED
  BY <1>4, <1>5

(* What a Weighted Pool answers when it settles: the fees are amounts, and *)
(* the invariant is one to divide by.                                      *)
LEMMA WeightedSettlement ==
  ASSUME NEW r, Offered(r), NEW v, NEW preSupply \in Nat \ {0}, NEW postSupply \in Nat,
         NEW due \in Nat, Positive(Invariant(balances)), feeCache \in ProtocolFees,
         SettledAt(r, preSupply, postSupply, v, due) # Failure
  PROVE  LET a == SettledAt(r, preSupply, postSupply, v, due)
         IN  Answered(a) /\ a.bpt = r.bpt /\ a.amounts = r.amounts /\ a.invariant = v /\ v # 0
<1> DEFINE pre == Invariant(balances)
           growth == divDown(v, pre)
           fees == getPostJoinExitProtocolFees(growth, preSupply, postSupply)
           a == SettledAt(r, preSupply, postSupply, v, due)
<1>1. v \in Nat \ {0} /\ a = WithFees(r, due + fees, v)
  BY DEF SettledAt, Positive
<1>2. growth \in Nat
  <2>1. pre \in Nat \ {0}
    BY DEF Positive
  <2> HIDE DEF pre
  <2> QED
    BY <1>1, <2>1, SharesAreNat
<1> HIDE DEF growth
<1>3. fees \in Nat
  BY <1>2, WeightedFeesAreNat
<1> HIDE DEF fees, a
<1>4. a.bpt = r.bpt /\ a.amounts = r.amounts /\ a.fees = due + fees /\ a.invariant = v
  BY <1>1 DEF WithFees
<1>5. due + fees \in Nat
  BY <1>3
<1> QED
  BY <1>1, <1>4, <1>5 DEF Answered, Offered, a

(* What is due, and the supply with it, before a join or an exit.          *)
LEMMA WeightedSupply ==
  ASSUME Ready, Initialized, part = "weighted", Positive(Invariant(balances))
  PROVE  dueProtocolFees \in Nat /\ totalSupply + dueProtocolFees \in Nat \ {0}
<1>1. lastInvariant \in Nat \ {0} /\ bpt \in [Accounts -> Nat] /\ feeCache \in ProtocolFees
  BY DEF Ready, Divisible, BaseTypeOK
<1>2. dueProtocolFees \in Nat
  <2> DEFINE v == Invariant(balances)
  <2>1. v \in Nat
    BY DEF Positive
  <2> HIDE DEF v
  <2>2. getPreJoinExitProtocolFees(v) \in Nat
    BY <1>1, <2>1, WeightedDueIsNat
  <2> QED
    BY <2>2 DEF dueProtocolFees, v
<1> DEFINE c == circulating
           due == dueProtocolFees
<1>3. c \in Nat /\ c > 0
  BY <1>1, CirculatingIs DEF Initialized
<1> HIDE DEF c, due
<1>4. due \in Nat
  BY <1>2 DEF due
<1>5. due \in Nat /\ c + due \in Nat \ {0}
  BY <1>3, <1>4
<1> QED
  BY <1>5 DEF c, due, totalSupply

(* The invariant that a join or an exit remembers is that of the balances  *)
(* it leaves.                                                              *)
LEMMA WeightedJoins ==
  ASSUME NEW data, NEW who, Join(who, onJoin(data)), part = "weighted", part' = "weighted", Ready
  PROVE  Settles /\ BaseTypeOK'
<1> DEFINE due == dueProtocolFees
           supply == totalSupply + due
           r == doJoin(data, supply)
           v == Invariant(Plus(balances, r.amounts))
           a == onJoin(data)
<1>1. a # Failure /\ Initialized /\ balances' = Plus(balances, a.amounts)
      /\ bpt' = Minted(Minted(bpt, Collector, a.fees), who, a.bpt)
      /\ lastInvariant' = a.invariant
  BY DEF Join
<1>2. Positive(Invariant(balances)) /\ a = Joined(r, supply, due)
  BY <1>1 DEF onJoin, JoinPaying
<1>3. r # Failure /\ a = SettledAt(r, supply, supply + r.bpt, v, due)
  <2> HIDE DEF r, a, supply, due
  <2> QED
    BY <1>1, <1>2 DEF Joined, v
<1>4. Offered(r)
  BY <1>3, WeightedAnswers
<1>5. due \in Nat /\ supply \in Nat \ {0}
  BY <1>1, <1>2, WeightedSupply
<1>6. Answered(a) /\ a.bpt = r.bpt /\ a.amounts = r.amounts /\ a.invariant = v /\ v # 0
  <2> HIDE DEF r, a, supply, due, v
  <2>1. supply + r.bpt \in Nat
    BY <1>4, <1>5 DEF Offered
  <2>2. feeCache \in ProtocolFees
    BY DEF Ready, BaseTypeOK
  <2> QED
    BY <1>1, <1>2, <1>3, <1>4, <1>5, <2>1, <2>2, WeightedSettlement
<1> HIDE DEF r, a, supply, due
<1>7. bpt'[Zero] >= bpt[Zero]
  BY <1>1, <1>6, MintingKeepsLocked DEF Minted, Answered, Offered, Ready, BaseTypeOK
<1>8. lastInvariant' = Invariant(balances') /\ lastInvariant' # 0
  BY <1>1, <1>6 DEF v
<1>9. Settles
  BY <1>1, <1>7, <1>8 DEF Settles, Remembers, Divisible, CurrentInvariant
<1>10. BaseTypeOK'
  BY <1>6, JoinTypes DEF Ready, a
<1> QED
  BY <1>9, <1>10

(* The same of an exit, which burns none of the Pool tokens that are       *)
(* locked.                                                                 *)
LEMMA WeightedExits ==
  ASSUME NEW data, NEW who, NEW to, Exit(who, to, onExit(data)), who # Zero,
         part = "weighted", part' = "weighted", Ready
  PROVE  Settles /\ BaseTypeOK'
<1> DEFINE due == dueProtocolFees
           supply == totalSupply + due
           r == doExit(data, supply)
           v == Invariant(Minus(balances, r.amounts))
           a == onExit(data)
<1>1. a # Failure /\ Initialized /\ balances' = Minus(balances, a.amounts)
      /\ bpt' = Minted(Burned(bpt, who, a.bpt), Collector, a.fees)
      /\ lastInvariant' = a.invariant
  BY DEF Exit
<1>2. Positive(Invariant(balances)) /\ a = Exited(r, supply, due)
  BY <1>1 DEF onExit, ExitPaying
<1>3. r # Failure /\ ~(r.bpt > supply) /\ Available(r.amounts)
      /\ a = SettledAt(r, supply, supply - r.bpt, v, due)
  <2> HIDE DEF r, a, supply, due
  <2> QED
    BY <1>1, <1>2 DEF Exited, v
<1>4. Offered(r)
  BY <1>3, WeightedAnswers
<1>5. due \in Nat /\ supply \in Nat \ {0}
  BY <1>1, <1>2, WeightedSupply
<1>6. Answered(a) /\ a.bpt = r.bpt /\ a.amounts = r.amounts /\ a.invariant = v /\ v # 0
  <2> HIDE DEF r, a, supply, due, v
  <2>1. supply - r.bpt \in Nat
    BY <1>3, <1>4, <1>5 DEF Offered
  <2>2. feeCache \in ProtocolFees
    BY DEF Ready, BaseTypeOK
  <2> QED
    BY <1>1, <1>2, <1>3, <1>4, <1>5, <2>1, <2>2, WeightedSettlement
<1> HIDE DEF r, a, supply, due
<1>7. bpt'[Zero] = bpt[Zero] /\ bpt[Zero] \in Nat
  BY <1>1, BurningKeepsLocked, BasePoolAssumption DEF Minted, Burned, Ready, BaseTypeOK
<1>8. lastInvariant' = Invariant(balances') /\ lastInvariant' # 0
  BY <1>1, <1>6 DEF v
<1>9. Settles
  BY <1>1, <1>7, <1>8 DEF Settles, Remembers, Divisible, CurrentInvariant
<1>10. BaseTypeOK'
  <2>1. Available(a.amounts)
    BY <1>3, <1>6
  <2> QED
    BY <1>6, <2>1, ExitTypes DEF Ready, a
<1> QED
  BY <1>9, <1>10

(* The signer is an account that is not the zero address.                  *)
LEMMA SignersAreNotZero ==
  ASSUME NEW D, \A d \in D : "from" \notin DOMAIN d
  PROVE  /\ \A p \in Requests(D) : Sender(p) \in Accounts \ {Zero}
         /\ \A p \in Stable!Requests(D) : Stable!Sender(p) \in Accounts \ {Zero}
<1>1. Stable!Requests(D) = Requests(D)
  BY DEF Requests, Stable!Requests, With, Stable!With
<1>2. ASSUME NEW who \in Parties, NEW d \in D
      PROVE  LET s == Sender(With(who, d))
             IN  s \in Accounts \ {Zero} /\ Stable!Sender(With(who, d)) = s
  <2> DEFINE p == With(who, d)
  <2>1. DOMAIN p = DOMAIN who \cup DOMAIN d
    BY DEF With
  <2>2. "from" \in DOMAIN p => "from" \in DOMAIN who /\ p["from"] = who["from"]
    BY <2>1 DEF With
  <2>3. "from" \in DOMAIN who => who["from"] \in Accounts \ {Zero}
    BY ClientAssumption
  <2>4. Deployer \in Accounts \ {Zero}
    BY ClientAssumption
  <2> HIDE DEF p
  <2>5. Sender(p) \in Accounts \ {Zero} /\ Stable!Sender(p) = Sender(p)
    BY <2>2, <2>3, <2>4 DEF Sender, Stable!Sender, Field, Stable!Field
  <2> QED
    BY <2>5 DEF p
<1> QED
  BY <1>1, <1>2 DEF Requests

(* No request for amounts names a sender.                                  *)
LEMMA NoSender ==
  ASSUME NEW A, NEW B, NEW C
  PROVE  /\ \A d \in [amountsIn : A] : "from" \notin DOMAIN d
         /\ \A d \in [amountsOut : A] : "from" \notin DOMAIN d
         /\ \A d \in [bptIn : A] : "from" \notin DOMAIN d
         /\ \A d \in [token : A, bptIn : B] : "from" \notin DOMAIN d
         /\ \A d \in [in : A, out : B, amount : C] : "from" \notin DOMAIN d
OBVIOUS

(* What a request asks to burn is among the amounts, whoever makes it.     *)
LEMMA AsksFor ==
  ASSUME NEW B \in SUBSET Nat
  PROVE  /\ \A p \in Requests([bptIn : B]) : p.bptIn \in Nat
         /\ \A p \in Stable!Requests([bptIn : B]) : p.bptIn \in Nat
<1>1. Stable!Requests([bptIn : B]) = Requests([bptIn : B])
  BY DEF Requests, Stable!Requests, With, Stable!With
<1>2. ASSUME NEW who \in Parties, NEW d \in [bptIn : B]
      PROVE  With(who, d).bptIn \in Nat
  <2>1. "bptIn" \notin DOMAIN who /\ DOMAIN d = {"bptIn"} /\ d.bptIn \in Nat
    BY ClientAssumption
  <2> QED
    BY <2>1 DEF With
<1>3. ASSUME NEW p \in Requests([bptIn : B])
      PROVE  p.bptIn \in Nat
  <2>1. PICK who \in Parties, d \in [bptIn : B] : p = With(who, d)
    BY DEF Requests
  <2> QED
    BY <1>2, <2>1
<1> QED
  BY <1>1, <1>3
(* Governance sets what it may.                                            *)
LEMMA GovernanceTypes ==
  ASSUME NEW rate, BaseTypeOK, Governance(rate)
  PROVE  BaseTypeOK'
<1> USE DEF BaseTypeOK, Tokens
<1>1. ASSUME NEW p \in ProtocolFees, setFeeTypePercentage(p)
      PROVE  BaseTypeOK'
  BY <1>1 DEF setFeeTypePercentage
<1>2. ASSUME NEW p, setSwapFeePercentage(p)
      PROVE  BaseTypeOK'
  BY <1>2 DEF setSwapFeePercentage
<1>3. ASSUME SetPaused(~paused)
      PROVE  BaseTypeOK'
  BY <1>3 DEF SetPaused
<1>4. ASSUME enableRecoveryMode
      PROVE  BaseTypeOK'
  BY <1>4 DEF enableRecoveryMode
<1> QED
  BY <1>1, <1>2, <1>3, <1>4 DEF Governance, Administer

(* A step of the Weighted Pool's client.                                   *)
WeightedStep == ClientNext /\ UNCHANGED <<stableVars, stableCalls, part>>

(* Every step of it is a PoolStep, and keeps the types.                    *)
LEMMA WeightedSteps ==
  ASSUME Ready, WeightedStep, part = "weighted"
  PROVE  PoolStep /\ BaseTypeOK'
<1>1. part' = "weighted" /\ bpt \in [Accounts -> Nat] /\ lastAmp' = lastAmp
      /\ balances \in [Tokens -> Nat] /\ BaseTypeOK
  BY DEF WeightedStep, stableVars, Ready, BaseTypeOK
<1>2. ASSUME init(InitRequest)
      PROVE  Opens /\ BaseTypeOK'
  <2> DEFINE a == toList(InitRequest.initialBalances)
             v == Invariant(a)
             m == v * Len(Weights)
  <2>1. Initialize(To(InitRequest), a, m, v) /\ Positive(v)
    BY <1>2 DEF init, InitializePool, InitializeAt, buildInitParams, joinInit
  <2>2. ~Initialized /\ Untouched
    BY <2>1 DEF Initialize, Ready
  <2>3. a \in [DOMAIN Weights -> Nat] /\ Tokens = DOMAIN Weights
    BY <2>2, RequestAssumption DEF Untouched, toList, Tokens
  <2> HIDE DEF a
  <2>4. Plus(balances, a) = a
    BY <2>2, <2>3 DEF Plus, Untouched
  <2>5. lastInvariant' = v /\ balances' = a /\ m >= MinimumBpt
        /\ bpt' = Minted(Minted(bpt, Zero, MinimumBpt), To(InitRequest), m - MinimumBpt)
    BY <2>1, <2>4 DEF Initialize
  <2>6. lastInvariant' = Invariant(balances')
    BY <2>5
  <2>7. v \in Nat \ {0}
    BY <2>1 DEF Positive
  <2>8. m \in Nat
    <3>1. Weights \in Seq(1..One)
      BY WeightAssumption
    <3>2. Len(Weights) \in Nat
      BY <3>1
    <3> HIDE DEF v
    <3> QED
      BY <2>7, <3>2
  <2> HIDE DEF m
  <2>9. Opened'
    BY <2>2, <2>5, <2>8, OpeningLocks DEF Opened, Untouched, Minted
  <2>10. Remembers'
    <3>1. lastInvariant' # 0
      BY <2>5, <2>7
    <3> QED
      BY <1>1, <2>6, <3>1 DEF Remembers, Divisible, CurrentInvariant
  <2> HIDE DEF v
  <2>11. BaseTypeOK'
    <3>1. v \in Nat /\ \A i \in Tokens : a[i] \in Nat
      BY <2>3, <2>7
    <3> QED
      BY <1>1, <2>1, <2>8, <3>1, InitializeTypes
  <2> QED
    BY <2>2, <2>9, <2>10, <2>11 DEF Opens
<1>3. ASSUME NEW params \in JoinGivenInWeightedPool, joinGivenIn(params)
      PROVE  Settles /\ BaseTypeOK'
  BY <1>1, <1>3, WeightedJoins DEF joinGivenIn, JoinForBpt, joinPool
<1>4. ASSUME NEW params \in JoinGivenOutWeightedPool, joinGivenOut(params)
      PROVE  Settles /\ BaseTypeOK'
  BY <1>1, <1>4, WeightedJoins DEF joinGivenOut, JoinForToken, joinPool
<1>5. ASSUME NEW params \in JoinAllGivenOutWeightedPool, joinAllGivenOut(params)
      PROVE  Settles /\ BaseTypeOK'
  BY <1>1, <1>5, WeightedJoins DEF joinAllGivenOut, joinPool
<1>6. ASSUME NEW params \in ExitGivenOutWeightedPool, exitGivenOut(params)
      PROVE  Settles /\ BaseTypeOK'
  <2>1. Sender(params) # Zero
    BY SignersAreNotZero, NoSender DEF ExitGivenOutWeightedPool
  <2> QED
    BY <1>1, <1>6, <2>1, WeightedExits DEF exitGivenOut, ExitForBpt, exitPool
<1>7. ASSUME NEW params \in SingleExitGivenInWeightedPool, singleExitGivenIn(params)
      PROVE  Settles /\ BaseTypeOK'
  <2>1. Sender(params) # Zero
    BY SignersAreNotZero, NoSender DEF SingleExitGivenInWeightedPool
  <2> QED
    BY <1>1, <1>7, <2>1, WeightedExits DEF singleExitGivenIn, ExitForToken, exitPool
<1>8. ASSUME NEW params \in MultiExitGivenInWeightedPool
      PROVE  /\ multiExitGivenIn(params) => Settles /\ BaseTypeOK'
             /\ recoveryExit(params) => Leaves /\ BaseTypeOK'
  <2>1. Sender(params) \in Accounts /\ Sender(params) # Zero
    BY SignersAreNotZero, NoSender DEF MultiExitGivenInWeightedPool
  <2>2. multiExitGivenIn(params) => Settles /\ BaseTypeOK'
    BY <1>1, <2>1, WeightedExits DEF multiExitGivenIn, exitPool
  <2>3. ASSUME recoveryExit(params)
        PROVE  Leaves /\ BaseTypeOK'
    <3> DEFINE d == buildRecoveryModeExitParams(params)
    <3>1. RecoveryModeExit(Sender(params), To(params), d)
      BY <2>3 DEF recoveryExit
    <3>2. d.bptIn \in Nat
      BY AsksFor, ClientAssumption
         DEF MultiExitGivenInWeightedPool, buildRecoveryModeExitParams, recoveryModeExit
    <3> HIDE DEF d
    <3>3. Leaves
      BY <1>1, <2>1, <3>1, BurningKeepsLocked DEF RecoveryModeExit, Leaves, Burned, settings
    <3>4. BaseTypeOK'
      BY <1>1, <2>1, <3>1, <3>2, RecoveryExitTypes
    <3> QED
      BY <3>3, <3>4
  <2> QED
    BY <2>2, <2>3
<1>9. ASSUME NEW params, swapGivenIn(params) \/ swapGivenOut(params)
      PROVE  Trades /\ BaseTypeOK'
  <2>1. PICK in, out, x, y : Swap(in, out, x, y)
    BY <1>9 DEF swapGivenIn, swapGivenOut, SwapForToken, SwapForExactToken
  <2>2. Trades
    BY <2>1 DEF Swap, Trades
  <2> QED
    BY <1>1, <2>1, <2>2, SwapTypes
<1>10. ASSUME NEW succeeds, NEW record, Queried(succeeds, record)
       PROVE  Keeps /\ BaseTypeOK'
  <2>1. UNCHANGED baseVars
    BY <1>10 DEF Queried
  <2>2. BaseTypeOK'
    BY <1>1, <2>1 DEF BaseTypeOK, Tokens, baseVars
  <2> QED
    BY <1>1, <2>1, <2>2 DEF Keeps, baseVars
<1>11. ASSUME NEW params, \/ queryJoinGivenIn(params) \/ queryJoinGivenOut(params)
                         \/ queryJoinAllGivenOut(params) \/ queryExitGivenOut(params)
                         \/ querySingleExitGivenIn(params) \/ queryMultiExitGivenIn(params)
       PROVE  Keeps /\ BaseTypeOK'
  BY <1>10, <1>11 DEF queryJoinGivenIn, queryJoinGivenOut, queryJoinAllGivenOut, queryExitGivenOut,
         querySingleExitGivenIn, queryMultiExitGivenIn, QueryForBpt, QueryForExactBpt,
         QueryForExactTokens, QueryForToken, Query, QueryAmounts
<1>12. ASSUME Administer(updateProtocolFeePercentageCache, Rate)
       PROVE  Settles /\ BaseTypeOK'
  <2> DEFINE v == Invariant(balances)
  <2>1. UpdateFeeCache(dueProtocolFees, v) /\ Positive(v)
    BY <1>12 DEF Administer, updateProtocolFeePercentageCache
  <2>2. Initialized /\ bpt' = Minted(bpt, Collector, dueProtocolFees)
        /\ lastInvariant' = v /\ balances' = balances
    BY <2>1 DEF UpdateFeeCache
  <2>3. bpt'[Zero] = bpt[Zero] /\ bpt[Zero] \in Nat
    BY <1>1, <2>2, MintingKeepsLocked, BasePoolAssumption DEF Minted
  <2>4. lastInvariant' = Invariant(balances')
    BY <2>2
  <2>5. v \in Nat \ {0}
    BY <2>1 DEF Positive
  <2>6. dueProtocolFees \in Nat
    BY <2>1, <2>2, WeightedSupply
  <2>7. Remembers'
    <3>1. lastInvariant' # 0
      BY <2>2, <2>5
    <3> QED
      BY <1>1, <2>4, <3>1 DEF Remembers, Divisible, CurrentInvariant
  <2> HIDE DEF v
  <2>8. BaseTypeOK'
    BY <1>1, <2>1, <2>5, <2>6, FeeTypes
  <2> QED
    BY <2>2, <2>3, <2>7, <2>8 DEF Settles
<1>13. ASSUME Administer(disableRecoveryMode, Rate)
       PROVE  Settles /\ BaseTypeOK'
  <2> DEFINE v == Invariant(balances)
  <2>1. DisableRecoveryMode(v) /\ Positive(v)
    BY <1>13 DEF Administer, disableRecoveryMode
  <2>2. lastInvariant' = v /\ balances' = balances /\ bpt' = bpt
    BY <2>1 DEF DisableRecoveryMode
  <2>3. lastInvariant' = Invariant(balances')
    BY <2>2
  <2>4. v \in Nat \ {0}
    BY <2>1 DEF Positive
  <2>5. Remembers'
    <3>1. lastInvariant' # 0
      BY <2>2, <2>4
    <3> QED
      BY <1>1, <2>3, <3>1 DEF Remembers, Divisible, CurrentInvariant
  <2> HIDE DEF v
  <2>6. BaseTypeOK'
    BY <1>1, <2>1, <2>4, FeeTypes
  <2> QED
    BY <2>2, <2>5, <2>6 DEF Settles
<1>14. ASSUME Governance(Rate)
       PROVE  Keeps /\ BaseTypeOK'
  <2>1. Keeps
    BY <1>1, <1>14 DEF Governance, Administer, setFeeTypePercentage, setSwapFeePercentage, SetPaused,
           enableRecoveryMode, Keeps
  <2>2. BaseTypeOK'
    BY <1>1, <1>14, GovernanceTypes
  <2> QED
    BY <2>1, <2>2
<1>15. ClientNext
  BY DEF WeightedStep
<1> QED
  BY <1>2, <1>3, <1>4, <1>5, <1>6, <1>7, <1>8, <1>9, <1>11, <1>12, <1>13, <1>14, <1>15
     DEF ClientNext, PoolStep

---------------------------------------------------------------------------
(* The same of the Composable Stable Pool.                                 *)

(* What an update of the amplification parameter keeps, with what the      *)
(* parameter is between two updates.                                       *)
ParameterOK ==
    /\ bptBalance \in Nat /\ now \in Nat
    /\ {amplification.start, amplification.end} \subseteq MinAmp * AmpPrecision .. MaxAmp * AmpPrecision
    /\ {amplification.startTime, amplification.endTime} \subseteq Int
    /\ amplification.startTime <= amplification.endTime /\ amplification.startTime <= now
    /\ lastAmp \in 0 .. MaxAmp * AmpPrecision

(* A step that keeps all types.                                            *)
TypesKept == BaseTypeOK' /\ ParameterOK'

(* Between two values, not beyond them.                                    *)
LEMMA MovedIsBetween ==
  ASSUME NEW lo \in Int, NEW hi \in Int, NEW from \in lo .. hi, NEW to \in lo .. hi,
         NEW elapsed \in Nat, NEW duration \in Nat \ {0}, elapsed <= duration
  PROVE  Stable!Moved(from, to, elapsed, duration) \in lo .. hi
<1>1. ASSUME NEW d \in Nat
      PROVE  (d * elapsed) \div duration \in 0 .. d
  <2>1. MulDiv(elapsed, d, duration) = (elapsed * d) \div duration
    BY MulDivIsExact
  <2>2. elapsed * d = d * elapsed
    OBVIOUS
  <2>3. MulDiv(elapsed, d, duration) \in Nat /\ MulDiv(elapsed, d, duration) <= d
    BY PartOf
  <2> DEFINE q == MulDiv(elapsed, d, duration)
  <2>4. (d * elapsed) \div duration = q
    BY <2>1, <2>2
  <2> HIDE DEF q
  <2>5. q \in 0 .. d
    BY <2>3 DEF q
  <2> QED
    BY <2>4, <2>5
<1>2. CASE to > from
  <2> DEFINE q == ((to - from) * elapsed) \div duration
  <2>1. q \in 0 .. to - from
    BY <1>1, <1>2
  <2>2. Stable!Moved(from, to, elapsed, duration) = from + q
    BY <1>2 DEF Stable!Moved
  <2> HIDE DEF q
  <2> QED
    BY <1>2, <2>1, <2>2
<1>3. CASE ~(to > from)
  <2> DEFINE q == ((from - to) * elapsed) \div duration
  <2>1. q \in 0 .. from - to
    BY <1>1, <1>3
  <2>2. Stable!Moved(from, to, elapsed, duration) = from - q
    BY <1>3 DEF Stable!Moved
  <2> HIDE DEF q
  <2> QED
    BY <1>3, <2>1, <2>2
<1> QED
  BY <1>2, <1>3

(* The parameter stays within its bounds while it moves                    *)
(* (ComposableStablePool.sol: _getAmplificationParameter).                 *)
LEMMA ParameterIsBounded ==
  ASSUME ParameterOK
  PROVE  /\ Stable!getAmplificationParameter \in MinAmp * AmpPrecision .. MaxAmp * AmpPrecision
         /\ Stable!getAmplificationParameter \in 0 .. MaxAmp * AmpPrecision
<1> DEFINE lo == MinAmp * AmpPrecision
           hi == MaxAmp * AmpPrecision
           a == Stable!getAmplificationParameter
           st == amplification.startTime
           en == amplification.endTime
           from == amplification.start
           to == amplification.end
<1>1. lo \in Nat /\ hi \in Nat
  BY StableAssumption
<1>2. from \in lo .. hi /\ to \in lo .. hi
  BY DEF ParameterOK
<1>3. st \in Int /\ en \in Int /\ st <= en /\ st <= now /\ now \in Nat
  BY DEF ParameterOK
<1>4. a = IF now < en THEN Stable!Moved(from, to, now - st, en - st) ELSE to
  BY DEF Stable!getAmplificationParameter, Stable!isUpdating
<1> HIDE DEF lo, hi, a, st, en, from, to
<1>5. CASE now < en
  <2>1. now - st \in Nat /\ en - st \in Nat \ {0} /\ now - st <= en - st
    BY <1>3, <1>5
  <2>2. Stable!Moved(from, to, now - st, en - st) \in lo .. hi
    <3> DEFINE e == now - st
               d == en - st
    <3> HIDE DEF e, d
    <3>1. e \in Nat /\ d \in Nat \ {0} /\ e <= d /\ lo \in Int /\ hi \in Int
      BY <1>1, <2>1 DEF e, d
    <3>2. Stable!Moved(from, to, e, d) \in lo .. hi
      BY <1>2, <3>1, MovedIsBetween
    <3> QED
      BY <3>2 DEF e, d
  <2> QED
    BY <1>1, <1>4, <1>5, <2>2 DEF a, lo, hi
<1>6. CASE ~(now < en)
  <2>1. a \in lo .. hi
    BY <1>2, <1>4, <1>6
  <2> QED
    BY <1>1, <2>1 DEF a, lo, hi
<1> QED
  BY <1>5, <1>6

(* What settles the fees leaves the parameter alone, and remembers it.     *)
LEMMA SettledParameter ==
  ASSUME ParameterOK, Stable!SettlesNow, bptBalance' \in Nat
  PROVE  ParameterOK'
<1>1. lastAmp' \in 0 .. MaxAmp * AmpPrecision
  BY ParameterIsBounded DEF Stable!SettlesNow
<1> QED
  BY <1>1 DEF ParameterOK, Stable!SettlesNow

(* So does what leaves the parameter alone.                                *)
LEMMA UnchangedParameter ==
  ASSUME ParameterOK, UNCHANGED Stable!stableVars
  PROVE  ParameterOK'
BY DEF ParameterOK, Stable!stableVars

(* Joins and exits revert, or answer with amounts.                         *)
LEMMA StableAnswers ==
  ASSUME NEW data, NEW amp, NEW supply, NEW invariant
  PROVE  /\ \/ Stable!doJoin(data, amp, supply, invariant) = Failure
            \/ Offered(Stable!doJoin(data, amp, supply, invariant))
         /\ \/ Stable!doExit(data, amp, supply, invariant) = Failure
            \/ Offered(Stable!doExit(data, amp, supply, invariant))
<1> DEFINE F(r) == r = Failure \/ Offered(r)
<1>1. \A x, y : F(Stable!Result(x, y))
  BY ResultIs, SameAnswers
<1>2. F(Stable!Failure)
  BY SameAnswers
<1>3. \A x, y, z : F(Stable!AtLeast(x, y, z)) /\ F(Stable!AtMost(x, y, z))
  <2> HIDE DEF F
  <2> QED
    BY <1>1, <1>2 DEF Stable!AtLeast, Stable!AtMost
<1>4. F(Stable!doJoin(data, amp, supply, invariant))
  <2> HIDE DEF F
  <2> QED
    BY <1>1, <1>2, <1>3 DEF Stable!doJoin
<1>5. F(Stable!doExit(data, amp, supply, invariant))
  <2> HIDE DEF F
  <2> QED
    BY <1>1, <1>2, <1>3 DEF Stable!doExit
<1> QED
  BY <1>4, <1>5

(* What a Stable Pool answers when it settles.                             *)
LEMMA StableSettlement ==
  ASSUME NEW r, Offered(r), NEW v, NEW pre \in Nat, NEW preSupply \in Nat \ {0},
         NEW postSupply \in Nat, NEW due \in Nat, feeCache \in ProtocolFees,
         Stable!Settled(r, v, pre, preSupply, postSupply, due) # Failure
  PROVE  LET a == Stable!Settled(r, v, pre, preSupply, postSupply, due)
         IN  Answered(a) /\ a.bpt = r.bpt /\ a.amounts = r.amounts /\ a.invariant = v
<1> DEFINE ratio == divDown(postSupply, preSupply)
           feeless == mulDown(pre, ratio)
           fees == Stable!FeesDue(v, feeless, postSupply)
           a == Stable!Settled(r, v, pre, preSupply, postSupply, due)
<1>1. v \in Nat /\ a = WithFees(r, due + fees, v)
  <2>1. Stable!mulDown(pre, Stable!divDown(postSupply, preSupply)) = feeless
    BY SameArithmetic DEF Stable!mulDown, mulDown, Stable!divDown, divDown
  <2> QED
    BY <2>1, SameAnswers DEF Stable!Settled, Stable!Converged
<1>2. ratio \in Nat
  BY SharesAreNat
<1> HIDE DEF ratio
<1>3. feeless \in Nat
  BY <1>2, SharesAreNat
<1> HIDE DEF feeless
<1>4. fees \in Nat
  BY <1>1, <1>3, StableFeesAreNat
<1> HIDE DEF fees, a
<1>5. a.bpt = r.bpt /\ a.amounts = r.amounts /\ a.fees = due + fees /\ a.invariant = v
  BY <1>1 DEF WithFees
<1>6. due + fees \in Nat
  BY <1>4
<1> QED
  BY <1>1, <1>5, <1>6 DEF Answered, Offered, a

(* What is due, and the supply with it.                                    *)
LEMMA StableSupply ==
  ASSUME Ready, Initialized, Stable!Measurable
  PROVE  Stable!dueProtocolFees \in Nat /\ Stable!circulating + Stable!dueProtocolFees \in Nat \ {0}
<1>1. lastInvariant \in Nat /\ bpt \in [Accounts -> Nat] /\ feeCache \in ProtocolFees
  BY DEF Ready, BaseTypeOK
<1> DEFINE c == Stable!circulating
           due == Stable!dueProtocolFees
<1>2. due \in Nat
  <2> DEFINE v == Stable!InvariantAt(lastAmp)
  <2>1. v \in Nat \ {0}
    BY DEF Stable!Measurable
  <2> HIDE DEF v
  <2>2. Stable!bptForPoolOwnershipPercentage(Stable!circulating,
            Stable!getProtocolPoolOwnershipPercentage(v)) \in Nat
    BY <1>1, <2>1, StableDueIsNat
  <2> QED
    BY <2>2 DEF Stable!dueProtocolFees, v
<1>3. c \in Nat /\ c > 0
  BY <1>1, CirculatingIs DEF Initialized
<1> HIDE DEF c, due
<1>4. due \in Nat /\ c + due \in Nat \ {0}
  BY <1>2, <1>3
<1> QED
  BY <1>4 DEF c, due

(* The invariant is remembered with the parameter it is measured by.       *)
LEMMA StableSettles ==
  ASSUME Stable!SettlesNow, part' = "stable",
         lastInvariant' = Stable!calculateInvariant(Stable!getAmplificationParameter, balances')
  PROVE  Remembers'
<1>1. lastAmp' = Stable!getAmplificationParameter
  BY DEF Stable!SettlesNow
<1>2. lastInvariant' = Stable!calculateInvariant(lastAmp', balances')
  BY <1>1
<1> QED
  BY <1>2 DEF Remembers, Divisible, CurrentInvariant, Stable!InvariantAt

(* Joins, also those that swaps for Pool tokens are.                       *)
LEMMA StableJoins ==
  ASSUME NEW data, NEW who, Stable!Join(who, Stable!onJoin(data)), Stable!SettlesNow,
         part' = "stable", Ready
  PROVE  Settles /\ BaseTypeOK' /\ Stable!onJoin(data).bpt \in Nat
<1> DEFINE amp == Stable!getAmplificationParameter
           inv == Stable!InvariantAt(amp)
           due == Stable!dueProtocolFees
           supply == Stable!circulating + due
           r == Stable!doJoin(data, amp, supply, inv)
           v == Stable!calculateInvariant(amp, Plus(balances, r.amounts))
           a == Stable!onJoin(data)
<1>1. Join(who, a)
  BY SameHooks
<1>2. a # Failure /\ Initialized /\ balances' = Plus(balances, a.amounts)
      /\ bpt' = Minted(Minted(bpt, Collector, a.fees), who, a.bpt)
      /\ lastInvariant' = a.invariant
  BY <1>1 DEF Join
<1>3. Stable!Measurable /\ inv \in Nat /\ a = Stable!Joined(r, amp, inv, supply, due)
  BY <1>2, SameAnswers DEF Stable!onJoin, Stable!JoinAt, Stable!Converged
<1>4. r # Failure /\ a = Stable!Settled(r, v, inv, supply, supply + r.bpt, due)
  <2> HIDE DEF r, a, supply, due, inv, amp
  <2> QED
    BY <1>2, <1>3, SameAnswers DEF Stable!Joined, v
<1>5. Offered(r)
  BY <1>4, StableAnswers
<1>6. due \in Nat /\ supply \in Nat \ {0}
  BY <1>2, <1>3, StableSupply
<1>7. Answered(a) /\ a.bpt = r.bpt /\ a.amounts = r.amounts /\ a.invariant = v
  <2> HIDE DEF r, a, supply, due, v, inv
  <2>1. supply + r.bpt \in Nat
    BY <1>5, <1>6 DEF Offered
  <2>2. feeCache \in ProtocolFees
    BY DEF Ready, BaseTypeOK
  <2> QED
    BY <1>2, <1>3, <1>4, <1>5, <1>6, <2>1, <2>2, StableSettlement
<1> HIDE DEF r, a, inv, due, supply
<1>8. bpt'[Zero] >= bpt[Zero]
  BY <1>2, <1>7, MintingKeepsLocked DEF Minted, Answered, Offered, Ready, BaseTypeOK
<1>9. lastInvariant' = Stable!calculateInvariant(amp, balances')
  BY <1>2, <1>7 DEF v
<1>10. Remembers'
  BY <1>9, StableSettles
<1>11. BaseTypeOK'
  BY <1>1, <1>7, JoinTypes DEF Ready
<1> QED
  BY <1>2, <1>7, <1>8, <1>10, <1>11 DEF Settles, Answered, Offered, a

(* Exits, also those that swaps of Pool tokens are.                        *)
LEMMA StableExits ==
  ASSUME NEW data, NEW who, NEW to, Stable!Exit(who, to, Stable!onExit(data)), Stable!SettlesNow,
         who # Zero, part' = "stable", Ready
  PROVE  Settles /\ BaseTypeOK' /\ Stable!onExit(data).bpt \in Nat
<1> DEFINE amp == Stable!getAmplificationParameter
           inv == Stable!InvariantAt(amp)
           due == Stable!dueProtocolFees
           supply == Stable!circulating + due
           r == Stable!doExit(data, amp, supply, inv)
           v == Stable!calculateInvariant(amp, Minus(balances, r.amounts))
           a == Stable!onExit(data)
<1>1. Exit(who, to, a)
  BY SameHooks
<1>2. a # Failure /\ Initialized /\ balances' = Minus(balances, a.amounts)
      /\ bpt' = Minted(Burned(bpt, who, a.bpt), Collector, a.fees)
      /\ lastInvariant' = a.invariant
  BY <1>1 DEF Exit
<1>3. Stable!Measurable /\ inv \in Nat /\ a = Stable!Exited(r, amp, inv, supply, due)
  BY <1>2, SameAnswers DEF Stable!onExit, Stable!ExitAt, Stable!Converged
<1>4. r # Failure /\ ~(r.bpt > supply) /\ Available(r.amounts)
      /\ a = Stable!Settled(r, v, inv, supply, supply - r.bpt, due)
  <2> HIDE DEF r, a, supply, due, inv, amp
  <2> QED
    BY <1>2, <1>3, SameAnswers DEF Stable!Exited, v
<1>5. Offered(r)
  BY <1>4, StableAnswers
<1>6. due \in Nat /\ supply \in Nat \ {0}
  BY <1>2, <1>3, StableSupply
<1>7. Answered(a) /\ a.bpt = r.bpt /\ a.amounts = r.amounts /\ a.invariant = v
  <2> HIDE DEF r, a, supply, due, v, inv
  <2>1. supply - r.bpt \in Nat
    BY <1>4, <1>5, <1>6 DEF Offered
  <2>2. feeCache \in ProtocolFees
    BY DEF Ready, BaseTypeOK
  <2> QED
    BY <1>2, <1>3, <1>4, <1>5, <1>6, <2>1, <2>2, StableSettlement
<1> HIDE DEF r, a, inv, due, supply
<1>8. bpt'[Zero] = bpt[Zero] /\ bpt[Zero] \in Nat
  BY <1>2, BurningKeepsLocked, BasePoolAssumption DEF Minted, Burned, Ready, BaseTypeOK
<1>9. lastInvariant' = Stable!calculateInvariant(amp, balances')
  BY <1>2, <1>7 DEF v
<1>10. Remembers'
  BY <1>9, StableSettles
<1>11. BaseTypeOK'
  <2>1. Available(a.amounts)
    BY <1>4, <1>7
  <2> QED
    BY <1>1, <1>7, <2>1, ExitTypes DEF Ready
<1> QED
  BY <1>2, <1>7, <1>8, <1>10, <1>11 DEF Settles, Answered, Offered, a

(* Swaps of each kind.                                                     *)
LEMMA StableSwaps ==
  ASSUME NEW params \in Stable!SwapStablePool, part' = "stable", Ready, ParameterOK,
         Stable!swapGivenIn(params) \/ Stable!swapGivenOut(params)
  PROVE  (Settles \/ Trades) /\ TypesKept
<1>1. Stable!Sender(params) # Zero
  BY SignersAreNotZero, NoSender DEF Stable!SwapStablePool
<1>2. ASSUME NEW amount, Stable!SwapForToken(params, amount) \/ Stable!SwapForExactToken(params, amount)
      PROVE  Trades /\ TypesKept
  <2>1. PICK in, out, x, y : Stable!Swap(in, out, x, y)
    BY <1>2 DEF Stable!SwapForToken, Stable!SwapForExactToken
  <2>2. Swap(in, out, x, y)
    BY <2>1, SameHooks
  <2>3. UNCHANGED Stable!stableVars
    BY <1>2 DEF Stable!SwapForToken, Stable!SwapForExactToken, Stable!BetweenTokens
  <2>4. Trades
    BY <2>2 DEF Swap, Trades
  <2> QED
    BY <2>2, <2>3, <2>4, SwapTypes, UnchangedParameter DEF Ready, TypesKept
<1>3. ASSUME NEW data, \/ Stable!SwapForBpt(params, Stable!onJoin(data))
                      \/ Stable!SwapForExactBpt(params, Stable!onJoin(data))
      PROVE  Settles /\ TypesKept
  <2> DEFINE r == Stable!onJoin(data)
  <2>1. PICK who : Stable!Join(who, r) /\ Stable!SettlesNow /\ r.bpt <= bptBalance
                   /\ bptBalance' = bptBalance - r.bpt
    BY <1>3 DEF Stable!SwapForBpt, Stable!SwapForExactBpt, Stable!JoinSwap
  <2>2. Settles /\ BaseTypeOK' /\ r.bpt \in Nat
    BY <2>1, StableJoins
  <2> HIDE DEF r
  <2>3. bptBalance' \in Nat
    BY <2>1, <2>2 DEF ParameterOK
  <2> QED
    BY <2>1, <2>2, <2>3, SettledParameter DEF TypesKept
<1>4. ASSUME NEW data, \/ Stable!SwapOfBpt(params, Stable!onExit(data))
                      \/ Stable!SwapOfExactBpt(params, Stable!onExit(data))
      PROVE  Settles /\ TypesKept
  <2> DEFINE r == Stable!onExit(data)
  <2>1. PICK to : Stable!Exit(Stable!Sender(params), to, r) /\ Stable!SettlesNow
                  /\ bptBalance' = bptBalance + r.bpt
    BY <1>4 DEF Stable!SwapOfBpt, Stable!SwapOfExactBpt, Stable!ExitSwap
  <2>2. Settles /\ BaseTypeOK' /\ r.bpt \in Nat
    BY <1>1, <2>1, StableExits
  <2> HIDE DEF r
  <2>3. bptBalance' \in Nat
    BY <2>1, <2>2 DEF ParameterOK
  <2> QED
    BY <2>1, <2>2, <2>3, SettledParameter DEF TypesKept
<1>5. CASE Stable!swapGivenIn(params)
  BY <1>2, <1>3, <1>4, <1>5
     DEF Stable!swapGivenIn, Stable!JoinSwapGivenIn, Stable!ExitSwapGivenIn
<1>6. CASE Stable!swapGivenOut(params)
  BY <1>2, <1>3, <1>4, <1>6
     DEF Stable!swapGivenOut, Stable!JoinSwapGivenOut, Stable!ExitSwapGivenOut
<1> QED
  BY <1>5, <1>6

(* A query changes nothing.                                                *)
LEMMA StableQueries ==
  ASSUME NEW params, Ready, ParameterOK,
         \/ Stable!queryJoinGivenIn(params) \/ Stable!querySingleExitGivenIn(params)
         \/ Stable!querySingleJoinGivenOut(params) \/ Stable!queryJoinGivenOut(params)
         \/ Stable!queryExitGivenOut(params) \/ Stable!queryExitGivenIn(params)
         \/ Stable!querySwapGivenIn(params) \/ Stable!querySwapGivenOut(params)
  PROVE  Keeps /\ TypesKept
<1>1. ASSUME NEW succeeds, NEW record, Stable!Queried(succeeds, record), UNCHANGED Stable!stableVars
      PROVE  Keeps /\ TypesKept
  <2>1. UNCHANGED Stable!baseVars
    BY <1>1 DEF Stable!Queried
  <2>2. BaseTypeOK'
    BY <2>1 DEF Ready, BaseTypeOK, Tokens, Stable!baseVars
  <2>3. Keeps
    BY <1>1, <2>1 DEF Keeps, Stable!baseVars, Stable!stableVars
  <2> QED
    BY <1>1, <2>2, <2>3, UnchangedParameter DEF TypesKept
<1>2. ASSUME NEW data, NEW result,
             \/ Stable!QueryForBpt(data, result) \/ Stable!QueryForExactBpt(data, result)
             \/ Stable!QueryForToken(data, result),
             UNCHANGED Stable!stableVars
      PROVE  Keeps /\ TypesKept
  BY <1>1, <1>2 DEF Stable!QueryForBpt, Stable!QueryForExactBpt, Stable!QueryForToken, Stable!Query
<1>3. ASSUME NEW result, NEW rate, Stable!QueryAmounts(result, rate), UNCHANGED Stable!stableVars
      PROVE  Keeps /\ TypesKept
  BY <1>1, <1>3 DEF Stable!QueryAmounts
<1>4. ASSUME NEW x, \/ Stable!QuerySwapForToken(params, x) \/ Stable!QuerySwapForExactToken(params, x)
                   \/ Stable!QuerySwapForBpt(params, x) \/ Stable!QuerySwapOfBpt(params, x)
      PROVE  Keeps /\ TypesKept
  BY <1>1, <1>4 DEF Stable!QuerySwapForToken, Stable!QuerySwapForExactToken,
         Stable!QuerySwapForBpt, Stable!QuerySwapOfBpt, Stable!Query
<1>5. CASE Stable!querySwapGivenIn(params)
  BY <1>2, <1>4, <1>5 DEF Stable!querySwapGivenIn
<1>6. CASE Stable!querySwapGivenOut(params)
  BY <1>2, <1>4, <1>6 DEF Stable!querySwapGivenOut
<1> QED
  BY <1>2, <1>3, <1>5, <1>6 DEF Stable!queryJoinGivenIn, Stable!querySingleExitGivenIn,
     Stable!querySingleJoinGivenOut, Stable!queryJoinGivenOut, Stable!queryExitGivenOut,
     Stable!queryExitGivenIn

(* The first join.                                                         *)
LEMMA StableOpens ==
  ASSUME Stable!init(StableInitRequest), part' = "stable", Ready, ParameterOK
  PROVE  Opens /\ TypesKept
<1> DEFINE list == StableInitRequest.initialBalances.list
           a == Stable!WithoutBpt(list)
           v == Stable!calculateInvariant(Stable!getAmplificationParameter, a)
           who == Stable!To(StableInitRequest)
<1>1. Stable!buildInitParams(StableInitRequest) = [kind |-> "INIT", amountsIn |-> list]
  BY RequestAssumption DEF Stable!buildInitParams, Stable!joinInit
<1>2. Len(list) = Len(balances) + 1 /\ Stable!InitializeAt(who, a, v) /\ Stable!SettlesNow
  BY <1>1 DEF Stable!init, Stable!InitializePool
<1> HIDE DEF a, v, who
<1>3. Initialize(who, a, v, v) /\ v \in Nat /\ v <= PREMINTED /\ bptBalance' = PREMINTED - v
  BY <1>2, SameHooks DEF Stable!InitializeAt, Stable!Converged
<1>4. /\ ~Initialized /\ Untouched /\ v >= MinimumBpt
      /\ balances' = Plus(balances, a)
      /\ bpt' = Minted(Minted(bpt, Zero, MinimumBpt), who, v - MinimumBpt)
      /\ lastInvariant' = v
  BY <1>3 DEF Initialize, Ready
<1>5. Opened'
  BY <1>3, <1>4, OpeningLocks DEF Opened, Untouched, Minted
<1>6. balances' = a /\ \A i \in Tokens : a[i] \in Nat
  <2>1. list \in Seq(Nat)
    BY RequestAssumption
  <2>2. DOMAIN Weights = 1 .. Len(Weights) /\ Len(Weights) \in Nat
    BY WeightAssumption
  <2>3. balances = [i \in 1 .. Len(Weights) |-> 0]
    BY <1>4, <2>2 DEF Untouched
  <2>4. Len(balances) = Len(Weights)
    BY <2>2, <2>3
  <2>5. Len(list) - 1 = Len(Weights)
    BY <1>2, <2>2, <2>4
  <2>6. a = [i \in 1 .. Len(Weights) |-> list[IF i < bptIndex THEN i ELSE i + 1]]
    BY <2>5 DEF a, Stable!WithoutBpt
  <2>7. \A i \in 1 .. Len(Weights) : list[IF i < bptIndex THEN i ELSE i + 1] \in Nat
    <3>1. Len(list) = Len(Weights) + 1 /\ Len(list) \in Nat
      BY <2>1, <2>2, <2>5
    <3>2. \A k \in 1 .. Len(list) : list[k] \in Nat
      BY <2>1
    <3>3. bptIndex \in Nat \ {0}
      BY StableAssumption
    <3> HIDE DEF list
    <3>4. \A i \in 1 .. Len(Weights) : i \in 1 .. Len(list) /\ i + 1 \in 1 .. Len(list)
      BY <2>2, <3>1
    <3> QED
      BY <3>2, <3>4
  <2>8. a \in [1 .. Len(Weights) -> Nat]
    BY <2>6, <2>7
  <2> QED
    BY <1>4, <2>3, <2>8 DEF Plus, Tokens
<1>7. Remembers'
  <2>1. lastInvariant' = Stable!calculateInvariant(Stable!getAmplificationParameter, balances')
    BY <1>4, <1>6 DEF v
  <2> QED
    BY <1>2, <2>1, StableSettles
<1>8. TypesKept
  <2>1. BaseTypeOK'
    BY <1>3, <1>6, InitializeTypes DEF Ready
  <2>2. bptBalance' \in Nat
    BY <1>3, StableAssumption
  <2> QED
    BY <1>2, <2>1, <2>2, SettledParameter DEF TypesKept
<1> QED
  BY <1>4, <1>5, <1>7, <1>8 DEF Opens

(* A step of the Stable Pool's client.                                     *)
StableStep == Stable!StableClientNext /\ UNCHANGED <<calls, part>>

(* The owner moves the parameter, and time passes.                         *)
LEMMA ParameterMoves ==
  ASSUME Ready, ParameterOK,
         \/ \E amp \in AmpTargets : Stable!startAmpChange([newAmp |-> amp])
         \/ Stable!Administer(Stable!stopAmplificationParameterUpdate, Stable!Rate)
         \/ Stable!Tick
  PROVE  Keeps /\ TypesKept
<1> DEFINE value == Stable!getAmplificationParameter
           lo == MinAmp * AmpPrecision
           hi == MaxAmp * AmpPrecision
<1>1. ASSUME UNCHANGED Stable!baseVars
      PROVE  BaseTypeOK'
  BY <1>1 DEF Ready, BaseTypeOK, Tokens, Stable!baseVars
<1>2. value \in lo .. hi
  BY ParameterIsBounded
<1> HIDE DEF value
<1>3. ASSUME NEW amp \in AmpTargets, Stable!startAmpChange([newAmp |-> amp])
      PROVE  Keeps /\ TypesKept
  <2>1. Stable!startAmplificationParameterUpdate(amp, now + 2 * Day)
    BY <1>3 DEF Stable!startAmpChange, Stable!Administer, Stable!Field
  <2>2. amp \in MinAmp .. MaxAmp /\ UNCHANGED Stable!baseVars
        /\ amplification' = [start |-> value, end |-> amp * AmpPrecision, startTime |-> now,
                             endTime |-> now + 2 * Day]
        /\ UNCHANGED <<bptBalance, lastAmp, now>>
    BY <2>1 DEF Stable!startAmplificationParameterUpdate, value
  <2>3. amp * AmpPrecision \in lo .. hi
    <3>1. amp \in Nat /\ AmpPrecision \in Nat /\ MinAmp \in Nat /\ MaxAmp \in Nat
          /\ MinAmp <= amp /\ amp <= MaxAmp
      BY <2>2, StableAssumption
    <3>2. MinAmp * AmpPrecision <= amp * AmpPrecision /\ amp * AmpPrecision <= MaxAmp * AmpPrecision
      BY <3>1
    <3> QED
      BY <3>1, <3>2
  <2>4. now + 2 * Day \in Int /\ now <= now + 2 * Day /\ now \in Nat
    BY StableAssumption DEF ParameterOK
  <2> DEFINE end == amp * AmpPrecision
  <2> HIDE DEF end, lo, hi
  <2>5. ParameterOK'
    BY <1>2, <2>2, <2>3, <2>4 DEF ParameterOK, end, lo, hi
  <2> QED
    BY <1>1, <2>2, <2>5 DEF Keeps, TypesKept, Stable!baseVars
<1>4. ASSUME Stable!Administer(Stable!stopAmplificationParameterUpdate, Stable!Rate)
      PROVE  Keeps /\ TypesKept
  <2>1. UNCHANGED Stable!baseVars /\ UNCHANGED <<bptBalance, lastAmp, now>>
        /\ amplification' = [start |-> value, end |-> value, startTime |-> now, endTime |-> now]
    BY <1>4 DEF Stable!Administer, Stable!stopAmplificationParameterUpdate, Stable!Constantly, value
  <2>2. ParameterOK'
    BY <1>2, <2>1 DEF ParameterOK
  <2> QED
    BY <1>1, <2>1, <2>2 DEF Keeps, TypesKept, Stable!baseVars
<1>5. ASSUME Stable!Tick
      PROVE  Keeps /\ TypesKept
  <2>1. UNCHANGED Stable!baseVars /\ UNCHANGED <<bptBalance, amplification, lastAmp>> /\ now' = now + 1
    BY <1>5 DEF Stable!Tick
  <2>2. ParameterOK'
    BY <2>1 DEF ParameterOK
  <2> QED
    BY <1>1, <2>1, <2>2 DEF Keeps, TypesKept, Stable!baseVars
<1> QED
  BY <1>3, <1>4, <1>5

(* Governance leaves the parameter alone.                                  *)
LEMMA StableGovernance ==
  ASSUME Ready, ParameterOK, Stable!Governance(Stable!Rate), UNCHANGED Stable!stableVars
  PROVE  Keeps /\ TypesKept
<1>1. Keeps
  BY DEF Stable!Governance, Stable!Administer, Stable!setFeeTypePercentage,
     Stable!setSwapFeePercentage, Stable!SetPaused, Stable!enableRecoveryMode,
     Stable!stableVars, Keeps
<1>2. BaseTypeOK'
  BY DEF Ready, BaseTypeOK, Tokens, Stable!Governance, Stable!Administer, Stable!setFeeTypePercentage,
     Stable!setSwapFeePercentage, Stable!SetPaused, Stable!enableRecoveryMode
<1> QED
  BY <1>1, <1>2, UnchangedParameter DEF TypesKept

(* Every step of it is a PoolStep, and keeps the types.                    *)
LEMMA StableSteps ==
  ASSUME Ready, ParameterOK, StableStep, part = "stable"
  PROVE  PoolStep /\ TypesKept
<1>1. part' = "stable" /\ bpt \in [Accounts -> Nat] /\ BaseTypeOK
      /\ (UNCHANGED bptBalance => bptBalance' \in Nat)
  BY DEF StableStep, Ready, BaseTypeOK, ParameterOK
<1>2. ASSUME Stable!init(StableInitRequest)
      PROVE  Opens /\ TypesKept
  BY <1>1, <1>2, StableOpens
<1>3. ASSUME NEW params, \/ Stable!joinGivenIn(params) \/ Stable!singleJoinGivenOut(params)
                        \/ Stable!joinGivenOut(params)
      PROVE  Settles /\ TypesKept
  <2>1. PICK who, data : Stable!Join(who, Stable!onJoin(data)) /\ Stable!SettlesNow
                         /\ UNCHANGED bptBalance
    BY <1>3 DEF Stable!joinGivenIn, Stable!singleJoinGivenOut, Stable!joinGivenOut,
       Stable!JoinForBpt, Stable!JoinForToken, Stable!joinPool
  <2>2. Settles /\ BaseTypeOK'
    BY <1>1, <2>1, StableJoins
  <2> QED
    BY <1>1, <2>1, <2>2, SettledParameter DEF TypesKept
<1>4. ASSUME NEW params, Stable!Sender(params) # Zero,
             \/ Stable!exitGivenOut(params) \/ Stable!singleExitGivenIn(params)
             \/ Stable!exitGivenIn(params)
      PROVE  Settles /\ TypesKept
  <2>1. PICK to, data : Stable!Exit(Stable!Sender(params), to, Stable!onExit(data))
                        /\ Stable!SettlesNow /\ UNCHANGED bptBalance
    BY <1>4 DEF Stable!exitGivenOut, Stable!singleExitGivenIn, Stable!exitGivenIn,
       Stable!ExitForToken, Stable!exitPool
  <2>2. Settles /\ BaseTypeOK'
    BY <1>1, <1>4, <2>1, StableExits
  <2> QED
    BY <1>1, <2>1, <2>2, SettledParameter DEF TypesKept
<1>5. ASSUME NEW params, Stable!Sender(params) \in Accounts \ {Zero}, params.bptIn \in Nat,
             Stable!recoveryExit(params)
      PROVE  Leaves /\ TypesKept
  <2> DEFINE d == Stable!buildRecoveryModeExitParams(params)
             who == Stable!Sender(params)
  <2>1. RecoveryModeExit(who, Stable!To(params), d) /\ UNCHANGED Stable!stableVars
    BY <1>5, SameHooks DEF Stable!recoveryExit
  <2>2. d.bptIn \in Nat
    BY <1>5 DEF Stable!buildRecoveryModeExitParams, Stable!recoveryModeExit
  <2> HIDE DEF d
  <2>3. Leaves
    BY <1>1, <1>5, <2>1, BurningKeepsLocked DEF RecoveryModeExit, Leaves, Burned, settings
  <2>4. BaseTypeOK'
    BY <1>1, <1>5, <2>1, <2>2, RecoveryExitTypes
  <2> QED
    BY <2>1, <2>3, <2>4, UnchangedParameter DEF TypesKept
<1>6. /\ \A params \in Stable!ExitGivenOutStablePool : Stable!Sender(params) \in Accounts \ {Zero}
      /\ \A params \in Stable!SingleExitGivenInStablePool : Stable!Sender(params) \in Accounts \ {Zero}
      /\ \A params \in Stable!MultiExitGivenInStablePool : Stable!Sender(params) \in Accounts \ {Zero}
  BY SignersAreNotZero, NoSender DEF Stable!ExitGivenOutStablePool,
     Stable!SingleExitGivenInStablePool, Stable!MultiExitGivenInStablePool
<1>7. \A params \in Stable!MultiExitGivenInStablePool : params.bptIn \in Nat
  <2>1. {StableAmount} \in SUBSET Nat
    BY StableAssumption
  <2> QED
    BY <2>1, AsksFor DEF Stable!MultiExitGivenInStablePool
<1>8. ASSUME NEW params \in Stable!SwapStablePool, Stable!swapGivenIn(params) \/ Stable!swapGivenOut(params)
      PROVE  (Settles \/ Trades) /\ TypesKept
  BY <1>1, <1>8, StableSwaps
<1>9. ASSUME \/ \E amp \in AmpTargets : Stable!startAmpChange([newAmp |-> amp])
             \/ Stable!Administer(Stable!stopAmplificationParameterUpdate, Stable!Rate)
             \/ Stable!Tick
      PROVE  Keeps /\ TypesKept
  BY <1>9, ParameterMoves
<1>10. ASSUME Stable!Administer(Stable!updateProtocolFeePercentageCache, Stable!Rate)
       PROVE  Settles /\ TypesKept
  <2> DEFINE amp == Stable!getAmplificationParameter
             v == Stable!InvariantAt(amp)
             due == Stable!dueProtocolFees
  <2>1. Stable!Measurable /\ v \in Nat /\ UpdateFeeCache(due, v) /\ Stable!SettlesNow
        /\ UNCHANGED bptBalance
    BY <1>10, SameHooks DEF Stable!Administer, Stable!updateProtocolFeePercentageCache,
       Stable!updateProtocolFeePercentageCacheAt, Stable!Converged
  <2>2. Initialized /\ bpt' = Minted(bpt, Collector, due) /\ lastInvariant' = v /\ balances' = balances
    BY <2>1 DEF UpdateFeeCache
  <2>3. due \in Nat
    BY <2>1, <2>2, StableSupply
  <2>4. lastInvariant' = Stable!calculateInvariant(amp, balances')
    BY <2>2 DEF Stable!InvariantAt
  <2> HIDE DEF due, v
  <2>5. bpt'[Zero] = bpt[Zero] /\ bpt[Zero] \in Nat
    BY <1>1, <2>2, MintingKeepsLocked, BasePoolAssumption DEF Minted
  <2>6. Remembers'
    BY <1>1, <2>1, <2>4, StableSettles
  <2>7. BaseTypeOK'
    BY <1>1, <2>1, <2>3, FeeTypes
  <2> QED
    BY <1>1, <2>1, <2>2, <2>5, <2>6, <2>7, SettledParameter DEF Settles, TypesKept
<1>11. ASSUME Stable!Administer(Stable!disableRecoveryMode, Stable!Rate)
       PROVE  Settles /\ TypesKept
  <2> DEFINE amp == Stable!getAmplificationParameter
             v == Stable!InvariantAt(amp)
  <2>1. v \in Nat /\ DisableRecoveryMode(v) /\ Stable!SettlesNow /\ UNCHANGED bptBalance
    BY <1>11, SameHooks DEF Stable!Administer, Stable!disableRecoveryMode, Stable!Converged
  <2>2. lastInvariant' = v /\ balances' = balances /\ bpt' = bpt
    BY <2>1 DEF DisableRecoveryMode
  <2>3. lastInvariant' = Stable!calculateInvariant(amp, balances')
    BY <2>2 DEF Stable!InvariantAt
  <2> HIDE DEF v
  <2>4. Remembers'
    BY <1>1, <2>1, <2>3, StableSettles
  <2>5. BaseTypeOK'
    BY <1>1, <2>1, FeeTypes
  <2> QED
    BY <1>1, <2>1, <2>2, <2>4, <2>5, SettledParameter DEF Settles, TypesKept
<1>12. Stable!StableClientNext
  BY DEF StableStep
<1> QED
  BY <1>2, <1>3, <1>4, <1>5, <1>6, <1>7, <1>8, <1>9, <1>10, <1>11, <1>12, StableQueries, StableGovernance
     DEF Stable!StableClientNext, PoolStep

---------------------------------------------------------------------------
(* The invariant, and the theorems.                                        *)

(* One client has no calls left; the Pool is as created, or it has         *)
(* MinimumBpt locked and, unless there were swaps or it is in Recovery     *)
(* Mode, remembers its present invariant.                                  *)
Paid ==
    /\ \/ part = "weighted" /\ stableCalls = StableCalls
       \/ part = "stable" /\ calls = MaxCalls
    /\ \/ Untouched
       \/ /\ Opened
          /\ Divisible
          /\ ~traded /\ ~recovery => lastInvariant = CurrentInvariant

(* A Pool as created has paid.                                             *)
LEMMA PaidInitially == MCInit => Paid
BY WeightAssumption DEF MCInit, ClientInit, BaseInit, Paid, Untouched

(* A client that has no calls left takes no step.                          *)
LEMMA OnlyOneClient ==
  ASSUME MCNext, Paid
  PROVE  \/ part = "weighted" /\ WeightedStep /\ UNCHANGED stableCalls
         \/ part = "stable" /\ StableStep /\ UNCHANGED calls
<1>1. MaxCalls \in Nat /\ StableCalls \in Int
  BY ClientAssumption DEF StableCalls
<1>2. ClientNext => calls < MaxCalls
  BY DEF ClientNext, init, joinGivenIn, JoinForBpt, joinGivenOut, JoinForToken, joinAllGivenOut,
     exitGivenOut, ExitForBpt, singleExitGivenIn, ExitForToken, multiExitGivenIn, recoveryExit,
     swapGivenIn, SwapForToken, swapGivenOut, SwapForExactToken, queryJoinGivenIn, QueryForBpt,
     queryJoinGivenOut, QueryForExactBpt, queryJoinAllGivenOut, queryExitGivenOut,
     QueryForExactTokens, querySingleExitGivenIn, QueryForToken, queryMultiExitGivenIn,
     Query, QueryAmounts, Queried, Administer, Governance, Begin
<1>3. Stable!StableClientNext => stableCalls < StableCalls
  <2>1. Stable!Begin => stableCalls < StableCalls
    BY DEF Stable!Begin
  <2>2. ASSUME NEW params, Stable!swapGivenIn(params) \/ Stable!swapGivenOut(params)
        PROVE  stableCalls < StableCalls
    BY <2>1, <2>2 DEF Stable!swapGivenIn, Stable!swapGivenOut, Stable!SwapForToken,
       Stable!SwapForExactToken, Stable!SwapForBpt, Stable!SwapForExactBpt, Stable!SwapOfBpt,
       Stable!SwapOfExactBpt
  <2>3. ASSUME NEW params,
               \/ Stable!init(params) \/ Stable!joinGivenIn(params) \/ Stable!singleJoinGivenOut(params)
               \/ Stable!joinGivenOut(params) \/ Stable!exitGivenOut(params)
               \/ Stable!singleExitGivenIn(params) \/ Stable!exitGivenIn(params)
               \/ Stable!recoveryExit(params) \/ Stable!startAmpChange(params)
        PROVE  stableCalls < StableCalls
    BY <2>1, <2>3 DEF Stable!init, Stable!joinGivenIn, Stable!singleJoinGivenOut,
       Stable!joinGivenOut, Stable!exitGivenOut, Stable!singleExitGivenIn, Stable!exitGivenIn,
       Stable!recoveryExit, Stable!startAmpChange, Stable!JoinForBpt, Stable!JoinForToken,
       Stable!ExitForToken, Stable!Administer
  <2>4. ASSUME NEW s, NEW r, Stable!Queried(s, r)
        PROVE  stableCalls < StableCalls
    BY <2>4 DEF Stable!Queried
  <2>5. ASSUME NEW params,
               \/ Stable!queryJoinGivenIn(params) \/ Stable!querySingleExitGivenIn(params)
               \/ Stable!querySingleJoinGivenOut(params) \/ Stable!queryJoinGivenOut(params)
               \/ Stable!queryExitGivenOut(params) \/ Stable!queryExitGivenIn(params)
               \/ Stable!querySwapGivenIn(params) \/ Stable!querySwapGivenOut(params)
        PROVE  stableCalls < StableCalls
    BY <2>4, <2>5 DEF Stable!queryJoinGivenIn, Stable!querySingleExitGivenIn,
       Stable!querySingleJoinGivenOut, Stable!queryJoinGivenOut, Stable!queryExitGivenOut,
       Stable!queryExitGivenIn, Stable!querySwapGivenIn, Stable!querySwapGivenOut,
       Stable!QueryForBpt, Stable!QueryForExactBpt, Stable!QueryForToken, Stable!QueryAmounts,
       Stable!QuerySwapForToken, Stable!QuerySwapForExactToken, Stable!QuerySwapForBpt,
       Stable!QuerySwapOfBpt, Stable!Query
  <2>7. Stable!Governance(Stable!Rate) => stableCalls < StableCalls
    BY <2>1 DEF Stable!Governance, Stable!Administer
  <2>8. \/ Stable!Administer(Stable!stopAmplificationParameterUpdate, Stable!Rate)
        \/ Stable!Administer(Stable!updateProtocolFeePercentageCache, Stable!Rate)
        \/ Stable!Administer(Stable!disableRecoveryMode, Stable!Rate)
        => stableCalls < StableCalls
    BY <2>1 DEF Stable!Administer
  <2> QED
    BY <2>2, <2>3, <2>5, <2>7, <2>8 DEF Stable!StableClientNext
<1> QED
  BY <1>1, <1>2, <1>3 DEF MCNext, Paid, WeightedStep, StableStep

(* The types, with those of the parameter, and what is paid.               *)
PoolsInv == BaseTypeOK /\ ParameterOK /\ Paid

(* A Pool as created has its types; its fee is one that a Pool may have.   *)
LEMMA TypesInitially == MCInit => BaseTypeOK /\ ParameterOK
<1> SUFFICES ASSUME MCInit
             PROVE  BaseTypeOK /\ ParameterOK
  OBVIOUS
<1>1. BaseInit(Len(Weights), swapFeePercentage)
  BY DEF MCInit, ClientInit
<1>2. BaseTypeOK
  BY <1>1, ClientAssumption DEF BaseInit, BaseTypeOK, Tokens
<1> DEFINE lo == MinAmp * AmpPrecision
           hi == MaxAmp * AmpPrecision
           amp == InitialAmp * AmpPrecision
<1>3. bptBalance = 0 /\ lastAmp = 0 /\ now = 0
      /\ amplification = [start |-> amp, end |-> amp, startTime |-> 0, endTime |-> 0]
  BY DEF MCInit, Stable!StableClientInit, Stable!StableInit
<1>4. amp \in lo .. hi /\ 0 \in 0 .. hi
  <2>1. InitialAmp \in Nat /\ AmpPrecision \in Nat /\ MinAmp \in Nat /\ MaxAmp \in Nat
        /\ MinAmp <= InitialAmp /\ InitialAmp <= MaxAmp
    BY StableAssumption
  <2>2. lo <= amp /\ amp <= hi
    BY <2>1
  <2>3. lo \in Nat /\ amp \in Nat /\ hi \in Nat
    BY <2>1
  <2> QED
    BY <2>2, <2>3
<1> HIDE DEF lo, hi, amp
<1>5. ParameterOK
  BY <1>3, <1>4 DEF ParameterOK, lo, hi
<1> QED
  BY <1>2, <1>5

(* Fees and amounts are computed from that.                                *)
LEMMA InvIsReady == PoolsInv => Ready
BY InitializedIs DEF PoolsInv, Paid, Ready, BaseTypeOK

(* Every step is one of the Pool there is, and keeps the types.            *)
LEMMA StepsArePoolSteps ==
  ASSUME PoolsInv, MCNext
  PROVE  /\ PoolStep /\ TypesKept
         /\ \/ part' = "weighted" /\ stableCalls' = StableCalls
            \/ part' = "stable" /\ calls' = MaxCalls
         /\ part' = part
<1>1. Ready /\ Paid /\ ParameterOK
  BY InvIsReady DEF PoolsInv
<1>2. CASE part = "weighted"
  <2>1. WeightedStep /\ stableCalls = StableCalls /\ stableCalls' = stableCalls /\ part' = part
    BY <1>1, <1>2, OnlyOneClient DEF Paid, WeightedStep
  <2>2. PoolStep /\ BaseTypeOK'
    BY <1>1, <1>2, <2>1, WeightedSteps
  <2>3. UNCHANGED Stable!stableVars
    BY <2>1 DEF WeightedStep, stableVars, Stable!stableVars
  <2> QED
    BY <1>1, <1>2, <2>1, <2>2, <2>3, UnchangedParameter DEF StableCalls, TypesKept
<1>3. CASE part = "stable"
  <2>1. StableStep /\ calls = MaxCalls /\ calls' = calls /\ part' = part
    BY <1>1, <1>3, OnlyOneClient DEF Paid, StableStep
  <2>2. PoolStep /\ TypesKept
    BY <1>1, <1>3, <2>1, StableSteps
  <2> QED
    BY <1>3, <2>1, <2>2
<1> QED
  BY <1>1, <1>2, <1>3 DEF Paid

(* Every step keeps the invariant.                                         *)
LEMMA PoolsInvAlways ==
  ASSUME PoolsInv, [MCNext]_<<baseClientVars, stableVars, stableCalls, part>>
  PROVE  PoolsInv'
<1>1. CASE UNCHANGED <<baseClientVars, stableVars, stableCalls, part>>
  <2>1. CurrentInvariant' = CurrentInvariant
    BY <1>1 DEF baseClientVars, baseVars, stableVars, CurrentInvariant, Stable!InvariantAt
  <2>2. Paid'
    BY <1>1, <2>1 DEF PoolsInv, Paid, baseClientVars, baseVars, stableVars, Untouched, Opened, Divisible
  <2>3. BaseTypeOK'
    BY <1>1 DEF PoolsInv, BaseTypeOK, Tokens, baseClientVars, baseVars
  <2>4. ParameterOK'
    BY <1>1 DEF PoolsInv, ParameterOK, stableVars
  <2> QED
    BY <2>2, <2>3, <2>4 DEF PoolsInv
<1>2. CASE MCNext
  <2>1. /\ PoolStep /\ TypesKept
        /\ \/ part' = "weighted" /\ stableCalls' = StableCalls
           \/ part' = "stable" /\ calls' = MaxCalls
        /\ part' = part
    BY <1>2, StepsArePoolSteps
  <2>2. bpt \in [Accounts -> Nat] /\ bpt' \in [Accounts -> Nat]
        /\ bpt[Zero] \in Nat /\ bpt'[Zero] \in Nat /\ MinimumBpt \in Nat \ {0}
    BY <2>1, BasePoolAssumption DEF PoolsInv, TypesKept, BaseTypeOK
  <2>3. (Opened => Initialized) /\ (Untouched => ~Initialized)
    BY <2>2, InitializedIs
  <2>4. \/ Untouched
        \/ Opened /\ Divisible /\ (~traded /\ ~recovery => lastInvariant = CurrentInvariant)
    BY DEF PoolsInv, Paid
  <2>5. CASE Keeps
    <3>1. CurrentInvariant' = CurrentInvariant
      BY <2>1, <2>5 DEF Keeps, CurrentInvariant, Stable!InvariantAt
    <3>2. Paid'
      BY <2>1, <2>4, <2>5, <3>1 DEF Keeps, Paid, Untouched, Opened, Divisible
    <3> QED
      BY <2>1, <3>2 DEF PoolsInv, TypesKept
  <2>6. CASE Trades
    <3>1. Paid'
      BY <2>1, <2>2, <2>3, <2>4, <2>6 DEF Trades, Paid, Opened, Untouched, Divisible
    <3> QED
      BY <2>1, <3>1 DEF PoolsInv, TypesKept
  <2>7. CASE Settles
    <3>1. lastInvariant' = CurrentInvariant' /\ Divisible'
      BY <2>7 DEF Settles, Remembers
    <3>2. CASE Initialized /\ bpt'[Zero] >= bpt[Zero]
      <4>1. Opened'
        BY <2>2, <2>3, <2>4, <3>2 DEF Opened
      <4> QED
        BY <2>1, <3>1, <4>1 DEF PoolsInv, TypesKept, Paid
    <3>3. CASE UNCHANGED <<balances, bpt>>
      <4>1. Untouched' \/ Opened'
        BY <2>4, <3>3 DEF Opened, Untouched
      <4> QED
        BY <2>1, <3>1, <4>1 DEF PoolsInv, TypesKept, Paid
    <3> QED
      BY <2>7, <3>2, <3>3 DEF Settles
  <2>8. CASE Leaves
    <3>1. Paid'
      BY <2>1, <2>2, <2>3, <2>4, <2>8 DEF Leaves, Paid, Opened, Divisible
    <3> QED
      BY <2>1, <3>1 DEF PoolsInv, TypesKept
  <2>9. CASE Opens
    <3>1. Paid'
      BY <2>1, <2>3, <2>4, <2>9 DEF Opens, Paid, Remembers
    <3> QED
      BY <2>1, <3>1 DEF PoolsInv, TypesKept
  <2> QED
    BY <2>1, <2>5, <2>6, <2>7, <2>8, <2>9 DEF PoolStep
<1> QED
  BY <1>1, <1>2

(* Nothing of an amount is nothing.                                        *)
LEMMA NothingOf ==
  ASSUME NEW x \in Int
  PROVE  mulDown(x, 0) = 0
<1>1. One \in Nat \ {0} /\ x * 0 = 0 /\ 0 = One * 0 + 0
  BY OneAssumption
<1>2. 0 \div One = 0
  BY <1>1, QuotientUnique
<1> QED
  BY <1>1, <1>2, MulDivIsExact DEF mulDown

(* A share of nothing is worth no Pool tokens.                             *)
LEMMA NoShareNoTokens ==
  ASSUME NEW supply \in Nat
  PROVE  bptForPoolOwnershipPercentage(supply, 0) = 0
<1>1. complement(0) = One
  BY OneAssumption DEF complement
<1> QED
  BY <1>1, NothingOf DEF bptForPoolOwnershipPercentage, mulDown

(* Without growth, or in Recovery Mode, a Weighted Pool owes nothing.       *)
LEMMA WeightedDue ==
  ASSUME NEW invariant \in Nat \ {0}, lastInvariant \in Nat \ {0}, circulating \in Nat,
         recovery \/ invariant = lastInvariant, feeCache \in 0 .. One
  PROVE  getPreJoinExitProtocolFees(invariant) = 0
<1> DEFINE growth == divDown(invariant, lastInvariant)
           pct == getProtocolFeePercentageCache
           own == getProtocolOwnershipPercentage(growth, One, pct)
<1>1. One \in Nat \ {0} /\ invariant * One \in Int /\ One * One \in Int
  BY OneAssumption
<1>2. growth = (invariant * One) \div lastInvariant
  BY <1>1, MulDivIsExact DEF divDown
<1>3. growth \in Nat
  <2> DEFINE x == invariant * One
  <2>1. x \in Nat
    BY <1>1
  <2> HIDE DEF x
  <2>2. x \div lastInvariant \in Nat
    BY <2>1
  <2> QED
    BY <1>2, <2>2 DEF x
<1>4. ASSUME ~recovery
      PROVE  growth = One
  <2>1. invariant * One = lastInvariant * One + 0 /\ invariant = lastInvariant
    BY <1>1, <1>4
  <2>2. (invariant * One) \div lastInvariant = One
    BY <1>1, <2>1, QuotientUnique
  <2> QED
    BY <1>2, <2>2
<1> HIDE DEF growth
<1>5. own = 0
  <2>1. CASE One >= growth
    BY <2>1 DEF getProtocolOwnershipPercentage
  <2>2. CASE ~ (One >= growth)
    <3>1. recovery
      <4> SUFFICES ASSUME ~recovery
                   PROVE  FALSE
        OBVIOUS
      <4>1. growth = One
        BY <1>4
      <4> QED
        BY <1>1, <2>2, <4>1
    <3>2. pct = 0
      BY <3>1 DEF getProtocolFeePercentageCache
    <3>3. growth \in Nat \ {0}
      BY <1>1, <1>3, <2>2
    <3>4. One - divDown(One, growth) \in Int
      <4>1. divDown(One, growth) = (One * One) \div growth
        BY <1>1, <3>3, MulDivIsExact DEF divDown
      <4> DEFINE x == One * One
      <4>2. x \in Int
        BY <1>1
      <4> HIDE DEF x
      <4>3. x \div growth \in Int
        BY <3>3, <4>2
      <4> QED
        BY <1>1, <4>1, <4>3 DEF x
    <3> DEFINE y == One - divDown(One, growth)
    <3>5. own = mulDown(y, 0)
      BY <2>2, <3>2 DEF getProtocolOwnershipPercentage
    <3>6. mulDown(y, 0) = 0
      BY <3>4, NothingOf
    <3> QED
      BY <3>5, <3>6
  <2> QED
    BY <2>1, <2>2
<1>6. getPreJoinExitProtocolFees(invariant) = bptForPoolOwnershipPercentage(circulating, own)
  BY DEF getPreJoinExitProtocolFees, totalSupply, growth
<1> QED
  BY <1>5, <1>6, NoShareNoTokens

(* The same of the Stable Pool, which measures the growth by difference.   *)
LEMMA StableDue ==
  ASSUME NEW invariant \in Nat \ {0}, lastInvariant \in Nat, circulating \in Nat,
         recovery \/ invariant = lastInvariant, feeCache \in 0 .. One
  PROVE  Stable!bptForPoolOwnershipPercentage(circulating,
             Stable!getProtocolPoolOwnershipPercentage(invariant)) = 0
<1> DEFINE diff == IF invariant > lastInvariant THEN invariant - lastInvariant ELSE 0
           grown == divDown(diff, invariant)
           pct == Stable!getProtocolFeePercentageCache
           own == Stable!getProtocolPoolOwnershipPercentage(invariant)
<1>1. One \in Nat \ {0} /\ diff \in Nat /\ diff * One \in Int
  BY OneAssumption
<1>2. own = mulDown(grown, pct)
  BY SameArithmetic DEF Stable!getProtocolPoolOwnershipPercentage, Stable!mulDown, mulDown,
     Stable!divDown, divDown
<1>3. grown = (diff * One) \div invariant
  <2> HIDE DEF diff
  <2> QED
    BY <1>1, MulDivIsExact DEF divDown
<1>4. CASE recovery
  <2>1. grown \in Int
    <3> DEFINE x == diff * One
    <3>1. x \in Int
      BY <1>1
    <3> HIDE DEF x, diff
    <3>2. x \div invariant \in Int
      BY <3>1
    <3> QED
      BY <1>3, <3>2 DEF x
  <2>2. pct = 0
    BY <1>4 DEF Stable!getProtocolFeePercentageCache
  <2> HIDE DEF grown
  <2>3. own = 0
    BY <1>2, <2>1, <2>2, NothingOf
  <2> QED
    BY <2>3, SameArithmetic, NoShareNoTokens
<1>5. CASE ~recovery
  <2>1. diff * One = invariant * 0 + 0 /\ 0 < invariant
    BY <1>1, <1>5
  <2>2. (diff * One) \div invariant = 0
    BY <1>1, <2>1, QuotientUnique
  <2>3. grown = 0
    BY <1>3, <2>2
  <2>4. pct = feeCache
    BY <1>5 DEF Stable!getProtocolFeePercentageCache
  <2> HIDE DEF grown
  <2>5. own = mulDown(0, feeCache)
    BY <1>2, <2>3, <2>4
  <2>6. mulDown(0, feeCache) = 0
    <3>1. 0 * feeCache = One * 0 + 0 /\ 0 * feeCache \in Int /\ feeCache \in Nat
      BY <1>1
    <3>2. (0 * feeCache) \div One = 0
      BY <1>1, <3>1, QuotientUnique
    <3> QED
      BY <1>1, <3>1, <3>2, MulDivIsExact DEF mulDown
  <2> QED
    BY <2>5, <2>6, SameArithmetic, NoShareNoTokens
<1> QED
  BY <1>4, <1>5

(* The invariant implies the property.                                     *)
LEMMA PaidMeansNothingDue == PoolsInv => ProtocolIsPaidOnce
<1> SUFFICES ASSUME PoolsInv, Initialized, ~traded, CurrentInvariant \in Nat \ {0}
             PROVE  (IF part = "weighted" THEN dueProtocolFees ELSE Stable!dueProtocolFees) = 0
  BY DEF ProtocolIsPaidOnce
<1>1. bpt \in [Accounts -> Nat] /\ feeCache \in 0 .. One /\ lastInvariant \in Nat
  <2>1. feeCache \in 0 .. One \div 2
    BY BasePoolAssumption DEF PoolsInv, BaseTypeOK
  <2> QED
    BY <2>1, OneAssumption DEF PoolsInv, BaseTypeOK
<1>2. ~Untouched
  BY <1>1, InitializedIs
<1>3. Divisible /\ (recovery \/ CurrentInvariant = lastInvariant)
  BY <1>2 DEF PoolsInv, Paid
<1>4. circulating \in Nat /\ Stable!circulating = circulating
  BY <1>1, CirculatingIs
<1>5. CASE part = "weighted"
  <2>1. lastInvariant \in Nat \ {0}
    BY <1>1, <1>3, <1>5 DEF Divisible
  <2>2. getPreJoinExitProtocolFees(CurrentInvariant) = 0
    BY <1>1, <1>3, <1>4, <2>1, WeightedDue
  <2> QED
    BY <1>5, <2>2 DEF CurrentInvariant, dueProtocolFees
<1>6. CASE part # "weighted"
  <2>1. Stable!bptForPoolOwnershipPercentage(circulating,
            Stable!getProtocolPoolOwnershipPercentage(CurrentInvariant)) = 0
    BY <1>1, <1>3, <1>4, StableDue
  <2> QED
    BY <1>4, <1>6, <2>1 DEF CurrentInvariant, Stable!dueProtocolFees
<1> QED
  BY <1>5, <1>6

(* The types that are checked are among those of the invariant.            *)
LEMMA InvMeansTypes == PoolsInv => PoolTypesOK
<1> SUFFICES ASSUME PoolsInv
             PROVE  PoolTypesOK
  OBVIOUS
<1>1. BaseTypeOK /\ ParameterOK
  BY DEF PoolsInv
<1>2. Stable!BaseTypeOK
  BY <1>1 DEF BaseTypeOK, Stable!BaseTypeOK, Tokens, Stable!Tokens
<1> QED
  BY <1>1, <1>2 DEF PoolTypesOK, Stable!StableTypeOK, ParameterOK

(* The invariant holds in every state that the Pools reach.                *)
LEMMA PoolsInvHolds == MCSpec => []PoolsInv
<1>1. MCInit => PoolsInv
  BY PaidInitially, TypesInitially DEF PoolsInv
<1>2. PoolsInv /\ [MCNext]_<<baseClientVars, stableVars, stableCalls, part>> => PoolsInv'
  BY PoolsInvAlways
<1> QED
  BY <1>1, <1>2, PTL DEF MCSpec

(* No balance and no holding of Pool tokens is ever below zero, and the    *)
(* amplification parameter stays within its bounds, for Pools with any     *)
(* weights, parameter, fees and requests and whatever the mathematics      *)
(* computes: what a join or exit is paid for fees of the protocol is an    *)
(* amount, for the protocol's percentage is a half at most and no growth   *)
(* is divided by nothing; an exit takes what there is; and in Recovery     *)
(* Mode, where nothing is checked, a holder's share is no more than the    *)
(* whole (BasePool.sol, RecoveryModeHelper.sol,                            *)
(* WeightedPoolProtocolFees.sol, ComposableStablePoolProtocolFees.sol).    *)
THEOREM PoolAmountsAreNeverNegative == MCSpec => []PoolTypesOK
BY PoolsInvHolds, InvMeansTypes, PTL

(* The protocol is paid once for every swap, for the same Pools: as long   *)
(* as there is an invariant to measure by, nothing is due between a        *)
(* payment and the next swap (WeightedPoolProtocolFees.sol,                *)
(* ComposableStablePoolProtocolFees.sol).                                  *)
THEOREM ProtocolIsAlwaysPaidOnce == MCSpec => []ProtocolIsPaidOnce
BY PoolsInvHolds, PaidMeansNothingDue, PTL
=============================================================================
