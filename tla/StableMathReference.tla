------------------------ MODULE StableMathReference ------------------------
(***************************************************************************)
(* The mathematics of Stable Pools that the tests expect the contracts to  *)
(* follow: decimals, no rounding in favour of anybody.  Balances and       *)
(* amounts are raw; swaps result in decimals, joins and exits in raw       *)
(* amounts.                                                                *)
(***************************************************************************)
EXTENDS Decimals

MaxIterations == 255

(* Newton's iteration of the invariant, until two values agree to a unit.  *)
NextApprox(n, sum, ampTimesTotal, P_D, inv) ==
    DecDiv(DecMul(n * inv, inv) + DecMul(ampTimesTotal * sum, P_D),
           (n + 1) * inv + (ampTimesTotal - 1) * P_D)

ProductOfShares(balances, inv) ==
    FoldLeft(LAMBDA p, b : DecDiv(DecMul(p, b) * Len(balances), inv),
             balances[1] * Len(balances), Tail(balances))

Newton(Next(_), start) ==
    LET iterate[i \in Nat, old \in Int, new \in Int] ==
            IF i = MaxIterations \/ Fp(new) - Fp(old) \in -1..1 THEN new
            ELSE iterate[i + 1, new, Next(new)]
    IN  iterate[1, start, Next(start)]

ApproxInvariant(balances, amp) ==
    Newton(LAMBDA inv : NextApprox(Len(balances), TotalOf(balances), amp * Len(balances),
                                   ProductOfShares(balances, inv), inv),
           TotalOf(balances))

calculateInvariant(fpBalances, amp) ==
    IF TotalOf(fpBalances) = 0 THEN 0 ELSE Fp(ApproxInvariant(FromFpAll(fpBalances), amp))

(* The closed form for two tokens.                                         *)
calculateAnalyticalInvariantForTwoTokens(fpBalances, amp) ==
    LET sum == TotalOf(FromFpAll(fpBalances))
        prod == DecMul(FromFp(fpBalances[1]), FromFp(fpBalances[2]))
        q == -8 * amp * DecMul(sum, prod)
        p == (8 * amp - 4) * prod
        discriminant == DecDiv(DecPow(q, 2), 4 * Scale) + DecDiv(DecPow(p, 3), 27 * Scale)
        squareRoot == DecRoot(discriminant, 2)
        c == DecRoot(squareRoot - DecDiv(q, 2 * Scale), 3)
    IN  Fp(c - DecDiv(p, 3 * c))

(* The positive root of a quadratic in the balance that is missing.        *)
PositiveRoot(b, c) == DecDiv(DecRoot(DecPow(b, 2) - 4 * c, 2) - b, 2 * Scale)

getTokenBalanceGivenInvariantAndAllOtherBalances(others, n, amp, invariant) ==
    PositiveRoot(DecDiv(invariant, amp * n * Scale) + TotalOf(others) - invariant,
                 -DecDiv(DecPow(invariant, n + 1),
                         (amp * n^(n + 1)) * FoldLeft(DecMul, Scale, others)))

MissingBalance(fpBalances, amp, invariant, index) ==
    getTokenBalanceGivenInvariantAndAllOtherBalances(
        RemoveAt(FromFpAll(fpBalances), index), Len(fpBalances), amp, invariant)

calcOutGivenIn(fpBalances, amp, in, out, fpAmountIn) ==
    FromFp(fpBalances[out])
      - MissingBalance([fpBalances EXCEPT ![in] = @ + fpAmountIn], amp,
                       FromFp(calculateInvariant(fpBalances, amp)), out)

calcInGivenOut(fpBalances, amp, in, out, fpAmountOut) ==
    MissingBalance([fpBalances EXCEPT ![out] = @ - fpAmountOut], amp,
                   FromFp(calculateInvariant(fpBalances, amp)), in)
      - FromFp(fpBalances[in])

(* Joins and exits pay swap fees on what departs from the proportions of   *)
(* the Pool: the part of each amount beyond the average growth.            *)
Growths(balances, newBalances) == [i \in DOMAIN balances |-> DecDiv(newBalances[i], balances[i])]

AverageGrowth(balances, growths) ==
    TotalOf([i \in DOMAIN balances |->
        DecMul(growths[i], DecDiv(balances[i], TotalOf(balances)))])

AfterFee(fee, x) == DecMul(x, Scale - FromFp(fee))
BeforeFee(fee, x) == DecDiv(x, Scale - FromFp(fee))

AfterJoin(balances, amounts, growths, mean, fee) ==
    LET nonTaxable(i) == DecMul(balances[i], mean - Scale)
    IN  [i \in DOMAIN balances |-> Fp(balances[i] +
            IF growths[i] <= mean THEN amounts[i]
            ELSE nonTaxable(i) + AfterFee(fee, amounts[i] - nonTaxable(i)))]

AfterExit(balances, amounts, growths, mean, fee) ==
    LET nonTaxable(i) == DecMul(balances[i], IF mean > Scale THEN 0 ELSE Scale - mean)
    IN  [i \in DOMAIN balances |-> Fp(balances[i] -
            IF growths[i] >= mean THEN amounts[i]
            ELSE nonTaxable(i) + BeforeFee(fee, amounts[i] - nonTaxable(i)))]

InvariantRatio(newBalances, amp, currentInvariant) ==
    DecDiv(FromFp(calculateInvariant(newBalances, amp)), FromFp(currentInvariant))

BptOut(supply, ratio) == IF ratio > Scale THEN Fp(DecMul(FromFp(supply), ratio - Scale)) ELSE 0
BptIn(supply, ratio) == IF ratio < Scale THEN Fp(DecMul(FromFp(supply), Scale - ratio)) ELSE 0

calcBptOutGivenExactTokensIn(fpBalances, amp, fpAmountsIn, supply, currentInvariant, fee) ==
    LET growths == Growths(fpBalances, [i \in DOMAIN fpBalances |-> fpBalances[i] + fpAmountsIn[i]])
    IN  BptOut(supply, InvariantRatio(
            AfterJoin(FromFpAll(fpBalances), FromFpAll(fpAmountsIn), growths,
                      AverageGrowth(fpBalances, growths), fee), amp, currentInvariant))

calcBptInGivenExactTokensOut(fpBalances, amp, fpAmountsOut, supply, currentInvariant, fee) ==
    LET growths == Growths(fpBalances, [i \in DOMAIN fpBalances |-> fpBalances[i] - fpAmountsOut[i]])
    IN  BptIn(supply, InvariantRatio(
            AfterExit(FromFpAll(fpBalances), FromFpAll(fpAmountsOut), growths,
                      AverageGrowth(fpBalances, growths), fee), amp, currentInvariant))

(* The part of a single token's amount that stands for swaps.              *)
Taxable(balances, index, amount) ==
    DecMul(amount, Scale - DecDiv(balances[index], TotalOf(balances)))

ScaledInvariant(supply, newSupply, currentInvariant) ==
    DecMul(DecDiv(FromFp(newSupply), FromFp(supply)), FromFp(currentInvariant))

SingleTokenIn(withoutFee, taxable, fee) == Fp(withoutFee - taxable + BeforeFee(fee, taxable))
SingleTokenOut(withoutFee, taxable, fee) == Fp(withoutFee - taxable + AfterFee(fee, taxable))

calcTokenInGivenExactBptOut(index, fpBalances, amp, fpBptOut, supply, currentInvariant, fee) ==
    LET WithFee(withoutFee) ==
            SingleTokenIn(withoutFee, Taxable(FromFpAll(fpBalances), index, withoutFee), fee)
    IN  WithFee(MissingBalance(fpBalances, amp,
                    ScaledInvariant(supply, supply + fpBptOut, currentInvariant), index)
                  - FromFp(fpBalances[index]))

calcTokenOutGivenExactBptIn(index, fpBalances, amp, fpBptIn, supply, currentInvariant, fee) ==
    LET WithFee(withoutFee) ==
            SingleTokenOut(withoutFee, Taxable(FromFpAll(fpBalances), index, withoutFee), fee)
    IN  WithFee(FromFp(fpBalances[index])
                  - MissingBalance(fpBalances, amp,
                        ScaledInvariant(supply, supply - fpBptIn, currentInvariant), index))

(* What a token has grown by since the invariant was lastInvariant.        *)
calculateOneTokenSwapFeeAmount(fpBalances, amp, lastInvariant, index) ==
    LET final == MissingBalance(fpBalances, amp, FromFp(lastInvariant), index)
    IN  IF final > FromFp(fpBalances[index]) THEN 0 ELSE FromFp(fpBalances[index]) - final
=============================================================================
