----------------------- MODULE WeightedMathReference -----------------------
(***************************************************************************)
(* The mathematics of Weighted Pools that the tests expect the contracts   *)
(* to follow: decimals, no rounding in favour of anybody.  A weight is a   *)
(* fraction <<p, q>> in lowest terms.                                      *)
(***************************************************************************)
EXTENDS Decimals

Weight(w) == (w[1] * Scale) \div w[2]
ToWeight(x, w) == DecPowFraction(x, w[1], w[2])
ToInverseWeight(x, w) == DecPowFraction(x, w[2], w[1])

(* The quotient of two weights, in lowest terms when they are over the     *)
(* same denominator and one divides the other.                             *)
Quotient(v, w) ==
    IF v[1] % w[1] = 0 THEN <<v[1] \div w[1], 1>> ELSE <<1, w[1] \div v[1]>>

calculateInvariant(fpBalances, weights) ==
    Fp(FoldLeft(LAMBDA v, i : DecMul(v, ToWeight(FromFp(fpBalances[i]), weights[i])),
                Scale, [i \in DOMAIN fpBalances |-> i]))

calcOutGivenIn(fpBalanceIn, weightIn, fpBalanceOut, weightOut, fpAmountIn) ==
    LET base == DecDiv(FromFp(fpBalanceIn), FromFp(fpBalanceIn + fpAmountIn))
    IN  DecMul(FromFp(fpBalanceOut), Scale - ToWeight(base, Quotient(weightIn, weightOut)))

calcInGivenOut(fpBalanceIn, weightIn, fpBalanceOut, weightOut, fpAmountOut) ==
    LET base == DecDiv(FromFp(fpBalanceOut), FromFp(fpBalanceOut - fpAmountOut))
    IN  DecMul(FromFp(fpBalanceIn), ToWeight(base, Quotient(weightOut, weightIn)) - Scale)

Growths(balances, newBalances) ==
    [i \in DOMAIN balances |-> DecDiv(newBalances[i], balances[i])]

AverageGrowth(growths, weights) ==
    TotalOf([i \in DOMAIN growths |-> DecMul(growths[i], Weight(weights[i]))])

RatioOf(growths, weights) ==
    FoldLeft(LAMBDA ratio, i : DecMul(ratio, ToWeight(growths[i], weights[i])),
             Scale, [i \in DOMAIN growths |-> i])

(* Joins and exits pay swap fees on what exceeds the Pool's mean growth.   *)
AfterJoin(balances, amounts, growths, mean, fee) ==
    LET nonTaxable(i) == DecMul(balances[i], mean - Scale)
    IN  [i \in DOMAIN balances |-> balances[i] +
            IF growths[i] <= mean THEN amounts[i]
            ELSE nonTaxable(i) + DecMul(amounts[i] - nonTaxable(i), Scale - FromFp(fee))]

BptOut(balances, weights, amounts, growths, supply, fee) ==
    Fp(DecMul(FromFp(supply), RatioOf(Growths(balances,
           AfterJoin(balances, amounts, growths, AverageGrowth(growths, weights), fee)),
           weights) - Scale))

calcBptOutGivenExactTokensIn(fpBalances, weights, fpAmountsIn, supply, fee) ==
    BptOut(FromFpAll(fpBalances), weights, FromFpAll(fpAmountsIn),
           Growths(fpBalances, [i \in DOMAIN fpBalances |-> fpBalances[i] + fpAmountsIn[i]]),
           supply, fee)

Excess(growth, mean) == IF mean <= growth THEN 0 ELSE DecDiv(mean - growth, Scale - growth)

GrowthsAfterFees(balances, amounts, growths, mean, fee) ==
    [i \in DOMAIN balances |-> Scale -
        DecDiv(DecDiv(amounts[i], Scale - DecMul(FromFp(fee), Excess(growths[i], mean))), balances[i])]

BptIn(balances, weights, amounts, growths, supply, fee) ==
    Fp(DecMul(FromFp(supply), Scale - RatioOf(
           GrowthsAfterFees(balances, amounts, growths, AverageGrowth(growths, weights), fee),
           weights)))

calcBptInGivenExactTokensOut(fpBalances, weights, fpAmountsOut, supply, fee) ==
    BptIn(FromFpAll(fpBalances), weights, FromFpAll(fpAmountsOut),
          Growths(fpBalances, [i \in DOMAIN fpBalances |-> fpBalances[i] - fpAmountsOut[i]]),
          supply, fee)

(* The fee on the part of an amount that the other tokens' weights stand   *)
(* for.                                                                    *)
FeeOnExcess(weight, fee) == DecMul(Scale - Weight(weight), FromFp(fee))

SupplyRatio(newSupply, supply) == DecDiv(FromFp(newSupply), FromFp(supply))

calcTokenInGivenExactBptOut(index, fpBalances, weights, fpBptOut, supply, fee) ==
    LET growth == ToInverseWeight(SupplyRatio(supply + fpBptOut, supply), weights[index])
        afterFee == DecMul(FromFp(fpBalances[index]), growth - Scale)
    IN  Fp(DecDiv(afterFee, Scale - FeeOnExcess(weights[index], fee)))

calcTokenOutGivenExactBptIn(index, fpBalances, weights, fpBptIn, supply, fee) ==
    LET growth == ToInverseWeight(SupplyRatio(supply - fpBptIn, supply), weights[index])
        beforeFee == DecMul(FromFp(fpBalances[index]), Scale - growth)
    IN  Fp(DecMul(beforeFee, Scale - FeeOnExcess(weights[index], fee)))

calcTokensOutGivenExactBptIn(fpBalances, fpBptIn, supply) ==
    [i \in DOMAIN fpBalances |->
        Fp(DecMul(FromFp(fpBalances[i]), DecDiv(FromFp(fpBptIn), FromFp(supply))))]

(* What a token has grown by since the invariant was lastInvariant.        *)
calculateOneTokenSwapFeeAmount(fpBalances, weights, lastInvariant, index) ==
    LET ratio == DecDiv(FromFp(lastInvariant), FromFp(calculateInvariant(fpBalances, weights)))
    IN  DecMul(FromFp(fpBalances[index]), Scale - ToInverseWeight(ratio, weights[index]))

(* Protocol fees in Pool tokens, for growth beyond that of the supply.     *)
calculateBPTSwapFeeAmount(fpGrowthRatio, preSupply, postSupply, fpPercentage) ==
    LET supplyGrowth == FpDiv(postSupply, preSupply)
        k == FpMul(One - FpDiv(supplyGrowth, fpGrowthRatio), fpPercentage)
    IN  IF fpGrowthRatio <= supplyGrowth THEN 0 ELSE (postSupply * k) \div (One - k)
=============================================================================
