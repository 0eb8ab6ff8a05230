---------------------------- MODULE WeightedMath ----------------------------
(***************************************************************************)
(* The mathematics of Weighted Pools as the contracts compute it, rounded  *)
(* in favour of the Pool.  A result below zero stands for the code's       *)
(* requirements on ratios and for subtractions that would go below zero.   *)
(***************************************************************************)
EXTENDS FixedPoint

MaxInRatio == (3 * One) \div 10
MaxOutRatio == (3 * One) \div 10
MaxInvariantRatio == 3 * One
MinInvariantRatio == (7 * One) \div 10

calculateInvariant(weights, balances) ==
    FoldLeft(LAMBDA v, i : mulDown(v, powDown(balances[i], weights[i])),
             One, [i \in DOMAIN balances |-> i])

calcOutGivenIn(balanceIn, weightIn, balanceOut, weightOut, amountIn) ==
    IF amountIn > mulDown(balanceIn, MaxInRatio) THEN -1
    ELSE mulDown(balanceOut, complement(
             powUp(divUp(balanceIn, balanceIn + amountIn), divDown(weightIn, weightOut))))

calcInGivenOut(balanceIn, weightIn, balanceOut, weightOut, amountOut) ==
    IF amountOut > mulDown(balanceOut, MaxOutRatio) THEN -1
    ELSE mulUp(balanceIn,
             powUp(divUp(balanceOut, balanceOut - amountOut), divUp(weightOut, weightIn)) - One)

(* A ratio of invariants is the product of the growth of each token.       *)
RatioOf(weights, balances, newBalances) ==
    FoldLeft(LAMBDA ratio, i :
                 IF newBalances[i] = balances[i] THEN ratio
                 ELSE mulDown(ratio, powDown(divDown(newBalances[i], balances[i]), weights[i])),
             One, [i \in DOMAIN balances |-> i])

(* Joins and exits pay swap fees on what exceeds the Pool's mean growth.   *)
MeanGrowthDown(growths, weights) ==
    Total([i \in DOMAIN growths |-> mulDown(growths[i], weights[i])])
MeanGrowthUp(growths, weights) ==
    Total([i \in DOMAIN growths |-> mulUp(growths[i], weights[i])])

LessFee(amount, nonTaxable, fee) == amount - mulUp(amount - nonTaxable, fee)
PlusFee(amount, nonTaxable, fee) == nonTaxable + divUp(amount - nonTaxable, complement(fee))

BalancesAfterJoin(balances, amounts, growths, mean, fee) ==
    [i \in DOMAIN balances |-> balances[i] +
        IF growths[i] <= mean THEN amounts[i]
        ELSE LessFee(amounts[i], IF mean > One THEN mulDown(balances[i], mean - One) ELSE 0, fee)]

BalancesAfterExit(balances, amounts, growths, mean, fee) ==
    [i \in DOMAIN balances |-> balances[i] -
        IF growths[i] >= mean THEN amounts[i]
        ELSE PlusFee(amounts[i], mulDown(balances[i], complement(mean)), fee)]

BptOut(supply, ratio) == IF ratio > One THEN mulDown(supply, ratio - One) ELSE 0

calcBptOutGivenExactTokensIn(balances, weights, amountsIn, supply, fee) ==
    LET growths == [i \in DOMAIN balances |-> divDown(balances[i] + amountsIn[i], balances[i])]
    IN  BptOut(supply, RatioOf(weights, balances,
                   BalancesAfterJoin(balances, amountsIn, growths,
                                     MeanGrowthDown(growths, weights), fee)))

BptIn(supply, weights, balances, newBalances) ==
    IF \E i \in DOMAIN balances : newBalances[i] < 0 THEN -1
    ELSE mulUp(supply, complement(RatioOf(weights, balances, newBalances)))

calcBptInGivenExactTokensOut(balances, weights, amountsOut, supply, fee) ==
    LET growths == [i \in DOMAIN balances |-> divUp(balances[i] - amountsOut[i], balances[i])]
    IN  BptIn(supply, weights, balances,
              BalancesAfterExit(balances, amountsOut, growths,
                                MeanGrowthUp(growths, weights), fee))

(* The fee on a single token is on the part the other tokens stand for.    *)
TokenInWithFee(amount, taxable, fee) == amount - taxable + divUp(taxable, complement(fee))
TokenOutWithFee(amount, taxable, fee) == amount - taxable + mulUp(taxable, complement(fee))

SingleTokenIn(amount, weight, fee) == TokenInWithFee(amount, mulUp(amount, complement(weight)), fee)
SingleTokenOut(amount, weight, fee) == TokenOutWithFee(amount, mulUp(amount, complement(weight)), fee)

calcTokenInGivenExactBptOut(balance, weight, bptOut, supply, fee) ==
    LET ratio == divUp(supply + bptOut, supply)
    IN  IF ratio > MaxInvariantRatio THEN -1
        ELSE SingleTokenIn(mulUp(balance, powUp(ratio, divUp(One, weight)) - One), weight, fee)

calcTokenOutGivenExactBptIn(balance, weight, bptIn, supply, fee) ==
    LET ratio == divUp(supply - bptIn, supply)
    IN  IF ratio < MinInvariantRatio THEN -1
        ELSE SingleTokenOut(mulDown(balance, complement(powUp(ratio, divDown(One, weight)))),
                            weight, fee)
=============================================================================
