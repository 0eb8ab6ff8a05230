----------------------------- MODULE StableMath -----------------------------
(***************************************************************************)
(* The mathematics of Stable Pools as the contracts compute it: integers,  *)
(* rounded in favour of the Pool.  A result below zero stands for a        *)
(* subtraction that reverts.                                               *)
(***************************************************************************)
EXTENDS FixedPoint

CONSTANT AmpPrecision   \* _AMP_PRECISION

MaxRounds == 255

(* Newton's iterations stop when two values are a unit apart; one that     *)
(* does not converge reverts.                                              *)
Newton(Next(_), start) ==
    LET iterate[i \in Nat, old \in Int, new \in Int] ==
            IF new - old \in -1..1 THEN new
            ELSE IF i = MaxRounds THEN -1 ELSE iterate[i + 1, new, Next(new)]
    IN  iterate[1, start, Next(start)]

ProductDown(balances, invariant) ==
    FoldLeft(LAMBDA d, b : MulDiv(d, invariant, b * Len(balances)), invariant, balances)

(* Mutant of NextInvariant: another step of Newton's iteration.            *)
NextInvariantOfFewer(ampTimesTotal, sum, n, D_P, invariant) ==
    MulDiv((ampTimesTotal * sum) \div AmpPrecision + D_P * n, invariant,
           ((ampTimesTotal - AmpPrecision) * invariant) \div AmpPrecision + n * D_P)

NextInvariant(ampTimesTotal, sum, n, D_P, invariant) ==
    MulDiv((ampTimesTotal * sum) \div AmpPrecision + D_P * n, invariant,
           ((ampTimesTotal - AmpPrecision) * invariant) \div AmpPrecision + (n + 1) * D_P)

calculateInvariant(amp, balances) ==
    IF Total(balances) = 0 THEN 0
    ELSE Newton(LAMBDA invariant :
                    NextInvariant(amp * Len(balances), Total(balances), Len(balances),
                                  ProductDown(balances, invariant), invariant),
                Total(balances))

(* The balance of a token that the others leave at an invariant.           *)
ProductOfShares(balances, invariant) ==
    FoldLeft(LAMBDA p, b : MulDiv(p * Len(balances), b, invariant),
             balances[1] * Len(balances), Tail(balances))

SolveBalance(b, c, invariant) ==
    Newton(LAMBDA balance : QuotientUp(balance * balance + c, 2 * balance + b - invariant),
           QuotientUp(invariant * invariant + c, invariant + b))

getTokenBalanceGivenInvariantAndAllOtherBalances(amp, balances, invariant, index) ==
    LET ampTimesTotal == amp * Len(balances)
    IN  SolveBalance(
            Total(balances) - balances[index] + (invariant \div ampTimesTotal) * AmpPrecision,
            QuotientUp(invariant * invariant, ampTimesTotal * ProductOfShares(balances, invariant))
                * AmpPrecision * balances[index],
            invariant)

calcOutGivenIn(amp, balances, in, out, amountIn, invariant) ==
    balances[out] - 1 - getTokenBalanceGivenInvariantAndAllOtherBalances(
        amp, [balances EXCEPT ![in] = @ + amountIn], invariant, out)

calcInGivenOut(amp, balances, in, out, amountOut, invariant) ==
    IF amountOut >= balances[out] THEN -1
    ELSE getTokenBalanceGivenInvariantAndAllOtherBalances(
             amp, [balances EXCEPT ![out] = @ - amountOut], invariant, in) + 1 - balances[in]

(* Joins and exits pay swap fees on what exceeds the Pool's mean growth.   *)
MeanGrowthDown(growths, balances) ==
    Total([i \in DOMAIN growths |-> mulDown(growths[i], divDown(balances[i], Total(balances)))])
MeanGrowthUp(growths, balances) ==
    Total([i \in DOMAIN growths |-> mulUp(growths[i], divUp(balances[i], Total(balances)))])

LessFee(amount, nonTaxable, fee) == nonTaxable + mulDown(amount - nonTaxable, One - fee)
PlusFee(amount, nonTaxable, fee) == nonTaxable + divUp(amount - nonTaxable, One - fee)

BalancesAfterJoin(balances, amounts, growths, mean, fee) ==
    [i \in DOMAIN balances |-> balances[i] +
        IF growths[i] <= mean THEN amounts[i]
        ELSE LessFee(amounts[i], mulDown(balances[i], mean - One), fee)]

BalancesAfterExit(balances, amounts, growths, mean, fee) ==
    [i \in DOMAIN balances |-> balances[i] -
        IF growths[i] >= mean THEN amounts[i]
        ELSE PlusFee(amounts[i], mulDown(balances[i], complement(mean)), fee)]

BptOut(supply, ratio) == IF ratio > One THEN mulDown(supply, ratio - One) ELSE 0
BptIn(supply, ratio) == mulUp(supply, complement(ratio))

calcBptOutGivenExactTokensIn(amp, balances, amountsIn, supply, currentInvariant, fee) ==
    LET growths == [i \in DOMAIN balances |-> divDown(balances[i] + amountsIn[i], balances[i])]
        After(mean) ==
            IF mean < One /\ \E i \in DOMAIN growths : growths[i] > mean THEN -1
            ELSE BptOut(supply, divDown(calculateInvariant(amp,
                     BalancesAfterJoin(balances, amountsIn, growths, mean, fee)), currentInvariant))
    IN  After(MeanGrowthDown(growths, balances))

calcBptInGivenExactTokensOut(amp, balances, amountsOut, supply, currentInvariant, fee) ==
    LET growths == [i \in DOMAIN balances |-> divUp(balances[i] - amountsOut[i], balances[i])]
        Into(newBalances) ==
            IF \E i \in DOMAIN newBalances : newBalances[i] <= 0 THEN -1
            ELSE BptIn(supply, divDown(calculateInvariant(amp, newBalances), currentInvariant))
    IN  Into(BalancesAfterExit(balances, amountsOut, growths, MeanGrowthUp(growths, balances), fee))

(* The fee on a single token is on the part the other tokens stand for.    *)
TokenInWithFee(amount, taxable, fee) == amount - taxable + divUp(taxable, One - fee)
TokenOutWithFee(amount, taxable, fee) ==
    IF amount < 0 THEN -1 ELSE amount - taxable + mulDown(taxable, One - fee)

TaxableAmount(balances, index, amount) ==
    mulUp(amount, complement(divDown(balances[index], Total(balances))))

SingleTokenIn(balances, index, amount, fee) ==
    TokenInWithFee(amount, TaxableAmount(balances, index, amount), fee)
SingleTokenOut(balances, index, amount, fee) ==
    TokenOutWithFee(amount, TaxableAmount(balances, index, amount), fee)

calcTokenInGivenExactBptOut(amp, balances, index, bptOut, supply, currentInvariant, fee) ==
    SingleTokenIn(balances, index,
        getTokenBalanceGivenInvariantAndAllOtherBalances(
            amp, balances, mulUp(divUp(supply + bptOut, supply), currentInvariant), index)
          - balances[index],
        fee)

calcTokenOutGivenExactBptIn(amp, balances, index, bptIn, supply, currentInvariant, fee) ==
    SingleTokenOut(balances, index,
        balances[index] - getTokenBalanceGivenInvariantAndAllOtherBalances(
            amp, balances, mulUp(divUp(supply - bptIn, supply), currentInvariant), index),
        fee)
=============================================================================
