---------------------------- MODULE WeightedPool ----------------------------
(***************************************************************************)
(* A Weighted Pool: its hooks, and the protocol's share of the swap fees,  *)
(* which is measured by the growth of the invariant and paid when the Pool *)
(* is next joined or exited.                                               *)
(***************************************************************************)
EXTENDS WeightedMath, BasePool

CONSTANT Weights              \* normalized weights, which add up to One

ASSUME WeightAssumption == Weights \in Seq(1..One) /\ Total(Weights) = One

Invariant(b) == calculateInvariant(Weights, b)
totalSupply == circulating

(* Protocol fees: a part of the invariant's growth beyond the supply's.    *)
getProtocolOwnershipPercentage(invariantGrowth, supplyGrowth, percentage) ==
    IF supplyGrowth >= invariantGrowth THEN 0
    ELSE mulDown(One - divDown(supplyGrowth, invariantGrowth), percentage)

getPreJoinExitProtocolFees(invariant) ==
    bptForPoolOwnershipPercentage(totalSupply,
        getProtocolOwnershipPercentage(divDown(invariant, lastInvariant), One,
                                       getProtocolFeePercentageCache))

getPostJoinExitProtocolFees(invariantGrowth, preSupply, postSupply) ==
    bptForPoolOwnershipPercentage(postSupply,
        getProtocolOwnershipPercentage(invariantGrowth, divDown(postSupply, preSupply),
                                       getProtocolFeePercentageCache))

dueProtocolFees == getPreJoinExitProtocolFees(Invariant(balances))
getActualSupply == totalSupply + dueProtocolFees

AtLeast(minimum, bptOut, amountsIn) ==
    IF bptOut < minimum THEN Failure ELSE Result(bptOut, amountsIn)
AtMost(maximum, bptIn, amountsOut) ==
    IF bptIn > maximum THEN Failure ELSE Result(bptIn, amountsOut)

joinExactTokensIn(data, supply) ==
    AtLeast(data.minimumBPT,
            calcBptOutGivenExactTokensIn(balances, Weights, data.amountsIn, supply, swapFee),
            data.amountsIn)

joinTokenIn(data, supply) ==
    Result(data.bptOut, OnlyToken(data.index,
        calcTokenInGivenExactBptOut(balances[data.index], Weights[data.index],
                                    data.bptOut, supply, swapFee)))

doJoin(data, supply) ==
    CASE data.kind = "EXACT_TOKENS_IN_FOR_BPT_OUT" -> joinExactTokensIn(data, supply)
      [] data.kind = "TOKEN_IN_FOR_EXACT_BPT_OUT" -> joinTokenIn(data, supply)
      [] data.kind = "ALL_TOKENS_IN_FOR_EXACT_BPT_OUT" ->
             Result(data.bptOut, ProportionalAmountsIn(data.bptOut, supply))
      [] OTHER -> Failure

exitTokenOut(data, supply) ==
    IF data.bptIn > supply THEN Failure ELSE Result(data.bptIn, OnlyToken(data.index,
        calcTokenOutGivenExactBptIn(balances[data.index], Weights[data.index],
                                    data.bptIn, supply, swapFee)))

exitExactTokensOut(data, supply) ==
    AtMost(data.maximumBPT,
           calcBptInGivenExactTokensOut(balances, Weights, data.amountsOut, supply, swapFee),
           data.amountsOut)

doExit(data, supply) ==
    CASE data.kind = "EXACT_BPT_IN_FOR_ONE_TOKEN_OUT" -> exitTokenOut(data, supply)
      [] data.kind = "EXACT_BPT_IN_FOR_TOKENS_OUT" ->
             Result(data.bptIn, ProportionalAmountsOut(data.bptIn, supply))
      [] data.kind = "BPT_IN_FOR_EXACT_TOKENS_OUT" -> exitExactTokensOut(data, supply)
      [] OTHER -> Failure

(* An invariant of zero reverts wherever it is computed.                   *)
Positive(invariant) == invariant \in Nat \ {0}

(* A join or an exit pays the protocol for the swaps before it, and for    *)
(* the swaps that it amounts to itself.                                    *)
SettledAt(result, preSupply, postSupply, invariant, due) ==
    IF ~Positive(invariant) THEN Failure
    ELSE WithFees(result,
             due + getPostJoinExitProtocolFees(divDown(invariant, Invariant(balances)),
                                               preSupply, postSupply),
             invariant)

Joined(result, preSupply, due) ==
    IF result = Failure THEN Failure
    ELSE SettledAt(result, preSupply, preSupply + result.bpt,
                   Invariant(Plus(balances, result.amounts)), due)

Exited(result, preSupply, due) ==
    IF result = Failure \/ result.bpt > preSupply \/ ~Available(result.amounts) THEN Failure
    ELSE SettledAt(result, preSupply, preSupply - result.bpt,
                   Invariant(Minus(balances, result.amounts)), due)

JoinPaying(due, data) == Joined(doJoin(data, totalSupply + due), totalSupply + due, due)
(* Mutant of ExitPaying: amounts for a supply without what is due.          *)
ExitBeforePaying(due, data) == Exited(doExit(data, totalSupply), totalSupply + due, due)
ExitPaying(due, data) == Exited(doExit(data, totalSupply + due), totalSupply + due, due)

onJoin(data) ==
    IF Positive(Invariant(balances)) THEN JoinPaying(dueProtocolFees, data) ELSE Failure
onExit(data) ==
    IF Positive(Invariant(balances)) THEN ExitPaying(dueProtocolFees, data) ELSE Failure

InitializeAt(recipient, data, invariant) ==
    /\ data.kind = "INIT" /\ Positive(invariant)
    /\ Initialize(recipient, data.amountsIn, invariant * Len(Weights), invariant)
InitializePool(recipient, data) == InitializeAt(recipient, data, Invariant(data.amountsIn))

AmountOut(in, out, amountIn) ==
    calcOutGivenIn(balances[in], Weights[in], balances[out], Weights[out],
                   subtractSwapFeeAmount(amountIn))

(* Mutant of AmountIn: the fee comes out of what the Pool needs.            *)
AmountInLessFee(in, out, amountOut) ==
    subtractSwapFeeAmount(
        calcInGivenOut(balances[in], Weights[in], balances[out], Weights[out], amountOut))

AmountIn(in, out, amountOut) ==
    addSwapFeeAmount(
        calcInGivenOut(balances[in], Weights[in], balances[out], Weights[out], amountOut))

updateProtocolFeePercentageCache ==
    Positive(Invariant(balances)) /\ UpdateFeeCache(dueProtocolFees, Invariant(balances))
disableRecoveryMode ==
    Positive(Invariant(balances)) /\ DisableRecoveryMode(Invariant(balances))
=============================================================================
