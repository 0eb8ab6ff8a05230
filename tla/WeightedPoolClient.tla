------------------------- MODULE WeightedPoolClient -------------------------
(***************************************************************************)
(* The TypeScript object that drives a Weighted Pool: it encodes requests, *)
(* fills in what they leave out, sends them through the Vault, and can     *)
(* estimate their results.                                                 *)
(***************************************************************************)
EXTENDS WeightedPool, BasePoolClient

CONSTANTS Scale,              \* the precision of the estimates
          WeightFractions,    \* the weights, as fractions
          AmountLists,        \* token amounts joins and exits ask for
          InitRequest         \* the request that initializes the Pool

ASSUME ScaleAssumption == Scale \in Nat \ {0} /\ Scale % One = 0

R == INSTANCE WeightedMathReference

(* One amount stands for the same amount of every token.                   *)
toList(amounts) ==
    IF "each" \in DOMAIN amounts THEN [i \in Tokens |-> amounts.each] ELSE amounts.list

(* The encoder's user data.                                                *)
joinInit(amountsIn) == [kind |-> "INIT", amountsIn |-> amountsIn]
joinExactTokensInForBPTOut(amountsIn, minimumBPT) ==
    [kind |-> "EXACT_TOKENS_IN_FOR_BPT_OUT", amountsIn |-> amountsIn, minimumBPT |-> minimumBPT]
joinTokenInForExactBPTOut(bptOut, index) ==
    [kind |-> "TOKEN_IN_FOR_EXACT_BPT_OUT", bptOut |-> bptOut, index |-> index]
joinAllTokensInForExactBPTOut(bptOut) ==
    [kind |-> "ALL_TOKENS_IN_FOR_EXACT_BPT_OUT", bptOut |-> bptOut]
exitExactBPTInForOneTokenOut(bptIn, index) ==
    [kind |-> "EXACT_BPT_IN_FOR_ONE_TOKEN_OUT", bptIn |-> bptIn, index |-> index]
exitExactBPTInForTokensOut(bptIn) ==
    [kind |-> "EXACT_BPT_IN_FOR_TOKENS_OUT", bptIn |-> bptIn]
exitBPTInForExactTokensOut(amountsOut, maximumBPT) ==
    [kind |-> "BPT_IN_FOR_EXACT_TOKENS_OUT", amountsOut |-> amountsOut, maximumBPT |-> maximumBPT]

buildInitParams(params) == joinInit(toList(params.initialBalances))
buildJoinGivenInParams(params) ==
    joinExactTokensInForBPTOut(toList(params.amountsIn), Field(params, "minimumBptOut", 0))
buildJoinGivenOutParams(params) == joinTokenInForExactBPTOut(params.bptOut, params.token)
buildJoinAllGivenOutParams(params) == joinAllTokensInForExactBPTOut(params.bptOut)
buildExitGivenOutParams(params) ==
    exitBPTInForExactTokensOut(toList(params.amountsOut), Field(params, "maximumBptIn", MaxUint256))
buildSingleExitGivenInParams(params) == exitExactBPTInForOneTokenOut(params.bptIn, params.token)
buildMultiExitGivenInParams(params) == exitExactBPTInForTokensOut(params.bptIn)

(* Estimates: the reference mathematics on the balances of the chain, with *)
(* the client's own copy of the swap fee and, unless it is told another    *)
(* one, the supply that the chain has before the next payment of fees.     *)
Supply(who) == IF who = "own" THEN totalSupply ELSE totalSupply + dueProtocolFees
Fee(who) == IF who = "own" THEN swapFeePercentage ELSE swapFee

estimateGivenIn(in, out, amount) ==
    R!Fp(R!calcOutGivenIn(balances[in], WeightFractions[in],
                        balances[out], WeightFractions[out], amount))
estimateGivenOut(in, out, amount) ==
    R!Fp(R!calcInGivenOut(balances[in], WeightFractions[in],
                        balances[out], WeightFractions[out], amount))
estimateBptOut(amountsIn, who) ==
    R!calcBptOutGivenExactTokensIn(balances, WeightFractions, amountsIn, Supply(who), Fee(who))
estimateTokenIn(token, bptOut, who) ==
    R!calcTokenInGivenExactBptOut(token, balances, WeightFractions, bptOut, Supply(who), Fee(who))
estimateTokenOut(token, bptIn, who) ==
    R!calcTokenOutGivenExactBptIn(token, balances, WeightFractions, bptIn, Supply(who), Fee(who))
estimateInvariant == R!calculateInvariant(balances, WeightFractions)

estimateBptIn(amountsOut, who) ==
    R!calcBptInGivenExactTokensOut(balances, WeightFractions, amountsOut, Supply(who), Fee(who))

getMaxInvariantDecrease == totalSupply - mulDown(MinInvariantRatio, totalSupply)
getMaxInvariantIncrease == mulDown(MaxInvariantRatio, totalSupply) - totalSupply
getMaxIn(token) == mulDown(balances[token], MaxInRatio)
getMaxOut(token) == mulDown(balances[token], MaxOutRatio)

RateAt(invariant) ==
    IF Initialized THEN MulDiv(invariant, One, totalSupply + getPreJoinExitProtocolFees(invariant)) ELSE 0
Rate == RateAt(Invariant(balances))

Call(op, estimates, outcome) == answer' = Answer(op, Rate, TRUE, estimates, outcome)

init(params) ==
    /\ Begin /\ answer' = Silent(0)
    /\ InitializePool(To(params), buildInitParams(params))

(* A call answers with what the Pool gives or takes.  Proportional joins   *)
(* and exits have no estimate.                                             *)
JoinForBpt(params, data, result) ==
    /\ Begin /\ joinPool(params, result)
    /\ Call("bptOut",
            [who \in Estimators |-> estimateBptOut(data.amountsIn, who)], result.bpt)
JoinForToken(params, data, result) ==
    /\ Begin /\ joinPool(params, result)
    /\ Call("tokenIn",
            [who \in Estimators |-> estimateTokenIn(data.index, data.bptOut, who)],
            result.amounts[data.index])
ExitForBpt(params, data, result) ==
    /\ Begin /\ exitPool(params, result)
    /\ Call("bptIn",
            [who \in Estimators |-> estimateBptIn(data.amountsOut, who)], result.bpt)
ExitForToken(params, data, result) ==
    /\ Begin /\ exitPool(params, result)
    /\ Call("tokenOut",
            [who \in Estimators |-> estimateTokenOut(data.index, data.bptIn, who)],
            result.amounts[data.index])

joinGivenIn(params) ==
    LET data == buildJoinGivenInParams(params) IN JoinForBpt(params, data, onJoin(data))
joinGivenOut(params) ==
    LET data == buildJoinGivenOutParams(params) IN JoinForToken(params, data, onJoin(data))
joinAllGivenOut(params) ==
    Begin /\ joinPool(params, onJoin(buildJoinAllGivenOutParams(params))) /\ answer' = Silent(Rate)

exitGivenOut(params) ==
    LET data == buildExitGivenOutParams(params) IN ExitForBpt(params, data, onExit(data))
singleExitGivenIn(params) ==
    LET data == buildSingleExitGivenInParams(params) IN ExitForToken(params, data, onExit(data))
multiExitGivenIn(params) ==
    /\ Begin /\ answer' = Silent(Rate)
    /\ exitPool(params, onExit(buildMultiExitGivenInParams(params)))

recoveryExit(params) ==
    /\ Begin /\ answer' = Silent(Rate)
    /\ RecoveryModeExit(Sender(params), To(params), buildRecoveryModeExitParams(params))

(* Swaps need a signer, and a recipient that tokens can be sent to.        *)
CanSwap(params) == "from" \in DOMAIN params /\ Field(params, "recipient", Zero) # Zero

SwapForToken(params, amountOut) ==
    /\ Begin /\ CanSwap(params)
    /\ Swap(params.in, params.out, params.amount, amountOut)
    /\ Call("tokenOut", Same(estimateGivenIn(params.in, params.out, params.amount)), amountOut)
SwapForExactToken(params, amountIn) ==
    /\ Begin /\ CanSwap(params)
    /\ Swap(params.in, params.out, amountIn, params.amount)
    /\ Call("tokenIn", Same(estimateGivenOut(params.in, params.out, params.amount)), amountIn)

swapGivenIn(params) == SwapForToken(params, AmountOut(params.in, params.out, params.amount))
swapGivenOut(params) == SwapForExactToken(params, AmountIn(params.in, params.out, params.amount))

QueryForBpt(data, result) ==
    Query("bptOut", result, Rate, TRUE,
          [who \in Estimators |-> estimateBptOut(data.amountsIn, who)], result.bpt)
QueryForExactBpt(data, result) ==
    Query("tokenIn", result, Rate, TRUE,
          [who \in Estimators |-> estimateTokenIn(data.index, data.bptOut, who)],
          result.amounts[data.index])
QueryForExactTokens(data, result) ==
    Query("bptIn", result, Rate, TRUE,
          [who \in Estimators |-> estimateBptIn(data.amountsOut, who)], result.bpt)
QueryForToken(data, result) ==
    Query("tokenOut", result, Rate, TRUE,
          [who \in Estimators |-> estimateTokenOut(data.index, data.bptIn, who)],
          result.amounts[data.index])

queryJoinGivenIn(params) ==
    LET data == buildJoinGivenInParams(params) IN QueryForBpt(data, onJoin(data))
queryJoinGivenOut(params) ==
    LET data == buildJoinGivenOutParams(params) IN QueryForExactBpt(data, onJoin(data))
queryJoinAllGivenOut(params) == QueryAmounts(onJoin(buildJoinAllGivenOutParams(params)), Rate)
queryExitGivenOut(params) ==
    LET data == buildExitGivenOutParams(params) IN QueryForExactTokens(data, onExit(data))
queryMultiExitGivenIn(params) == QueryAmounts(onExit(buildMultiExitGivenInParams(params)), Rate)
querySingleExitGivenIn(params) ==
    LET data == buildSingleExitGivenInParams(params) IN QueryForToken(data, onExit(data))

ClientInit ==
    /\ BaseInit(Len(Weights), swapFeePercentage)
    /\ answer = Silent(0)

(* The requests that are made.                                             *)
SwapWeightedPool(amounts) ==
    Requests({[in |-> i, out |-> o, amount |-> amounts[i][o]] : i, o \in Tokens})
JoinGivenInWeightedPool == Requests([amountsIn : AmountLists])
JoinGivenOutWeightedPool == Requests([token : Tokens, bptOut : BptAmounts])
JoinAllGivenOutWeightedPool == Requests([bptOut : BptAmounts])
ExitGivenOutWeightedPool == Requests([amountsOut : AmountLists])
SingleExitGivenInWeightedPool == Requests([token : Tokens, bptIn : BptAmounts])
MultiExitGivenInWeightedPool == Requests([bptIn : BptAmounts])

ClientNext ==
    \/ init(InitRequest)
    \/ \E params \in JoinGivenInWeightedPool : joinGivenIn(params)
    \/ \E params \in JoinGivenOutWeightedPool : joinGivenOut(params)
    \/ \E params \in JoinAllGivenOutWeightedPool : joinAllGivenOut(params)
    \/ \E params \in ExitGivenOutWeightedPool : exitGivenOut(params)
    \/ \E params \in SingleExitGivenInWeightedPool : singleExitGivenIn(params)
    \/ \E params \in MultiExitGivenInWeightedPool : multiExitGivenIn(params) \/ recoveryExit(params)
    \/ \E params \in SwapWeightedPool([in \in Tokens |-> [out \in Tokens |-> getMaxIn(in)]]) :
           swapGivenIn(params)
    \/ \E params \in SwapWeightedPool([in \in Tokens |-> [out \in Tokens |-> getMaxOut(out)]]) :
           swapGivenOut(params)
    \/ \E params \in JoinGivenInWeightedPool : queryJoinGivenIn(params)
    \/ \E params \in JoinGivenOutWeightedPool : queryJoinGivenOut(params)
    \/ \E params \in JoinAllGivenOutWeightedPool : queryJoinAllGivenOut(params)
    \/ \E params \in ExitGivenOutWeightedPool : queryExitGivenOut(params)
    \/ \E params \in SingleExitGivenInWeightedPool : querySingleExitGivenIn(params)
    \/ \E params \in MultiExitGivenInWeightedPool : queryMultiExitGivenIn(params)
    \/ Administer(updateProtocolFeePercentageCache, Rate)
    \/ Administer(disableRecoveryMode, Rate)
    \/ Governance(Rate)
=============================================================================
