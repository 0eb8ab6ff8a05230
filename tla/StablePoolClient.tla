-------------------------- MODULE StablePoolClient --------------------------
(***************************************************************************)
(* The TypeScript object that drives a Composable Stable Pool.  It keeps   *)
(* the amplification parameter that the Pool was deployed with, and knows  *)
(* the supply from what the Vault holds.  Lists may have a slot for the    *)
(* Pool token, which the client drops; tokens are numbered without it.     *)
(***************************************************************************)
EXTENDS StablePool, BasePoolClient

CONSTANTS Scale,              \* the precision of the estimates
          StableAmounts,      \* amounts of joins and exits, with a slot for the Pool token
          StableInitRequest,  \* the request that initializes the Pool
          StableAmount,       \* of a swap, and of Pool tokens joined or exited for
          AmpTargets          \* what the owner moves the parameter to

R == INSTANCE StableMathReference

amplificationParameter == InitialAmp
PREMINTED_BPT == (2 * PREMINTED - 1) \div 2

(* The Vault's record of the registered tokens, the Pool token included.   *)
Registered == 1..Len(balances) + 1
getBalances ==
    [i \in Registered |->
        IF i = bptIndex THEN bptBalance ELSE balances[IF i < bptIndex THEN i ELSE i - 1]]
virtualTotalSupply == PREMINTED_BPT - getBalances[bptIndex]

skipBptIndex(index) == IF index < bptIndex THEN index ELSE index - 1
dropBptItem(items) ==
    [i \in 1..Len(items) - 1 |-> items[IF i < bptIndex THEN i ELSE i + 1]]
toList(items) == IF "each" \in DOMAIN items THEN <<items.each>> ELSE items.list

(* The encoder's user data.                                                *)
joinInit(amountsIn) == [kind |-> "INIT", amountsIn |-> amountsIn]
joinExactTokensInForBPTOut(amountsIn, minimumBPT) ==
    [kind |-> "EXACT_TOKENS_IN_FOR_BPT_OUT", amountsIn |-> amountsIn, minimumBPT |-> minimumBPT]
joinTokenInForExactBPTOut(bptOut, index) ==
    [kind |-> "TOKEN_IN_FOR_EXACT_BPT_OUT", bptOut |-> bptOut, index |-> index]
joinAllTokensInForExactBptOut(bptOut) ==
    [kind |-> "ALL_TOKENS_IN_FOR_EXACT_BPT_OUT", bptOut |-> bptOut]
exitExactBPTInForOneTokenOut(bptIn, index) ==
    [kind |-> "EXACT_BPT_IN_FOR_ONE_TOKEN_OUT", bptIn |-> bptIn, index |-> index]
exitBPTInForExactTokensOut(amountsOut, maximumBPT) ==
    [kind |-> "BPT_IN_FOR_EXACT_TOKENS_OUT", amountsOut |-> amountsOut, maximumBPT |-> maximumBPT]
exitExactBptInForTokensOut(bptIn) ==
    [kind |-> "EXACT_BPT_IN_FOR_ALL_TOKENS_OUT", bptIn |-> bptIn]

buildInitParams(params) ==
    joinInit(IF "each" \in DOMAIN params.initialBalances
             THEN [i \in Tokens |-> params.initialBalances.each]
             ELSE params.initialBalances.list)
buildJoinGivenInParams(params) ==
    joinExactTokensInForBPTOut(dropBptItem(toList(params.amountsIn)),
                               Field(params, "minimumBptOut", 0))
buildSingleJoinGivenOutParams(params) == joinTokenInForExactBPTOut(params.bptOut, params.token)
buildJoinGivenOutParams(params) == joinAllTokensInForExactBptOut(params.bptOut)
buildExitGivenOutParams(params) ==
    exitBPTInForExactTokensOut(dropBptItem(toList(params.amountsOut)),
                               Field(params, "maximumBptIn", MaxUint256))
buildSingleExitGivenInParams(params) == exitExactBPTInForOneTokenOut(params.bptIn, params.token)
buildExitGivenInParams(params) == exitExactBptInForTokensOut(params.bptIn)

(* Estimates, with the parameter of the deployment.  Those of swaps with   *)
(* the Pool token take no account of swap fees.  The client takes the      *)
(* premint for one unit less than it is, and does not see Pool tokens that *)
(* are due, minted or burnt; who is informed knows the parameter, too.     *)
Amp(who) ==
    IF who = "own" THEN amplificationParameter ELSE getAmplificationParameter \div AmpPrecision
Supply(who) == IF who = "own" THEN virtualTotalSupply ELSE circulating + dueProtocolFees

InvariantOf(who) == R!calculateInvariant(dropBptItem(getBalances), Amp(who))
estimateInvariant == InvariantOf("own")

estimateTokenOutGivenTokenIn(in, out, amountIn, who) ==
    R!Fp(R!calcOutGivenIn(dropBptItem(getBalances), Amp(who),
                          skipBptIndex(in), skipBptIndex(out), amountIn))
estimateTokenInGivenTokenOut(in, out, amountOut, who) ==
    R!Fp(R!calcInGivenOut(dropBptItem(getBalances), Amp(who),
                          skipBptIndex(in), skipBptIndex(out), amountOut))
estimateTokenOutGivenBptIn(token, bptIn, who) ==
    R!calcTokenOutGivenExactBptIn(token, dropBptItem(getBalances), Amp(who), bptIn,
                                  Supply(who), InvariantOf(who), 0)
estimateTokenInGivenBptOut(token, bptOut, who) ==
    R!calcTokenInGivenExactBptOut(token, dropBptItem(getBalances), Amp(who), bptOut,
                                  Supply(who), InvariantOf(who), 0)
estimateBptOutGivenTokenIn(token, amountIn, who) ==
    R!calcBptOutGivenExactTokensIn(dropBptItem(getBalances), Amp(who), OnlyToken(token, amountIn),
                                   Supply(who), InvariantOf(who), 0)
estimateBptInGivenTokenOut(token, amountOut, who) ==
    R!calcBptInGivenExactTokensOut(dropBptItem(getBalances), Amp(who), OnlyToken(token, amountOut),
                                   Supply(who), InvariantOf(who), 0)
estimateBptOut(amountsIn, who) ==
    R!calcBptOutGivenExactTokensIn(dropBptItem(getBalances), Amp(who), amountsIn,
                                   Supply(who), InvariantOf(who), swapFee)

(* The parameter is still that of the deployment, and the supply that the  *)
(* client computes is not too large, as it is after Pool tokens were burnt *)
(* that the Vault never held.                                              *)
Current ==
    /\ getAmplificationParameter = amplificationParameter * AmpPrecision
    /\ virtualTotalSupply <= Supply("informed")

RateAt(invariant) ==
    IF Initialized THEN MulDiv(invariant, One, circulating + dueProtocolFees) ELSE 0
Rate == RateAt(InvariantAt(getAmplificationParameter))

Call(op, estimates, outcome) == answer' = Answer(op, Rate, Current, estimates, outcome)

init(params) ==
    /\ Begin /\ answer' = Silent(0)
    /\ InitializePool(To(params), buildInitParams(params))

JoinForBpt(params, data, result) ==
    /\ Begin /\ joinPool(params, result) /\ SettlesNow /\ UNCHANGED bptBalance
    /\ Call("bptOut",
            [who \in Estimators |-> estimateBptOut(data.amountsIn, who)], result.bpt)
JoinForToken(params, data, result) ==
    /\ Begin /\ joinPool(params, result) /\ SettlesNow /\ UNCHANGED bptBalance
    /\ Call("tokenIn",
            [who \in Estimators |-> estimateTokenInGivenBptOut(data.index, data.bptOut, who)],
            result.amounts[data.index])
ExitForToken(params, data, result) ==
    /\ Begin /\ exitPool(params, result) /\ SettlesNow /\ UNCHANGED bptBalance
    /\ Call("tokenOut",
            [who \in Estimators |-> estimateTokenOutGivenBptIn(data.index, data.bptIn, who)],
            result.amounts[data.index])

joinGivenIn(params) ==
    LET data == buildJoinGivenInParams(params) IN JoinForBpt(params, data, onJoin(data))
singleJoinGivenOut(params) ==
    LET data == buildSingleJoinGivenOutParams(params) IN JoinForToken(params, data, onJoin(data))
joinGivenOut(params) ==
    /\ Begin /\ answer' = Silent(Rate)
    /\ joinPool(params, onJoin(buildJoinGivenOutParams(params)))
    /\ SettlesNow /\ UNCHANGED bptBalance
exitGivenOut(params) ==
    /\ Begin /\ answer' = Silent(Rate)
    /\ exitPool(params, onExit(buildExitGivenOutParams(params)))
    /\ SettlesNow /\ UNCHANGED bptBalance
singleExitGivenIn(params) ==
    LET data == buildSingleExitGivenInParams(params) IN ExitForToken(params, data, onExit(data))
exitGivenIn(params) ==
    /\ Begin /\ answer' = Silent(Rate)
    /\ exitPool(params, onExit(buildExitGivenInParams(params)))
    /\ SettlesNow /\ UNCHANGED bptBalance
recoveryExit(params) ==
    /\ Begin /\ answer' = Silent(Rate)
    /\ RecoveryModeExit(Sender(params), To(params), buildRecoveryModeExitParams(params))
    /\ UNCHANGED stableVars

(* Swaps name registered tokens; the Vault sends nothing to address(0).    *)
Recipient(params) == Field(params, "recipient", Zero)
BetweenTokens(params) == bptIndex \notin {params.in, params.out} /\ UNCHANGED stableVars

SwapForToken(params, amountOut) ==
    /\ Begin /\ Recipient(params) # Zero /\ BetweenTokens(params)
    /\ Swap(skipBptIndex(params.in), skipBptIndex(params.out), params.amount, amountOut)
    /\ Call("tokenOut",
            [who \in Estimators |->
                estimateTokenOutGivenTokenIn(params.in, params.out, params.amount, who)],
            amountOut)
SwapForExactToken(params, amountIn) ==
    /\ Begin /\ Recipient(params) # Zero /\ BetweenTokens(params)
    /\ Swap(skipBptIndex(params.in), skipBptIndex(params.out), amountIn, params.amount)
    /\ Call("tokenIn",
            [who \in Estimators |->
                estimateTokenInGivenTokenOut(params.in, params.out, params.amount, who)],
            amountIn)

SwapForBpt(params, result) ==
    /\ Begin /\ Recipient(params) # Zero
    /\ params.out = bptIndex /\ params.in # bptIndex
    /\ JoinSwap(Recipient(params), result)
    /\ Call("bptOut",
            [who \in Estimators |->
                estimateBptOutGivenTokenIn(skipBptIndex(params.in), params.amount, who)],
            result.bpt)
SwapForExactBpt(params, result) ==
    /\ Begin /\ Recipient(params) # Zero
    /\ params.out = bptIndex /\ params.in # bptIndex
    /\ JoinSwap(Recipient(params), result)
    /\ Call("tokenIn",
            [who \in Estimators |->
                estimateTokenInGivenBptOut(skipBptIndex(params.in), params.amount, who)],
            result.amounts[skipBptIndex(params.in)])
SwapOfExactBpt(params, result) ==
    /\ Begin /\ params.in = bptIndex /\ params.out # bptIndex
    /\ ExitSwap(Sender(params), Recipient(params), result)
    /\ Call("tokenOut",
            [who \in Estimators |->
                estimateTokenOutGivenBptIn(skipBptIndex(params.out), params.amount, who)],
            result.amounts[skipBptIndex(params.out)])
SwapOfBpt(params, result) ==
    /\ Begin /\ params.in = bptIndex /\ params.out # bptIndex
    /\ ExitSwap(Sender(params), Recipient(params), result)
    /\ Call("bptIn",
            [who \in Estimators |->
                estimateBptInGivenTokenOut(skipBptIndex(params.out), params.amount, who)],
            result.bpt)

swapGivenIn(params) ==
    \/ SwapForToken(params, AmountOut(skipBptIndex(params.in), skipBptIndex(params.out), params.amount))
    \/ SwapForBpt(params, JoinSwapGivenIn(skipBptIndex(params.in), params.amount))
    \/ SwapOfExactBpt(params, ExitSwapGivenIn(skipBptIndex(params.out), params.amount))
swapGivenOut(params) ==
    \/ SwapForExactToken(params, AmountIn(skipBptIndex(params.in), skipBptIndex(params.out), params.amount))
    \/ SwapForExactBpt(params, JoinSwapGivenOut(skipBptIndex(params.in), params.amount))
    \/ SwapOfBpt(params, ExitSwapGivenOut(skipBptIndex(params.out), params.amount))

(* Queries of joins and exits go to the Pool, those of swaps to the Vault. *)
QueryForBpt(data, result) ==
    Query("bptOut", result, Rate, Current,
          [who \in Estimators |-> estimateBptOut(data.amountsIn, who)], result.bpt)
QueryForExactBpt(data, result) ==
    Query("tokenIn", result, Rate, Current,
          [who \in Estimators |-> estimateTokenInGivenBptOut(data.index, data.bptOut, who)],
          result.amounts[data.index])
QueryForToken(data, result) ==
    Query("tokenOut", result, Rate, Current,
          [who \in Estimators |-> estimateTokenOutGivenBptIn(data.index, data.bptIn, who)],
          result.amounts[data.index])

queryJoinGivenIn(params) ==
    /\ LET data == buildJoinGivenInParams(params) IN QueryForBpt(data, onJoin(data))
    /\ UNCHANGED stableVars
querySingleExitGivenIn(params) ==
    /\ LET data == buildSingleExitGivenInParams(params) IN QueryForToken(data, onExit(data))
    /\ UNCHANGED stableVars

querySingleJoinGivenOut(params) ==
    /\ LET data == buildSingleJoinGivenOutParams(params) IN QueryForExactBpt(data, onJoin(data))
    /\ UNCHANGED stableVars
queryJoinGivenOut(params) ==
    /\ QueryAmounts(onJoin(buildJoinGivenOutParams(params)), Rate)
    /\ UNCHANGED stableVars
queryExitGivenOut(params) ==
    /\ QueryAmounts(onExit(buildExitGivenOutParams(params)), Rate)
    /\ UNCHANGED stableVars
queryExitGivenIn(params) ==
    /\ QueryAmounts(onExit(buildExitGivenInParams(params)), Rate)
    /\ UNCHANGED stableVars

QuerySwapForToken(params, amountOut) ==
    /\ Queried(amountOut \in Nat,
               Answer("tokenOut", Rate, Current,
                      [who \in Estimators |->
                          estimateTokenOutGivenTokenIn(params.in, params.out, params.amount, who)],
                      amountOut))
    /\ UNCHANGED stableVars
QuerySwapForExactToken(params, amountIn) ==
    /\ Queried(amountIn \in Nat,
               Answer("tokenIn", Rate, Current,
                      [who \in Estimators |->
                          estimateTokenInGivenTokenOut(params.in, params.out, params.amount, who)],
                      amountIn))
    /\ UNCHANGED stableVars
QuerySwapForBpt(params, result) ==
    /\ Query("bptOut", result, Rate, Current,
             [who \in Estimators |->
                 estimateBptOutGivenTokenIn(skipBptIndex(params.in), params.amount, who)],
             result.bpt)
    /\ UNCHANGED stableVars
QuerySwapOfBpt(params, result) ==
    /\ Query("bptIn", result, Rate, Current,
             [who \in Estimators |->
                 estimateBptInGivenTokenOut(skipBptIndex(params.out), params.amount, who)],
             result.bpt)
    /\ UNCHANGED stableVars

querySwapGivenIn(params) ==
    \/ /\ bptIndex \notin {params.in, params.out} /\ params.in # params.out
       /\ QuerySwapForToken(params,
              AmountOut(skipBptIndex(params.in), skipBptIndex(params.out), params.amount))
    \/ /\ params.in = bptIndex /\ params.out # bptIndex
       /\ LET data == exitExactBPTInForOneTokenOut(params.amount, skipBptIndex(params.out))
          IN  QueryForToken(data, ExitSwapGivenIn(data.index, params.amount))
       /\ UNCHANGED stableVars
    \/ /\ params.out = bptIndex /\ params.in # bptIndex
       /\ QuerySwapForBpt(params, JoinSwapGivenIn(skipBptIndex(params.in), params.amount))
querySwapGivenOut(params) ==
    \/ /\ bptIndex \notin {params.in, params.out} /\ params.in # params.out
       /\ QuerySwapForExactToken(params,
              AmountIn(skipBptIndex(params.in), skipBptIndex(params.out), params.amount))
    \/ /\ params.out = bptIndex /\ params.in # bptIndex
       /\ LET data == joinTokenInForExactBPTOut(params.amount, skipBptIndex(params.in))
          IN  QueryForExactBpt(data, JoinSwapGivenOut(data.index, params.amount))
       /\ UNCHANGED stableVars
    \/ /\ params.in = bptIndex /\ params.out # bptIndex
       /\ QuerySwapOfBpt(params, ExitSwapGivenOut(skipBptIndex(params.out), params.amount))

startAmpChange(params) ==
    Administer(startAmplificationParameterUpdate(params.newAmp, Field(params, "endTime", now + 2 * Day)),
               Rate)

StableClientInit ==
    /\ StableInit(Len(StableInitRequest.initialBalances.list) - 1, swapFeePercentage)
    /\ answer = Silent(0)

(* The requests that are made.                                             *)
SwapStablePool == Requests([in : Registered, out : Registered, amount : {StableAmount}])
JoinGivenInStablePool == Requests([amountsIn : StableAmounts])
SingleJoinGivenOutStablePool == Requests([token : Tokens, bptOut : {StableAmount}])
MultiJoinGivenOutStablePool == Requests([bptOut : {StableAmount}])
ExitGivenOutStablePool == Requests([amountsOut : StableAmounts])
SingleExitGivenInStablePool == Requests([token : Tokens, bptIn : {StableAmount}])
MultiExitGivenInStablePool == Requests([bptIn : {StableAmount}])

StableClientNext ==
    \/ init(StableInitRequest)
    \/ \E params \in JoinGivenInStablePool : joinGivenIn(params)
    \/ \E params \in SingleJoinGivenOutStablePool : singleJoinGivenOut(params)
    \/ \E params \in MultiJoinGivenOutStablePool : joinGivenOut(params)
    \/ \E params \in ExitGivenOutStablePool : exitGivenOut(params)
    \/ \E params \in SingleExitGivenInStablePool : singleExitGivenIn(params)
    \/ \E params \in MultiExitGivenInStablePool : exitGivenIn(params) \/ recoveryExit(params)
    \/ \E params \in SwapStablePool : swapGivenIn(params) \/ swapGivenOut(params)
    \/ \E params \in JoinGivenInStablePool : queryJoinGivenIn(params)
    \/ \E params \in SingleExitGivenInStablePool : querySingleExitGivenIn(params)
    \/ \E params \in SingleJoinGivenOutStablePool : querySingleJoinGivenOut(params)
    \/ \E params \in MultiJoinGivenOutStablePool : queryJoinGivenOut(params)
    \/ \E params \in ExitGivenOutStablePool : queryExitGivenOut(params)
    \/ \E params \in MultiExitGivenInStablePool : queryExitGivenIn(params)
    \/ \E params \in SwapStablePool : querySwapGivenIn(params) \/ querySwapGivenOut(params)
    \/ \E amp \in AmpTargets : startAmpChange([newAmp |-> amp])
    \/ Administer(stopAmplificationParameterUpdate, Rate)
    \/ Administer(updateProtocolFeePercentageCache, Rate)
    \/ Administer(disableRecoveryMode, Rate)
    \/ Governance(Rate) /\ UNCHANGED stableVars
    \/ calls < MaxCalls /\ isUpdating /\ Tick /\ answer' = Silent(0) /\ UNCHANGED calls
=============================================================================
