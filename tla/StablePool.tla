----------------------------- MODULE StablePool -----------------------------
(***************************************************************************)
(* A Composable Stable Pool.  The Pool token is one of the tokens that it  *)
(* trades: the Vault holds a huge amount of it from the start, and only    *)
(* what is outside counts as supply.  The amplification parameter moves    *)
(* linearly in time, and the growth that the protocol is paid for is       *)
(* measured at the parameter of the last join or exit.                     *)
(***************************************************************************)
EXTENDS StableMath, BasePool

CONSTANTS PREMINTED,          \* _PREMINTED_TOKEN_BALANCE
          bptIndex,           \* of the Pool token among the registered tokens
          InitialAmp,
          MinAmp,
          MaxAmp,
          MaxAmpUpdateDailyRate,
          Day,
          MinUpdateTime

VARIABLES bptBalance,         \* Pool tokens that the Vault holds for the Pool
          amplification,      \* the last parameter update
          lastAmp,            \* the parameter at the last join or exit
          now

stableVars == <<bptBalance, amplification, lastAmp, now>>

StableTypeOK ==
    /\ BaseTypeOK
    /\ bptBalance \in Nat
    /\ {amplification.start, amplification.end} \subseteq MinAmp * AmpPrecision..MaxAmp * AmpPrecision
    /\ amplification.startTime <= amplification.endTime
    /\ lastAmp \in 0..MaxAmp * AmpPrecision

(* The parameter now, between two values while an update is on.            *)
Moved(from, to, elapsed, duration) ==
    IF to > from THEN from + ((to - from) * elapsed) \div duration
    ELSE from - ((from - to) * elapsed) \div duration

isUpdating == now < amplification.endTime
getAmplificationParameter ==
    IF isUpdating
    THEN Moved(amplification.start, amplification.end, now - amplification.startTime,
               amplification.endTime - amplification.startTime)
    ELSE amplification.end

Constantly(value) == [start |-> value, end |-> value, startTime |-> now, endTime |-> now]

DailyRate(from, to, duration) ==
    IF to > from THEN QuotientUp(Day * to, from * duration)
    ELSE QuotientUp(Day * from, to * duration)

startAmplificationParameterUpdate(rawEndValue, endTime) ==
    /\ rawEndValue \in MinAmp..MaxAmp
    /\ endTime - now >= MinUpdateTime
    /\ ~isUpdating
    /\ DailyRate(getAmplificationParameter, rawEndValue * AmpPrecision, endTime - now)
           <= MaxAmpUpdateDailyRate
    /\ amplification' = [start |-> getAmplificationParameter, end |-> rawEndValue * AmpPrecision,
                         startTime |-> now, endTime |-> endTime]
    /\ UNCHANGED <<baseVars, bptBalance, lastAmp, now>>

stopAmplificationParameterUpdate ==
    /\ isUpdating
    /\ amplification' = Constantly(getAmplificationParameter)
    /\ UNCHANGED <<baseVars, bptBalance, lastAmp, now>>

Tick ==
    /\ now' = now + 1
    /\ UNCHANGED <<baseVars, bptBalance, amplification, lastAmp>>

(* Protocol fees: a part of the share of the invariant that grew.          *)
InvariantAt(amp) == calculateInvariant(amp, balances)

getProtocolPoolOwnershipPercentage(invariant) ==
    mulDown(divDown(IF invariant > lastInvariant THEN invariant - lastInvariant ELSE 0, invariant),
            getProtocolFeePercentageCache)

dueProtocolFees ==
    bptForPoolOwnershipPercentage(circulating,
        getProtocolPoolOwnershipPercentage(InvariantAt(lastAmp)))

AtLeast(minimum, bptOut, amountsIn) ==
    IF bptOut < minimum THEN Failure ELSE Result(bptOut, amountsIn)
AtMost(maximum, bptIn, amountsOut) ==
    IF bptIn > maximum THEN Failure ELSE Result(bptIn, amountsOut)
LengthMatches(amounts) == DOMAIN amounts = Tokens

doJoin(data, amp, supply, invariant) ==
    CASE data.kind = "EXACT_TOKENS_IN_FOR_BPT_OUT" ->
             IF ~LengthMatches(data.amountsIn) THEN Failure
             ELSE AtLeast(data.minimumBPT,
                          calcBptOutGivenExactTokensIn(amp, balances, data.amountsIn, supply,
                                                       invariant, swapFee),
                          data.amountsIn)
      [] data.kind = "TOKEN_IN_FOR_EXACT_BPT_OUT" ->
             Result(data.bptOut, OnlyToken(data.index,
                 calcTokenInGivenExactBptOut(amp, balances, data.index, data.bptOut, supply,
                                             invariant, swapFee)))
      [] data.kind = "ALL_TOKENS_IN_FOR_EXACT_BPT_OUT" ->
             Result(data.bptOut, ProportionalAmountsIn(data.bptOut, supply))
      [] OTHER -> Failure

doExit(data, amp, supply, invariant) ==
    CASE data.kind = "BPT_IN_FOR_EXACT_TOKENS_OUT" ->
             IF ~LengthMatches(data.amountsOut) THEN Failure
             ELSE AtMost(data.maximumBPT,
                         calcBptInGivenExactTokensOut(amp, balances, data.amountsOut, supply,
                                                      invariant, swapFee),
                         data.amountsOut)
      [] data.kind = "EXACT_BPT_IN_FOR_ONE_TOKEN_OUT" ->
             IF data.bptIn > supply THEN Failure ELSE Result(data.bptIn, OnlyToken(data.index,
                 calcTokenOutGivenExactBptIn(amp, balances, data.index, data.bptIn, supply,
                                             invariant, swapFee)))
      [] data.kind = "EXACT_BPT_IN_FOR_ALL_TOKENS_OUT" ->
             Result(data.bptIn, ProportionalAmountsOut(data.bptIn, supply))
      [] OTHER -> Failure

(* An iteration that does not converge reverts, and so does a division by  *)
(* an invariant of zero: every growth is measured against the present one. *)
Converged(invariant) == invariant \in Nat
Measurable == InvariantAt(lastAmp) \in Nat \ {0}

(* What a join or an exit leaves above the invariant that the supply       *)
(* accounts for are swap fees, of which the protocol takes its part.       *)
FeesDue(invariant, feeless, supply) ==
    IF invariant <= feeless THEN 0
    ELSE bptForPoolOwnershipPercentage(supply,
             MulDiv(invariant - feeless, getProtocolFeePercentageCache, invariant))

Settled(result, invariant, preInvariant, preSupply, postSupply, due) ==
    IF ~Converged(invariant) THEN Failure
    ELSE WithFees(result,
             due + FeesDue(invariant, mulDown(preInvariant, divDown(postSupply, preSupply)), postSupply),
             invariant)

Joined(result, amp, invariant, supply, due) ==
    IF result = Failure THEN Failure
    ELSE Settled(result, calculateInvariant(amp, Plus(balances, result.amounts)),
                 invariant, supply, supply + result.bpt, due)

Exited(result, amp, invariant, supply, due) ==
    IF result = Failure \/ result.bpt > supply \/ ~Available(result.amounts) THEN Failure
    ELSE Settled(result, calculateInvariant(amp, Minus(balances, result.amounts)),
                 invariant, supply, supply - result.bpt, due)

JoinAt(amp, invariant, due, data) ==
    IF ~(Measurable /\ Converged(invariant)) THEN Failure
    ELSE Joined(doJoin(data, amp, circulating + due, invariant), amp, invariant, circulating + due, due)
ExitAt(amp, invariant, due, data) ==
    IF ~(Measurable /\ Converged(invariant)) THEN Failure
    ELSE Exited(doExit(data, amp, circulating + due, invariant), amp, invariant, circulating + due, due)

onJoin(data) ==
    JoinAt(getAmplificationParameter, InvariantAt(getAmplificationParameter), dueProtocolFees, data)
onExit(data) ==
    ExitAt(getAmplificationParameter, InvariantAt(getAmplificationParameter), dueProtocolFees, data)

(* Every operation that pays the protocol remembers the parameter.         *)
SettlesNow == lastAmp' = getAmplificationParameter /\ UNCHANGED <<amplification, now>>

(* The first join mints all Pool tokens: the Vault pulls what the joiner   *)
(* is not due.  The list of amounts has a slot for the Pool token.         *)
WithoutBpt(items) ==
    [i \in 1..Len(items) - 1 |-> items[IF i < bptIndex THEN i ELSE i + 1]]

InitializeAt(recipient, amountsIn, invariant) ==
    /\ Converged(invariant) /\ invariant <= PREMINTED
    /\ Initialize(recipient, amountsIn, invariant, invariant)
    /\ bptBalance' = PREMINTED - invariant

InitializePool(recipient, data) ==
    /\ data.kind = "INIT"
    /\ Len(data.amountsIn) = Len(balances) + 1
    /\ InitializeAt(recipient, WithoutBpt(data.amountsIn),
                    calculateInvariant(getAmplificationParameter, WithoutBpt(data.amountsIn)))
    /\ SettlesNow

(* A swap for Pool tokens is a join that takes them from the Vault instead *)
(* of minting them, and a swap of Pool tokens an exit that returns them.   *)
JoinSwapGivenIn(token, amountIn) ==
    onJoin([kind |-> "EXACT_TOKENS_IN_FOR_BPT_OUT", amountsIn |-> OnlyToken(token, amountIn),
            minimumBPT |-> 0])
JoinSwapGivenOut(token, bptOut) ==
    onJoin([kind |-> "TOKEN_IN_FOR_EXACT_BPT_OUT", bptOut |-> bptOut, index |-> token])
ExitSwapGivenIn(token, bptIn) ==
    onExit([kind |-> "EXACT_BPT_IN_FOR_ONE_TOKEN_OUT", bptIn |-> bptIn, index |-> token])
ExitSwapGivenOut(token, amountOut) ==
    onExit([kind |-> "BPT_IN_FOR_EXACT_TOKENS_OUT", amountsOut |-> OnlyToken(token, amountOut),
            maximumBPT |-> MaxUint256])

JoinSwap(recipient, result) ==
    /\ Join(recipient, result) /\ SettlesNow
    /\ result.bpt <= bptBalance
    /\ bptBalance' = bptBalance - result.bpt
ExitSwap(sender, recipient, result) ==
    /\ Exit(sender, recipient, result) /\ SettlesNow
    /\ bptBalance' = bptBalance + result.bpt

(* A regular swap.                                                         *)
AmountOutAt(amp, in, out, amountIn) ==
    calcOutGivenIn(amp, balances, in, out, subtractSwapFeeAmount(amountIn), InvariantAt(amp))
AmountInAt(amp, in, out, amountOut) ==
    addSwapFeeAmount(calcInGivenOut(amp, balances, in, out, amountOut, InvariantAt(amp)))

AmountOut(in, out, amountIn) == AmountOutAt(getAmplificationParameter, in, out, amountIn)
AmountIn(in, out, amountOut) == AmountInAt(getAmplificationParameter, in, out, amountOut)

updateProtocolFeePercentageCacheAt(amp) ==
    /\ Measurable /\ Converged(InvariantAt(amp))
    /\ UpdateFeeCache(dueProtocolFees, InvariantAt(amp))
    /\ SettlesNow /\ UNCHANGED bptBalance
updateProtocolFeePercentageCache == updateProtocolFeePercentageCacheAt(getAmplificationParameter)

disableRecoveryMode ==
    /\ Converged(InvariantAt(getAmplificationParameter))
    /\ DisableRecoveryMode(InvariantAt(getAmplificationParameter))
    /\ SettlesNow /\ UNCHANGED bptBalance

StableInit(count, fee) ==
    /\ BaseInit(count, fee)
    /\ bptBalance = 0 /\ lastAmp = 0 /\ now = 0
    /\ amplification = [start |-> InitialAmp * AmpPrecision, end |-> InitialAmp * AmpPrecision,
                        startTime |-> 0, endTime |-> 0]
=============================================================================
