------------------------------ MODULE MCPools ------------------------------
(***************************************************************************)
(* A Weighted Pool and a Composable Stable Pool, one at a time, each with  *)
(* two tokens, governance and the TypeScript object that drives it.        *)
(***************************************************************************)
EXTENDS WeightedPoolClient

CONSTANTS AmpPrecision, PREMINTED, bptIndex, InitialAmp, MinAmp, MaxAmp,
          MaxAmpUpdateDailyRate, Day, MinUpdateTime,
          StableAmounts, StableInitRequest, StableAmount, AmpTargets

ASSUME StableAssumption ==
    /\ AmpPrecision \in Nat \ {0} /\ bptIndex \in Nat \ {0}
    /\ MinAmp \in Nat \ {0} /\ MaxAmp \in Nat /\ InitialAmp \in MinAmp..MaxAmp
    /\ Day \in Nat \ {0} /\ MinUpdateTime \in Nat /\ MinUpdateTime >= Day
    /\ {PREMINTED, StableAmount} \subseteq Nat

(* Amounts that the Pools are initialized with.                            *)
ASSUME RequestAssumption ==
    /\ IF "each" \in DOMAIN InitRequest.initialBalances THEN InitRequest.initialBalances.each \in Nat
       ELSE InitRequest.initialBalances.list \in [DOMAIN Weights -> Nat]
    /\ "each" \notin DOMAIN StableInitRequest.initialBalances
    /\ StableInitRequest.initialBalances.list \in Seq(Nat)

VARIABLES bptBalance, amplification, lastAmp, now,
          part,         \* the Pool that there is
          stableCalls   \* the calls of its client: each client has its own bound

StableCalls == MaxCalls - 1
Stable == INSTANCE StablePoolClient WITH calls <- stableCalls, MaxCalls <- StableCalls

MCWeights == <<2000, 8000>>
MCFractions == <<<<1, 5>>, <<4, 5>>>>
MCInitRequest == [recipient |-> "alice", initialBalances |-> [each |-> 20000]]
MCAmounts == {[list |-> <<3000, 1000>>]}
MCStableInitRequest == [recipient |-> "alice", initialBalances |-> [list |-> <<5000, 0, 5000>>]]
MCStableAmounts == {[list |-> <<1500, 0, 500>>]}
MCParties == {[from |-> "alice", recipient |-> "deployer"], [recipient |-> "alice"]}

stableVars == <<bptBalance, amplification, lastAmp, now>>

(* The other client has made all its calls.                                *)
MCInit ==
    /\ \/ part = "weighted" /\ calls = 0 /\ stableCalls = StableCalls
       \/ part = "stable" /\ calls = MaxCalls /\ stableCalls = 0
    /\ ClientInit
    /\ Stable!StableClientInit

MCNext ==
    \/ ClientNext /\ UNCHANGED <<stableVars, stableCalls, part>>
    \/ Stable!StableClientNext /\ UNCHANGED <<calls, part>>

MCSpec == MCInit /\ [][MCNext]_<<baseClientVars, stableVars, stableCalls, part>>

(* The invariant that the protocol's fees are measured by.                  *)
CurrentInvariant == IF part = "weighted" THEN Invariant(balances) ELSE Stable!InvariantAt(lastAmp)

(* Types of the state of either Pool: no balance and no holding of Pool    *)
(* tokens is ever below zero, whatever a join, exit, swap or the payment   *)
(* of fees computes, also in Recovery Mode, where nothing is checked; and  *)
(* the amplification parameter stays within its bounds while it moves.     *)
PoolTypesOK == BaseTypeOK /\ Stable!StableTypeOK

(***************************************************************************)
(* The protocol is paid for a swap once: after a join, an exit, an update  *)
(* of the fee percentage or Recovery Mode, until the next swap, nothing is *)
(* due to it, neither because the percentage changes nor because the       *)
(* amplification parameter moves.  The growth is a ratio of invariants:    *)
(* while the invariant is zero, the code reverts instead.                  *)
(***************************************************************************)
ProtocolIsPaidOnce ==
    Initialized /\ ~traded /\ CurrentInvariant \in Nat \ {0} =>
        (IF part = "weighted" THEN dueProtocolFees ELSE Stable!dueProtocolFees) = 0

(***************************************************************************)
(* What a Pool token stands for never decreases: not by a join, exit or    *)
(* swap of any kind, by the payment of protocol fees or by governance; the *)
(* roundings may cost some units of the invariant.  Only time may change   *)
(* it, while the amplification parameter moves.  Nor does the invariant    *)
(* vanish, by which joins, exits and the payment of fees divide.           *)
(***************************************************************************)
RateNeverDecreases ==
    Initialized =>
        /\ CurrentInvariant \in Nat \ {0}
        /\ answer.rate <= (IF part = "weighted" THEN Rate ELSE Stable!Rate)
                              + 1 + (6 * One) \div totalSupply

(***************************************************************************)
(* What the client estimates is what the Pool does, once it is told the    *)
(* Pool's fee and parameter and the supply with the protocol's fees: up to *)
(* the swap fee and the rounding, the Pool takes no less and gives no      *)
(* more.  With the fee of its deployment and a supply without what is due, *)
(* the client never promises more than a join gives or less than it takes, *)
(* but for the swap fee, nor less than an exit gives or more than it       *)
(* takes, but for the fee of the deployment.                               *)
(***************************************************************************)
FollowsReference ==
    AnswersFollowReference(IF part = "weighted" THEN swapFeePercentage ELSE 0, 10, 1000)

(***************************************************************************)
(* The contracts' integers and the helpers' decimals compute the same, in  *)
(* every state: the invariant, by Newton's iteration in both and in closed *)
(* form; the Pool tokens due to the protocol; what a proportional exit     *)
(* gives; and the fees of the swaps so far in one token, which taken out   *)
(* would leave the invariant as it was at the last join or exit.           *)
(***************************************************************************)
Near(a, b, error) == a - b \in -error..error

WeightedAgrees(invariant) ==
    /\ Near(invariant, estimateInvariant, 10)
    /\ Near(dueProtocolFees,
            R!calculateBPTSwapFeeAmount(divDown(invariant, lastInvariant), totalSupply, totalSupply,
                                        getProtocolFeePercentageCache), 1)
    /\ \A b \in BptAmounts, i \in Tokens :
           Near(ProportionalAmountsOut(b, totalSupply)[i],
                R!calcTokensOutGivenExactBptIn(balances, b, totalSupply)[i],
                2 + balances[i] \div One)
    /\ invariant >= lastInvariant =>
           Near(lastInvariant,
                Invariant(Minus(balances, OnlyToken(2,
                    R!Fp(R!calculateOneTokenSwapFeeAmount(balances, WeightFractions,
                                                         lastInvariant, 2))))), 20)

StableAgrees(invariant) ==
    /\ Near(invariant, Stable!R!calculateInvariant(balances, lastAmp \div AmpPrecision), 2)
    /\ lastAmp = InitialAmp * AmpPrecision =>
           Near(invariant, Stable!R!calculateAnalyticalInvariantForTwoTokens(balances, InitialAmp), 10)
    /\ invariant >= lastInvariant =>
           Near(lastInvariant,
                Stable!calculateInvariant(lastAmp, Minus(balances, OnlyToken(1,
                    R!Fp(Stable!R!calculateOneTokenSwapFeeAmount(balances, lastAmp \div AmpPrecision,
                                                                lastInvariant, 1))))), 5)

ReferencesAgree ==
    Initialized => IF part = "weighted" THEN WeightedAgrees(Invariant(balances))
                   ELSE StableAgrees(Stable!InvariantAt(lastAmp))
=============================================================================
