--------------------------- MODULE BasePoolClient ---------------------------
(***************************************************************************)
(* What the TypeScript objects that drive Pools have in common: requests   *)
(* with optional fields, the Vault's defaults for them, and the record of  *)
(* the last call that the properties speak of.  A client keeps the swap    *)
(* fee that the Pool had when the object was made.                         *)
(***************************************************************************)
EXTENDS BasePool

CONSTANTS swapFeePercentage,  \* the client's copy of the swap fee
          Deployer,           \* Vault._defaultSender
          SwapFees,           \* what the owner sets
          Parties,            \* who signs and who receives, if given
          BptAmounts,         \* amounts of Pool tokens that are asked for
          MaxCalls            \* bound on the transactions

ASSUME ClientAssumption ==
    /\ Deployer \in Accounts \ {Zero}
    /\ \A who \in Parties :
        /\ DOMAIN who \subseteq {"from", "recipient"}
        /\ "from" \in DOMAIN who => who.from \in Accounts \ {Zero}
    /\ swapFeePercentage \in MinSwapFee..MaxSwapFee
    /\ BptAmounts \subseteq Nat /\ MaxCalls \in Nat

VARIABLES answer,             \* of the last call
          calls

baseClientVars == <<baseVars, answer, calls>>

(* A missing field of a request takes its default: the ?? of the source.   *)
Field(params, name, default) == IF name \in DOMAIN params THEN params[name] ELSE default

To(params) == Field(params, "recipient", Field(params, "from", Zero))
Sender(params) == Field(params, "from", Deployer)

With(parties, request) == [f \in DOMAIN parties \cup DOMAIN request |->
                              IF f \in DOMAIN parties THEN parties[f] ELSE request[f]]

(* Requests: who signs and receives, if given, and what is asked for.      *)
Requests(details) == {With(who, d) : who \in Parties, d \in details}

recoveryModeExit(bptIn) == [kind |-> "RECOVERY_MODE", bptIn |-> bptIn]
buildRecoveryModeExitParams(params) == recoveryModeExit(params.bptIn)

(* Who estimates: the client with its own copies, or somebody who knows    *)
(* what the Pool is about to compute with.                                 *)
Estimators == {"own", "informed"}
Same(estimate) == [who \in Estimators |-> estimate]

(* The record of a call: the rate of Pool tokens before it, whether the    *)
(* client computes with the Pool's own formula, what was estimated and     *)
(* what the call came to.                                                  *)
Silent(rate) == [op |-> "none", rate |-> rate]
Answer(op, rate, current, estimates, outcome) ==
    [op |-> op, rate |-> rate, current |-> current, estimates |-> estimates, outcome |-> outcome]

Outflows == {"bptOut", "tokenOut"}
Inflows == {"bptIn", "tokenIn"}

Begin == calls < MaxCalls /\ calls' = calls + 1

Administer(step, rate) == Begin /\ step /\ answer' = Silent(rate)

(* What goes through the Vault, with its defaults for what is left out.    *)
joinPool(params, result) == Join(To(params), result)
exitPool(params, result) == Exit(Sender(params), To(params), result)

(* A query computes what the call would, and undoes it.  A run ends there. *)
Queried(succeeds, record) ==
    /\ calls < MaxCalls /\ calls' = MaxCalls
    /\ ~paused /\ Initialized
    /\ succeeds
    /\ answer' = record
    /\ UNCHANGED baseVars

Query(op, result, rate, current, estimates, outcome) ==
    Queried(result # Failure, Answer(op, rate, current, estimates, outcome))
QueryAmounts(result, rate) == Queried(result # Failure, Silent(rate))

(* The TypeScript methods grant the signer the permission first.           *)
Governance(rate) ==
    \/ \E p \in ProtocolFees \ {provided} : Administer(setFeeTypePercentage(p), rate)
    \/ \E p \in SwapFees \ {swapFee} : Administer(setSwapFeePercentage(p), rate)
    \/ Administer(SetPaused(~paused), rate)
    \/ Administer(enableRecoveryMode, rate)

(***************************************************************************)
(* What was estimated and what the Pool did.  Who knows the Pool's fee and *)
(* what is due to the protocol is right: the Pool gives at most the        *)
(* estimate and takes at least the estimate, and the difference is at most *)
(* the swap fee and the rounding: some units, and a part of the estimate.  *)
(* A client with an old copy of the fee, which does not see what is due,   *)
(* errs to one side: a join never gets less than it was told but for the   *)
(* swap fee, and an exit never more but for the fee that the client copied.*)
(***************************************************************************)
AnswersFollowReference(copiedFee, units, part) ==
    answer.op # "none" =>
        LET own == answer.estimates["own"]
            informed == answer.estimates["informed"]
            error == units + informed \div part
            AtLeast(estimate, fee) == answer.outcome >= mulDown(estimate, complement(fee)) - error
            AtMost(estimate, fee) == answer.outcome <= divUp(estimate, complement(fee)) + error
        IN  /\ IF answer.op \in Outflows
               THEN AtMost(informed, 0) /\ AtLeast(informed, swapFee)
               ELSE AtLeast(informed, 0) /\ AtMost(informed, swapFee)
            /\ answer.current =>
                 CASE answer.op = "bptOut" -> AtLeast(own, swapFee)
                   [] answer.op = "tokenIn" -> AtMost(own, swapFee)
                   [] answer.op = "tokenOut" -> AtMost(own, copiedFee)
                   [] answer.op = "bptIn" -> AtLeast(own, copiedFee)
=============================================================================
