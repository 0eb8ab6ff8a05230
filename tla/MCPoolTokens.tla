--------------------------- MODULE MCPoolTokens ---------------------------
(***************************************************************************)
(* Four parts of the Vault on their own, one at a time: a Pool of each     *)
(* specialization over three tokens, which registers any one or two        *)
(* tokens, the same twice included, and deregisters them; an EnumerableMap *)
(* with more keys, and its positions in other orders, than General Pools   *)
(* give it; the pause that the Vault and the Pools have; and the           *)
(* permissions that users of the Vault, of Pool tokens and of the minters  *)
(* give by signing.                                                        *)
(***************************************************************************)
EXTENDS PoolTokens, EnumerableMap, TemporarilyPausable, Signatures

CONSTANTS relayer

VARIABLE part   \* the one that does not rest

MCLists == {<<t>> : t \in Tokens} \cup (Tokens \X Tokens)

(* Pools here do not deregister the same token twice in one call, which    *)
(* breaks a Two Token Pool: TwoTokenDeregister.cfg lets them.              *)
MCDistinctLists == {tokens \in MCLists : IsInjective(tokens)}

MCPoolCalls == {[type |-> "JoinPool", id |-> 1]}
MCCallsToSign ==
    MCPoolCalls \cup {[type |-> "SetRelayerApproval", relayer |-> relayer, approved |-> TRUE]}

(* One permission at a time, and no two signatures of which one is of no   *)
(* use, or which different contracts validate.                             *)
SignatureScope ==
    /\ Cardinality(approvedRelayers) + Cardinality(allowedMinters)
         + Cardinality({p \in Users \X Senders : allowances[p[1]][p[2]] > 0}) <= 1
    /\ Cardinality(signed) > 1 =>
         \A m1, m2 \in signed :
            /\ m1.validator = m2.validator
            /\ m1.validator = "Vault" => m1.type = m1.content.type

MCInit ==
    /\ part \in {"pools", "map", "pause", "signatures"}
    /\ PoolInit
    /\ MapInit
    /\ PausableInit
    /\ SignatureInit

MCNext ==
    \/ part = "pools" /\ PoolNext /\ UNCHANGED <<part, map, pausableVars, signatureVars>>
    \/ part = "map" /\ MapNext /\ UNCHANGED <<part, poolVars, pausableVars, signatureVars>>
    \/ part = "pause" /\ PausableNext /\ UNCHANGED <<part, poolVars, map, signatureVars>>
    \/ part = "signatures" /\ SignatureNext /\ UNCHANGED <<part, poolVars, map, pausableVars>>

(* Time passes, and nobody is obliged to unpause.                          *)
MCSpec ==
    /\ MCInit
    /\ [][MCNext]_<<poolVars, map, pausableVars, signatureVars, part>>
    /\ WF_pausableVars(part = "pause" /\ PausableTick)
===========================================================================
