---------------------------- MODULE MCTimelock ---------------------------
(* TimelockAuthorizer with three accounts, to study four topics apart:     *)
(*   "permissions", from a state in which the delays have been set: who    *)
(* grants, holds and revokes permissions.  Those of action a are granted   *)
(* and revoked directly, those of action b with a notice;                  *)
(*   "root", from the deployment by a migrator r with successor n:         *)
(* transfers of the root, the executions announced by a former root and    *)
(* the cancelers;                                                          *)
(*   "client", from the same state as the first: the TypeScript client of  *)
(* the authorizer, whose methods wait for each other and for the clock;    *)
(*   "vault", from the deployment: the TypeScript client of the Vault.     *)
(* And with a single account, which succeeds itself as root:               *)
(*   "delays", the delays of one action a: changes of its delay,           *)
(* executions of it and cancellations.                                     *)
EXTENDS VaultClient, FiniteSets

CONSTANTS r, n, u, a, b, c, w, sa, t

VARIABLE topic

MCMaxFees == [type \in FeeTypes |-> 1]
MCFollowedInputs == {<<"setDelay", a, 0>>, <<"setDelay", b, 1>>}
MCDelayInputs == {<<"setDelay", a, d>> : d \in {0, 1, 3}}
MCGlobalGrantInputs == {<<w, u>>, <<a, u>>, <<c, r>>}

MCGrantInputs == {<<a, u, t>>, <<a, u, Everywhere>>, <<b, u, t>>}
MCRevokerInputs == {<<u, t>>, <<u, Everywhere>>}
MCCancelerInputs == {<<GlobalId, u>>, <<5, u>>, <<6, u>>, <<1, u>>}
MCGlobalCanceler == {<<GlobalId, u>>}

Done(data) ==
    [data |-> data, executors |-> {},
     scheduledBy |-> r, scheduledAt |-> 0, executableAt |-> MinChangeDelay,
     executed |-> TRUE, executedBy |-> r, executedAt |-> MinChangeDelay,
     canceled |-> FALSE, canceledBy |-> NoAccount, canceledAt |-> 0]

DelayCall(kind, action, d) == [fn |-> kind, actionId |-> action, delay |-> d]

(* Reachable states: root has set the delays of setAuthorizer, the delay   *)
(* of b and the delays of granting and revoking b, and then perhaps that   *)
(* of a; or it has granted itself a, and set the delays of setAuthorizer   *)
(* and of a.                                                               *)
PermissionsChanges ==
    <<Done(DelayCall("setDelay", sa, 1)), Done(DelayCall("setDelay", b, 1)),
      Done(DelayCall("setGrantDelay", b, 1)), Done(DelayCall("setRevokeDelay", b, 1))>>

ClientChanges == Append(PermissionsChanges, Done(DelayCall("setDelay", a, 1)))

DelaysChanges == <<Done(DelayCall("setDelay", sa, 3)), Done(DelayCall("setDelay", a, 3))>>

AfterChanges(changes, new, permissions) ==
    /\ now = MinChangeDelay
    /\ root = InitialRoot
    /\ pendingRoot = NextRoot
    /\ granters = {}
    /\ revokers = {}
    /\ cancelers = {}
    /\ granted = permissions
    /\ delay = [k \in DelayKinds |->
                  [action \in ActionIds |->
                     IF \E i \in DOMAIN changes :
                          changes[i].data.fn = k /\ changes[i].data.actionId = action
                     THEN new ELSE 0]]
    /\ scheduled = changes
    /\ HistoryInit

(* The bounds of each topic.                                               *)
PermissionsScope ==
    /\ now <= 2
    /\ Len(scheduled) <= 5
    /\ root = InitialRoot
    /\ cancelers \subseteq {<<GlobalId, u>>, <<5, u>>}
    /\ \A i \in DOMAIN scheduled : scheduled[i].data.fn # "setPendingRoot"

RootScope ==
    /\ now <= 2
    /\ Len(scheduled) <= 2
    /\ granted = {} /\ granters = {} /\ revokers = {}
    /\ Cardinality(cancelers) <= 1
    /\ \A i \in DOMAIN scheduled :
         scheduled[i].data.fn = "setPendingRoot" /\ scheduled[i].executors = {}

ClientScope ==
    /\ now <= 2
    /\ Cardinality(granted) + Cardinality(granters) + Cardinality(revokers)
         + Cardinality({x \in cancelers : x[1] # 6}) <= 1

VaultScope == Cardinality(granted) <= 4

Scope ==
    /\ topic = "permissions" => PermissionsScope
    /\ topic = "root" => RootScope
    /\ topic = "client" => ClientScope
    /\ topic = "vault" => VaultScope

MCInit ==
    /\ topic \in {"permissions", "root", "client", "vault"}
    /\ CASE topic = "permissions" -> AfterChanges(PermissionsChanges, 1, {})
         [] topic = "client" -> AfterChanges(ClientChanges, 1, {})
         [] OTHER -> Init
    /\ ClientInit
    /\ VaultClientInit

MCNext ==
    \/ topic \in {"permissions", "root"} /\ Next /\ UNCHANGED <<topic, awaited, vaultClientVars>>
    \/ topic = "client" /\ ClientNext /\ UNCHANGED <<topic, vaultClientVars>>
    \/ topic = "vault" /\ VaultClientNext /\ UNCHANGED topic

MCSpec == MCInit /\ [][MCNext]_<<vars, awaited, vaultClientVars, topic>>

DelaysInit ==
    /\ topic = "delays"
    /\ AfterChanges(DelaysChanges, 3, {<<a, r, t>>})
    /\ ClientInit
    /\ VaultClientInit

(* The state without the history, on which neither a guard nor a property  *)
(* of the delays depends.                                                  *)
DelaysView == <<now, root, pendingRoot, granters, revokers, cancelers, granted, delay, scheduled>>

DelaysNext == Next /\ UNCHANGED <<topic, awaited, vaultClientVars>>

DelaysSpec == DelaysInit /\ [][DelaysNext]_<<vars, awaited, vaultClientVars, topic>>
==========================================================================
