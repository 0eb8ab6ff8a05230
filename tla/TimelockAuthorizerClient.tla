--------------------- MODULE TimelockAuthorizerClient ---------------------
(***************************************************************************)
(* The TypeScript client of the authorizer                                 *)
(* (pvt/helpers/src/models/authorizer/TimelockAuthorizer.ts).  Each method *)
(* sends one transaction, from the account in its `params` or else from    *)
(* the default signer.  The scheduleAndExecute methods send two, and move  *)
(* the clock to the moment in between that the first one promised.  Others *)
(* may use the authorizer, and the clock, while they wait.                 *)
(*                                                                         *)
(* A transaction that reverts makes the method throw: it is not a step,    *)
(* unless a method is given up half way.                                   *)
(***************************************************************************)
EXTENDS TimelockAuthorizer

CONSTANTS
    Signer,         \* the first signer, which `instance` is connected to
    FollowedInputs  \* <<kind, action id, new delay>> of the scheduleAndExecute methods

ASSUME SignerAssumption == Signer \in Accounts

VARIABLE awaited    \* what a scheduleAndExecute method waits for

Nothing == [next |-> "nothing", id |-> 0]

\* `from` is NoAccount in params that name no sender
With(from) == IF from = NoAccount THEN Signer ELSE from

---------------------------------------------------------------------------
(* The methods that send one transaction.                                  *)

ScheduleRootChangeFrom(from, newRoot, executors) ==
    ScheduleRootChange(With(from), newRoot, executors)

ClaimRootFrom(from) == ClaimRoot(With(from))

ScheduleDelayChangeFrom(from, a, new, executors) ==
    ScheduleDelayChange(With(from), "setDelay", a, new, executors)

ScheduleGrantDelayChangeFrom(from, a, new, executors) ==
    ScheduleDelayChange(With(from), "setGrantDelay", a, new, executors)

ScheduleRevokeDelayChangeFrom(from, a, new, executors) ==
    ScheduleDelayChange(With(from), "setRevokeDelay", a, new, executors)

ScheduleFrom(from, a, where, executors) == Schedule(With(from), a, where, executors)

ScheduleGrantPermissionFrom(from, a, account, where, executors) ==
    ScheduleGrantPermission(With(from), a, account, where, executors)

ScheduleRevokePermissionFrom(from, a, account, where, executors) ==
    ScheduleRevokePermission(With(from), a, account, where, executors)

ExecuteFrom(from, id) == Execute(With(from), id)

CancelFrom(from, id) == Cancel(With(from), id)

AddCancelerFrom(from, id, account) == AddCanceler(With(from), id, account)

RemoveCancelerFrom(from, id, account) == RemoveCanceler(With(from), id, account)

AddGranterFrom(from, a, account, where) == AddGranter(With(from), a, account, where)

RemoveGranterFrom(from, a, account, where) == RemoveGranter(With(from), a, account, where)

AddRevokerFrom(from, account, where) == AddRevoker(With(from), account, where)

RemoveRevokerFrom(from, account, where) == RemoveRevoker(With(from), account, where)

GrantPermissionFrom(from, a, account, where) == GrantDirectly(With(from), a, account, where)

RevokePermissionFrom(from, a, account, where) == RevokeDirectly(With(from), a, account, where)

RenouncePermissionFrom(from, a, where) == RenouncePermission(With(from), a, where)

GrantPermissionGloballyFrom(from, a, account) ==
    GrantPermissionFrom(from, a, account, Everywhere)

RevokePermissionGloballyFrom(from, a, account) ==
    RevokePermissionFrom(from, a, account, Everywhere)

RenouncePermissionGloballyFrom(from, a) == RenouncePermissionFrom(from, a, Everywhere)

---------------------------------------------------------------------------
(* The methods that follow a change of a delay through.  The id comes from *)
(* the event of the first transaction.                                     *)

Await == awaited = Nothing /\ awaited' = [next |-> "advance", id |-> NewId]

ScheduleAndExecuteDelayChange(from, a, new) ==
    ScheduleDelayChangeFrom(from, a, new, {}) /\ Await

ScheduleAndExecuteGrantDelayChange(from, a, new) ==
    ScheduleGrantDelayChangeFrom(from, a, new, {}) /\ Await

ScheduleAndExecuteRevokeDelayChange(from, a, new) ==
    ScheduleRevokeDelayChangeFrom(from, a, new, {}) /\ Await

\* advanceToTimestamp
Advance ==
    /\ awaited.next = "advance"
    /\ scheduled[awaited.id].executableAt \in now + 1 .. MaxTime
    /\ now' = scheduled[awaited.id].executableAt
    /\ awaited' = [awaited EXCEPT !.next = "execute"]
    /\ UNCHANGED <<root, pendingRoot, granters, revokers, cancelers, granted, delay, scheduled, history>>

\* whoever scheduled the change, the default signer executes it
ExecuteAwaited ==
    /\ awaited.next = "execute"
    /\ ExecuteFrom(NoAccount, awaited.id)
    /\ awaited' = Nothing

\* a delay other than that of setAuthorizer may not exceed it
IsRefused(change) ==
    /\ <<change.fn, change.actionId>> # <<"setDelay", SetAuthorizer>>
    /\ change.delay > delay["setDelay"][SetAuthorizer]

\* the clock has passed the moment, or the execution reverts: the method throws
GiveUp ==
    /\ \/ /\ awaited.next = "advance"
          /\ scheduled[awaited.id].executableAt <= now
       \/ /\ awaited.next = "execute"
          /\ \/ ~CanExecute(awaited.id)
             \/ IsRefused(scheduled[awaited.id].data)
    /\ awaited' = Nothing
    /\ UNCHANGED vars

---------------------------------------------------------------------------
ClientInit == awaited = Nothing

\* all but the scheduleAndExecute methods
SendOnce(from) ==
    \/ ClaimRootFrom(from)
    \/ \E id \in DOMAIN scheduled : ExecuteFrom(from, id) \/ CancelFrom(from, id)
    \/ \E x \in ExecutorSets :
        \/ \E r \in RootInputs : ScheduleRootChangeFrom(from, r, x)
        \/ \E d \in FollowedInputs :
            \/ ScheduleDelayChangeFrom(from, d[2], d[3], x)
            \/ ScheduleGrantDelayChangeFrom(from, d[2], d[3], x)
            \/ ScheduleRevokeDelayChangeFrom(from, d[2], d[3], x)
        \/ \E a \in ActionIds, t \in Targets : ScheduleFrom(from, a, t, x)
        \/ \E g \in GrantInputs :
            \/ ScheduleGrantPermissionFrom(from, g[1], g[2], g[3], x)
            \/ ScheduleRevokePermissionFrom(from, g[1], g[2], g[3], x)
    \/ \E g \in GrantInputs :
        \/ GrantPermissionFrom(from, g[1], g[2], g[3])
        \/ RevokePermissionFrom(from, g[1], g[2], g[3])
        \/ RenouncePermissionFrom(from, g[1], g[3])
        \/ AddGranterFrom(from, g[1], g[2], g[3])
        \/ RemoveGranterFrom(from, g[1], g[2], g[3])
        \/ GrantPermissionGloballyFrom(from, g[1], g[2])
        \/ RevokePermissionGloballyFrom(from, g[1], g[2])
        \/ RenouncePermissionGloballyFrom(from, g[1])
    \/ \E r \in RevokerInputs :
        \/ AddRevokerFrom(from, r[1], r[2])
        \/ RemoveRevokerFrom(from, r[1], r[2])
    \/ \E c \in CancelerInputs :
        \/ AddCancelerFrom(from, c[1], c[2])
        \/ RemoveCancelerFrom(from, c[1], c[2])

ClientNext ==
    \/ Advance
    \/ ExecuteAwaited
    \/ GiveUp
    \/ Tick /\ UNCHANGED awaited
    \/ \E from \in Accounts \cup {NoAccount} :
        \/ SendOnce(from) /\ UNCHANGED awaited
        \/ \E d \in FollowedInputs :
            \/ ScheduleAndExecuteDelayChange(from, d[2], d[3])
            \/ ScheduleAndExecuteGrantDelayChange(from, d[2], d[3])
            \/ ScheduleAndExecuteRevokeDelayChange(from, d[2], d[3])
===========================================================================
