--------------------- MODULE TimelockAuthorizerProofs ---------------------
(* Theorems about the TimelockAuthorizer and the Vault's client, which      *)
(* grants permissions in it, for all accounts, actions, times and delays,   *)
(* and, after them, about the TypeScript lists of tokens and requests.      *)
EXTENDS VaultClient, TokenList, SumTheorems, SequenceTheorems, TLAPS

(* Scheduling appends one well-formed pending execution to the log.         *)
LEMMA ScheduledType ==
    ASSUME TypeOK, NEW caller \in Accounts, NEW data \in Calls, NEW wait \in Nat,
           NEW executors \in SUBSET Accounts,
           ScheduleWithDelay(caller, data, wait, executors)
    PROVE  /\ scheduled' \in Seq(ScheduledExecution)
           /\ Len(scheduled') = Len(scheduled) + 1
           /\ \A i \in 1 .. Len(scheduled) : scheduled'[i] = scheduled[i]
           /\ IsPending(scheduled'[NewId])
           /\ scheduled'[NewId].data = data
           /\ scheduled'[NewId].executableAt = now + wait
<1> DEFINE e == [data |-> data, executors |-> executors,
                 scheduledBy |-> caller, scheduledAt |-> now, executableAt |-> now + wait,
                 executed |-> FALSE, executedBy |-> NoAccount, executedAt |-> 0,
                 canceled |-> FALSE, canceledBy |-> NoAccount, canceledAt |-> 0]
<1>1. e \in ScheduledExecution
  BY DEF ScheduledExecution, TypeOK
<1>2. scheduled \in Seq(ScheduledExecution)
  BY DEF TypeOK
<1>3. scheduled' = Append(scheduled, e)
  BY DEF ScheduleWithDelay
<1>4. e.data = data /\ e.executableAt = now + wait /\ ~e.executed /\ ~e.canceled
  OBVIOUS
<1> HIDE DEF e
<1> QED
  BY <1>1, <1>2, <1>3, <1>4, AppendProperties DEF IsPending, NewId

(* Marking an execution changes that entry only, and keeps it well formed.  *)
LEMMA SettledType ==
    ASSUME TypeOK, NEW id \in 1 .. Len(scheduled), NEW e \in ScheduledExecution,
           scheduled' = [scheduled EXCEPT ![id] = e]
    PROVE  /\ scheduled' \in Seq(ScheduledExecution)
           /\ Len(scheduled') = Len(scheduled)
           /\ \A i \in 1 .. Len(scheduled) : scheduled'[i] = IF i = id THEN e ELSE scheduled[i]
  BY ExceptSeq DEF TypeOK

(* Whatever an execution calls keeps the types of what it may change.       *)
LEMMA HelperCallType ==
    ASSUME TypeOK, NEW data \in Calls, HelperCall(data)
    PROVE  /\ pendingRoot' \in Accounts \cup {NoAccount}
           /\ granted' \subseteq ActionIds \X Holders \X Wheres
           /\ delay' \in [DelayKinds -> [ActionIds -> Nat]]
<1>1. CASE data.fn = "setPendingRoot" /\ SetPendingRoot(data.account)
  <2>1. data \in SetPendingRootCalls
    BY <1>1 DEF Calls, SetPendingRootCalls, SetDelayCalls, PermissionCalls, PerformCalls, DelayKinds
  <2> QED
    BY <1>1, <2>1 DEF SetPendingRoot, SetPendingRootCalls, TypeOK
<1>2. CASE data.fn \in DelayKinds /\ SetDelay(data.fn, data.actionId, data.delay)
  <2>1. data \in SetDelayCalls
    BY <1>2 DEF Calls, SetPendingRootCalls, SetDelayCalls, PermissionCalls, PerformCalls, DelayKinds
  <2> QED
    BY <1>2, <2>1 DEF SetDelay, SetDelayCalls, TypeOK
<1>3. CASE data.fn = "grantPermission"
           /\ GrantPermission(Helper, data.actionId, data.account, data.where)
  <2>1. data \in PermissionCalls
    BY <1>3 DEF Calls, SetPendingRootCalls, SetDelayCalls, PermissionCalls, PerformCalls, DelayKinds
  <2> QED
    BY <1>3, <2>1 DEF GrantPermission, PermissionCalls, TypeOK
<1>4. CASE data.fn = "revokePermission"
           /\ RevokePermission(Helper, data.actionId, data.account, data.where)
  BY <1>4 DEF RevokePermission, TakePermission, TypeOK
<1>5. CASE data.fn = "perform" /\ Perform(data.actionId, data.where)
  BY <1>5 DEF Perform, TypeOK
<1> QED
  BY <1>1, <1>2, <1>3, <1>4, <1>5 DEF HelperCall

(* The state at deployment is well-typed.                                   *)
LEMMA InitType == Init => TypeOK
  BY AddressAssumption, EmptySeq DEF Init, TypeOK, Holders, Wheres

(* Scheduling adds a well-formed execution: of a root change,               *)
LEMMA ScheduleRootChangeType ==
    ASSUME TypeOK, NEW caller \in Accounts, NEW newRoot \in RootInputs, NEW executors \in ExecutorSets,
           ScheduleRootChange(caller, newRoot, executors)
    PROVE  TypeOK'
<1> DEFINE data == [fn |-> "setPendingRoot", account |-> newRoot]
<1>1. data \in Calls
  BY InputAssumption DEF Calls, SetPendingRootCalls
<1>2. scheduled' \in Seq(ScheduledExecution)
  BY <1>1, ScheduledType, DelayAssumption, InputAssumption DEF ScheduleRootChange
<1> QED
  BY <1>2 DEF ScheduleRootChange, TypeOK

(* of a delay change, whose wait is a difference that is not negative,      *)
LEMMA ScheduleDelayChangeType ==
    ASSUME TypeOK, NEW caller \in Accounts, NEW d \in DelayInputs, NEW executors \in ExecutorSets,
           ScheduleDelayChange(caller, d[1], d[2], d[3], executors)
    PROVE  TypeOK'
<1> DEFINE data == [fn |-> d[1], actionId |-> d[2], delay |-> d[3]]
           wait == DelayChangeExecutionDelay(delay[d[1]][d[2]], d[3])
<1>1. d[1] \in DelayKinds /\ d[2] \in ActionIds /\ d[3] \in Nat
  BY InputAssumption
<1>2. data \in Calls
  BY <1>1 DEF Calls, SetDelayCalls
<1>3. delay[d[1]][d[2]] \in Nat
  BY <1>1 DEF TypeOK
<1>4. wait \in Nat
  BY <1>1, <1>3, DelayAssumption DEF DelayChangeExecutionDelay
<1>5. ScheduleWithDelay(caller, data, wait, executors)
  BY DEF ScheduleDelayChange
<1> HIDE DEF data, wait
<1>6. scheduled' \in Seq(ScheduledExecution)
  BY <1>2, <1>4, <1>5, ScheduledType, InputAssumption
<1> QED
  BY <1>6 DEF ScheduleDelayChange, TypeOK

(* The three schedule functions that also record the scheduler.             *)
LEMMA SchedulerType ==
    ASSUME TypeOK, NEW caller \in Accounts, AddSchedulerAsCanceler(caller)
    PROVE  cancelers' \subseteq Nat \X Accounts
<1>1. NewId \in Nat
  BY LenProperties DEF NewId, TypeOK
<1> QED
  BY <1>1 DEF AddSchedulerAsCanceler, TypeOK

(* of a call to a target,                                                   *)
LEMMA ScheduleType ==
    ASSUME TypeOK, NEW caller \in Accounts, NEW a \in ActionIds, NEW t \in Targets,
           NEW executors \in ExecutorSets, Schedule(caller, a, t, executors)
    PROVE  TypeOK'
<1> DEFINE data == [fn |-> "perform", actionId |-> a, where |-> t]
<1>1. data \in Calls
  BY DEF Calls, PerformCalls
<1>2. delay["setDelay"][a] \in Nat
  BY DEF TypeOK, DelayKinds
<1>3. ScheduleWithDelay(caller, data, delay["setDelay"][a], executors)
  BY DEF Schedule
<1> HIDE DEF data
<1>4. scheduled' \in Seq(ScheduledExecution)
  BY <1>1, <1>2, <1>3, ScheduledType, InputAssumption
<1>5. cancelers' \subseteq Nat \X Accounts
  BY SchedulerType DEF Schedule
<1> QED
  BY <1>4, <1>5 DEF Schedule, TypeOK

(* of a grant,                                                              *)
LEMMA ScheduleGrantType ==
    ASSUME TypeOK, NEW caller \in Accounts, NEW g \in GrantInputs, NEW executors \in ExecutorSets,
           ScheduleGrantPermission(caller, g[1], g[2], g[3], executors)
    PROVE  TypeOK'
<1> DEFINE data == [fn |-> "grantPermission", actionId |-> g[1], account |-> g[2], where |-> g[3]]
<1>1. g[1] \in ActionIds /\ g[2] \in Holders /\ g[3] \in Wheres
  BY InputAssumption
<1>2. data \in Calls
  BY <1>1 DEF Calls, PermissionCalls
<1>3. delay["setGrantDelay"][g[1]] \in Nat
  BY <1>1 DEF TypeOK, DelayKinds
<1>4. ScheduleWithDelay(caller, data, delay["setGrantDelay"][g[1]], executors)
  BY DEF ScheduleGrantPermission
<1> HIDE DEF data
<1>5. scheduled' \in Seq(ScheduledExecution)
  BY <1>2, <1>3, <1>4, ScheduledType, InputAssumption
<1>6. cancelers' \subseteq Nat \X Accounts
  BY SchedulerType DEF ScheduleGrantPermission
<1> QED
  BY <1>5, <1>6 DEF ScheduleGrantPermission, TypeOK

(* of a revocation.                                                         *)
LEMMA ScheduleRevokeType ==
    ASSUME TypeOK, NEW caller \in Accounts, NEW g \in GrantInputs, NEW executors \in ExecutorSets,
           ScheduleRevokePermission(caller, g[1], g[2], g[3], executors)
    PROVE  TypeOK'
<1> DEFINE data == [fn |-> "revokePermission", actionId |-> g[1], account |-> g[2], where |-> g[3]]
<1>1. g[1] \in ActionIds /\ g[2] \in Holders /\ g[3] \in Wheres
  BY InputAssumption
<1>2. data \in Calls
  BY <1>1 DEF Calls, PermissionCalls
<1>3. delay["setRevokeDelay"][g[1]] \in Nat
  BY <1>1 DEF TypeOK, DelayKinds
<1>4. ScheduleWithDelay(caller, data, delay["setRevokeDelay"][g[1]], executors)
  BY DEF ScheduleRevokePermission
<1> HIDE DEF data
<1>5. scheduled' \in Seq(ScheduledExecution)
  BY <1>2, <1>3, <1>4, ScheduledType, InputAssumption
<1>6. cancelers' \subseteq Nat \X Accounts
  BY SchedulerType DEF ScheduleRevokePermission
<1> QED
  BY <1>5, <1>6 DEF ScheduleRevokePermission, TypeOK

(* Executing marks one entry and runs a call within its types.              *)
LEMMA ExecuteType ==
    ASSUME TypeOK, NEW caller \in Accounts, NEW id \in 1 .. Len(scheduled), Execute(caller, id)
    PROVE  TypeOK'
<1> DEFINE e == [scheduled[id] EXCEPT !.executed = TRUE, !.executedBy = caller, !.executedAt = now]
<1>1. scheduled[id] \in ScheduledExecution
  BY ElementOfSeq DEF TypeOK
<1>2. e \in ScheduledExecution
  BY <1>1 DEF ScheduledExecution, TypeOK
<1>3. scheduled' = [scheduled EXCEPT ![id] = e]
  BY DEF Execute
<1> HIDE DEF e
<1>4. scheduled' \in Seq(ScheduledExecution)
  BY <1>2, <1>3, SettledType
<1>5. scheduled[id].data \in Calls /\ HelperCall(scheduled[id].data)
  BY <1>1 DEF ScheduledExecution, Execute
<1>6. /\ pendingRoot' \in Accounts \cup {NoAccount}
      /\ granted' \subseteq ActionIds \X Holders \X Wheres
      /\ delay' \in [DelayKinds -> [ActionIds -> Nat]]
  BY <1>5, HelperCallType
<1> QED
  BY <1>4, <1>6 DEF Execute, TypeOK

(* Cancelling marks one entry.                                              *)
LEMMA CancelType ==
    ASSUME TypeOK, NEW caller \in Accounts, NEW id \in 1 .. Len(scheduled), Cancel(caller, id)
    PROVE  TypeOK'
<1> DEFINE e == [scheduled[id] EXCEPT !.canceled = TRUE, !.canceledBy = caller, !.canceledAt = now]
<1>1. scheduled[id] \in ScheduledExecution
  BY ElementOfSeq DEF TypeOK
<1>2. e \in ScheduledExecution
  BY <1>1 DEF ScheduledExecution, TypeOK
<1>3. scheduled' = [scheduled EXCEPT ![id] = e]
  BY DEF Cancel
<1> HIDE DEF e
<1>4. scheduled' \in Seq(ScheduledExecution)
  BY <1>2, <1>3, SettledType
<1> QED
  BY <1>4 DEF Cancel, TypeOK

(* Every step keeps the types.                                              *)
LEMMA StepType == TypeOK /\ [Next]_vars => TypeOK'
<1> SUFFICES ASSUME TypeOK, [Next]_vars
             PROVE  TypeOK'
  OBVIOUS
<1>1. CASE Tick
  BY <1>1 DEF Tick, TypeOK
<1>2. ASSUME NEW caller \in Accounts, ClaimRoot(caller)
      PROVE  TypeOK'
  BY <1>2 DEF ClaimRoot, TypeOK
<1>3. ASSUME NEW caller \in Accounts, NEW id \in 1 .. Len(scheduled),
             Execute(caller, id) \/ Cancel(caller, id)
      PROVE  TypeOK'
  BY <1>3, ExecuteType, CancelType
<1>4. ASSUME NEW caller \in Accounts, NEW x \in ExecutorSets,
             \/ \E r \in RootInputs : ScheduleRootChange(caller, r, x)
             \/ \E d \in DelayInputs : ScheduleDelayChange(caller, d[1], d[2], d[3], x)
             \/ \E g \in GrantInputs :
                 \/ ScheduleGrantPermission(caller, g[1], g[2], g[3], x)
                 \/ ScheduleRevokePermission(caller, g[1], g[2], g[3], x)
             \/ \E a \in ActionIds, t \in Targets : Schedule(caller, a, t, x)
      PROVE  TypeOK'
  BY <1>4, ScheduleRootChangeType, ScheduleDelayChangeType, ScheduleGrantType,
     ScheduleRevokeType, ScheduleType
<1>5. ASSUME NEW caller \in Accounts, NEW g \in GrantInputs,
             \/ GrantDirectly(caller, g[1], g[2], g[3])
             \/ RevokeDirectly(caller, g[1], g[2], g[3])
             \/ RenouncePermission(caller, g[1], g[3])
             \/ AddGranter(caller, g[1], g[2], g[3])
             \/ RemoveGranter(caller, g[1], g[2], g[3])
      PROVE  TypeOK'
  <2>1. <<g[1], g[2], g[3]>> \in ActionIds \X Holders \X Wheres
    BY InputAssumption
  <2>2. CASE GrantDirectly(caller, g[1], g[2], g[3])
    BY <2>1, <2>2 DEF GrantDirectly, GrantPermission, TypeOK
  <2>3. CASE RevokeDirectly(caller, g[1], g[2], g[3])
    BY <2>3 DEF RevokeDirectly, RevokePermission, TakePermission, TypeOK
  <2>4. CASE RenouncePermission(caller, g[1], g[3])
    BY <2>4 DEF RenouncePermission, TakePermission, TypeOK
  <2>5. CASE AddGranter(caller, g[1], g[2], g[3])
    BY <2>1, <2>5 DEF AddGranter, TypeOK
  <2>6. CASE RemoveGranter(caller, g[1], g[2], g[3])
    BY <2>6 DEF RemoveGranter, TypeOK
  <2> QED
    BY <1>5, <2>2, <2>3, <2>4, <2>5, <2>6
<1>6. ASSUME NEW caller \in Accounts, NEW r \in RevokerInputs,
             AddRevoker(caller, r[1], r[2]) \/ RemoveRevoker(caller, r[1], r[2])
      PROVE  TypeOK'
  <2>1. <<r[1], r[2]>> \in Accounts \X Wheres
    BY InputAssumption
  <2> QED
    BY <1>6, <2>1 DEF AddRevoker, RemoveRevoker, TypeOK
<1>7. ASSUME NEW caller \in Accounts, NEW c \in CancelerInputs,
             AddCanceler(caller, c[1], c[2]) \/ RemoveCanceler(caller, c[1], c[2])
      PROVE  TypeOK'
  <2>1. <<c[1], c[2]>> \in Nat \X Accounts
    BY InputAssumption
  <2> QED
    BY <1>7, <2>1 DEF AddCanceler, RemoveCanceler, TypeOK
<1>8. CASE UNCHANGED vars
  BY <1>8 DEF vars, TypeOK
<1> QED
  BY <1>1, <1>2, <1>3, <1>4, <1>5, <1>6, <1>7, <1>8 DEF Next

(* The types hold in every reachable state; in particular the root is never *)
(* the zero address, so the functions reserved to root stay usable.         *)
THEOREM TypeCorrect == Spec => []TypeOK
  BY InitType, StepType, PTL DEF Spec

---------------------------------------------------------------------------
(* The notice.  A newly scheduled execution is well timed when it is not    *)
(* due before the moment that the delays in force promise for its kind.     *)
WellTimed(e) ==
    \A kind \in DelayKinds, a \in ActionIds :
        /\ e.data.fn = kind /\ e.data.actionId = a
           => now + delay[kind][a] <= e.executableAt + e.data.delay
        /\ e.data.fn = DelayedCall(kind) /\ e.data.actionId = a
           => now + delay[kind][a] <= e.executableAt

(* What an entry of the log holds.                                          *)
LEMMA ExecutionType ==
    ASSUME NEW e \in ScheduledExecution
    PROVE  /\ e.executableAt \in Nat
           /\ e.data.fn \in DelayKinds => e.data.delay \in Nat /\ e.data.actionId \in ActionIds
<1>1. e.executableAt \in Nat /\ e.data \in Calls
  BY DEF ScheduledExecution
<1>2. ASSUME e.data.fn \in DelayKinds
      PROVE  e.data \in SetDelayCalls
  BY <1>1, <1>2 DEF Calls, SetPendingRootCalls, SetDelayCalls, PermissionCalls, PerformCalls, DelayKinds
<1> QED
  BY <1>1, <1>2 DEF SetDelayCalls

(* No feasible moment is new when new entries wait for their delays.        *)
LEMMA NoticeKept ==
    ASSUME TypeOK, TypeOK', now <= now', NEW kind \in DelayKinds, NEW a \in ActionIds,
           \E s \in Feasible(kind, a) : s <= now + delay'[kind][a],
           \A i \in 1 .. Len(scheduled') : IsPending(scheduled'[i]) =>
               \/ i \in 1 .. Len(scheduled) /\ scheduled'[i] = scheduled[i]
               \/ WellTimed(scheduled'[i])
    PROVE  \A t \in Feasible(kind, a)' : \E s \in Feasible(kind, a) : s <= t
<1>1. now \in Nat /\ now' \in Nat /\ delay[kind][a] \in Nat /\ delay'[kind][a] \in Nat
  BY DEF TypeOK
<1>2. now + delay[kind][a] \in Feasible(kind, a)
  BY DEF Feasible
<1>3. Feasible(kind, a) \subseteq Nat
  <2>1. ASSUME NEW i \in 1 .. Len(scheduled)
        PROVE  scheduled[i] \in ScheduledExecution
    BY <2>1, ElementOfSeq DEF TypeOK
  <2>2. ASSUME NEW i \in Pending(kind, a)
        PROVE  Later(now, scheduled[i].executableAt) + scheduled[i].data.delay \in Nat
    <3>1. i \in 1 .. Len(scheduled) /\ scheduled[i].data.fn = kind
      BY <2>2 DEF Pending
    <3>2. scheduled[i].executableAt \in Nat /\ scheduled[i].data.delay \in Nat
      BY <2>1, <3>1, ExecutionType
    <3> QED
      BY <1>1, <3>2 DEF Later
  <2>3. ASSUME NEW i \in Pending(DelayedCall(kind), a)
        PROVE  Later(now, scheduled[i].executableAt) \in Nat
    <3>1. i \in 1 .. Len(scheduled)
      BY <2>3 DEF Pending
    <3> QED
      BY <1>1, <2>1, <3>1, ExecutionType DEF Later
  <2> QED
    BY <1>1, <2>2, <2>3 DEF Feasible
<1>4. \E s \in Feasible(kind, a) : s <= now' + delay'[kind][a]
  BY <1>1, <1>3
<1>5. ASSUME NEW i \in Pending(kind, a)'
      PROVE  \E s \in Feasible(kind, a) : s <= (Later(now, scheduled[i].executableAt) + scheduled[i].data.delay)'
  <2>1. i \in 1 .. Len(scheduled') /\ IsPending(scheduled'[i])
        /\ scheduled'[i].data.fn = kind /\ scheduled'[i].data.actionId = a
    BY <1>5 DEF Pending
  <2>2. scheduled'[i].executableAt \in Nat /\ scheduled'[i].data.delay \in Nat
    <3>1. scheduled'[i] \in ScheduledExecution
      BY <2>1, ElementOfSeq DEF TypeOK
    <3> QED
      BY <2>1, <3>1, ExecutionType
  <2>3. CASE i \in 1 .. Len(scheduled) /\ scheduled'[i] = scheduled[i]
    <3>1. i \in Pending(kind, a)
      BY <2>1, <2>3 DEF Pending
    <3>2. Later(now, scheduled[i].executableAt) + scheduled[i].data.delay \in Feasible(kind, a)
      BY <3>1 DEF Feasible
    <3> QED
      BY <1>1, <2>2, <2>3, <3>2 DEF Later
  <2>4. CASE WellTimed(scheduled'[i])
    <3>1. now + delay[kind][a] <= scheduled'[i].executableAt + scheduled'[i].data.delay
      BY <2>1, <2>4 DEF WellTimed
    <3> QED
      BY <1>1, <1>2, <2>2, <3>1 DEF Later
  <2> QED
    BY <2>1, <2>3, <2>4
<1>6. ASSUME NEW i \in Pending(DelayedCall(kind), a)'
      PROVE  \E s \in Feasible(kind, a) : s <= Later(now, scheduled[i].executableAt)'
  <2>1. i \in 1 .. Len(scheduled') /\ IsPending(scheduled'[i])
        /\ scheduled'[i].data.fn = DelayedCall(kind) /\ scheduled'[i].data.actionId = a
    BY <1>6 DEF Pending
  <2>2. scheduled'[i].executableAt \in Nat
    <3>1. scheduled'[i] \in ScheduledExecution
      BY <2>1, ElementOfSeq DEF TypeOK
    <3> QED
      BY <3>1, ExecutionType
  <2>3. CASE i \in 1 .. Len(scheduled) /\ scheduled'[i] = scheduled[i]
    <3>1. i \in Pending(DelayedCall(kind), a)
      BY <2>1, <2>3 DEF Pending
    <3>2. Later(now, scheduled[i].executableAt) \in Feasible(kind, a)
      BY <3>1 DEF Feasible
    <3> QED
      BY <1>1, <2>2, <2>3, <3>2 DEF Later
  <2>4. CASE WellTimed(scheduled'[i])
    <3>1. now + delay[kind][a] <= scheduled'[i].executableAt
      BY <2>1, <2>4 DEF WellTimed
    <3> QED
      BY <1>1, <1>2, <2>2, <3>1 DEF Later
  <2> QED
    BY <2>1, <2>3, <2>4
<1> QED
  BY <1>4, <1>5, <1>6 DEF Feasible

NoticeStep == \A kind \in DelayKinds, a \in ActionIds :
                 \A t \in Feasible(kind, a)' : \E s \in Feasible(kind, a) : s <= t

(* Asking now and waiting for the present delay is always feasible.         *)
LEMMA DelayFeasible ==
    ASSUME TypeOK, NEW kind \in DelayKinds, NEW a \in ActionIds
    PROVE  /\ now + delay[kind][a] \in Nat
           /\ \E s \in Feasible(kind, a) : s <= now + delay[kind][a]
<1>1. now + delay[kind][a] \in Nat
  BY DEF TypeOK
<1>2. now + delay[kind][a] \in Feasible(kind, a)
  BY DEF Feasible
<1>3. \A n \in Nat : n <= n
  OBVIOUS
<1> QED
  BY <1>1, <1>2, <1>3

(* Steps that leave the executions and the delays alone.                    *)
LEMMA IdleNotice ==
    ASSUME TypeOK, TypeOK', now <= now', UNCHANGED <<delay, scheduled>>
    PROVE  NoticeStep
  BY NoticeKept, DelayFeasible DEF NoticeStep

(* Steps that schedule something well timed.                                *)
LEMMA ScheduleNotice ==
    ASSUME TypeOK, TypeOK', UNCHANGED <<now, delay>>,
           NEW caller \in Accounts, NEW data \in Calls, NEW wait \in Nat,
           NEW executors \in SUBSET Accounts,
           ScheduleWithDelay(caller, data, wait, executors),
           \A kind \in DelayKinds, a \in ActionIds :
               /\ data.fn = kind /\ data.actionId = a => delay[kind][a] <= wait + data.delay
               /\ data.fn = DelayedCall(kind) /\ data.actionId = a => delay[kind][a] <= wait
    PROVE  NoticeStep
<1>1. /\ Len(scheduled') = Len(scheduled) + 1
      /\ \A i \in 1 .. Len(scheduled) : scheduled'[i] = scheduled[i]
      /\ scheduled'[NewId].data = data
      /\ scheduled'[NewId].executableAt = now + wait
  BY ScheduledType
<1>2. now \in Nat /\ now <= now'
  BY DEF TypeOK
<1>3. Len(scheduled) \in Nat
  BY LenProperties DEF TypeOK
<1>4. WellTimed(scheduled'[NewId])
  <2>1. ASSUME NEW kind \in DelayKinds, NEW a \in ActionIds
        PROVE  /\ data.fn = kind /\ data.actionId = a => now + delay[kind][a] <= now + wait + data.delay
               /\ data.fn = DelayedCall(kind) /\ data.actionId = a => now + delay[kind][a] <= now + wait
    <3>1. delay[kind][a] \in Nat
      BY DEF TypeOK
    <3>2. data.fn = kind => data.delay \in Nat
      BY DEF Calls, SetPendingRootCalls, SetDelayCalls, PermissionCalls, PerformCalls, DelayKinds
    <3> QED
      BY <1>2, <3>1, <3>2
  <2> QED
    BY <1>1, <2>1 DEF WellTimed
<1>5. \A i \in 1 .. Len(scheduled') :
         \/ i \in 1 .. Len(scheduled) /\ scheduled'[i] = scheduled[i]
         \/ WellTimed(scheduled'[i])
  BY <1>1, <1>3, <1>4 DEF NewId
<1> QED
  BY <1>2, <1>5, NoticeKept, DelayFeasible DEF NoticeStep

(* Steps that settle an execution, and change at most the delay it carries. *)
LEMMA SettleNotice ==
    ASSUME TypeOK, TypeOK', UNCHANGED now,
           NEW id \in 1 .. Len(scheduled), NEW e \in ScheduledExecution,
           ~IsPending(e), scheduled' = [scheduled EXCEPT ![id] = e],
           \A kind \in DelayKinds, a \in ActionIds :
              \/ delay'[kind][a] = delay[kind][a]
              \/ /\ CanExecute(id)
                 /\ scheduled[id].data.fn = kind
                 /\ scheduled[id].data.actionId = a
                 /\ delay'[kind][a] = scheduled[id].data.delay
    PROVE  NoticeStep
<1>1. /\ Len(scheduled') = Len(scheduled)
      /\ \A i \in 1 .. Len(scheduled) : scheduled'[i] = IF i = id THEN e ELSE scheduled[i]
  BY SettledType
<1>2. now \in Nat /\ now <= now'
  BY DEF TypeOK
<1>3. ASSUME NEW kind \in DelayKinds, NEW a \in ActionIds
      PROVE  \E s \in Feasible(kind, a) : s <= now + delay'[kind][a]
  <2>1. CASE delay'[kind][a] = delay[kind][a]
    BY <2>1, DelayFeasible
  <2>2. CASE /\ CanExecute(id)
             /\ scheduled[id].data.fn = kind
             /\ scheduled[id].data.actionId = a
             /\ delay'[kind][a] = scheduled[id].data.delay
    <3>1. id \in Pending(kind, a)
      BY <2>2 DEF Pending, CanExecute
    <3>2. scheduled[id] \in ScheduledExecution
      BY ElementOfSeq DEF TypeOK
    <3>3. scheduled[id].executableAt \in Nat /\ scheduled[id].data.delay \in Nat
      BY <2>2, <3>2, ExecutionType
    <3>4. Later(now, scheduled[id].executableAt) = now
      BY <1>2, <2>2, <3>3 DEF CanExecute, Later
    <3>5. now + scheduled[id].data.delay \in Feasible(kind, a)
      BY <3>1, <3>4 DEF Feasible
    <3> QED
      BY <1>2, <2>2, <3>3, <3>5
  <2> QED
    BY <2>1, <2>2
<1>4. \A i \in 1 .. Len(scheduled') : IsPending(scheduled'[i]) =>
          i \in 1 .. Len(scheduled) /\ scheduled'[i] = scheduled[i]
  BY <1>1
<1> QED
  BY <1>2, <1>3, <1>4, NoticeKept DEF NoticeStep

(* A delay change makes feasible only what it made feasible when pending.   *)
LEMMA ExecuteNotice ==
    ASSUME TypeOK, TypeOK', NEW caller \in Accounts, NEW id \in 1 .. Len(scheduled),
           Execute(caller, id)
    PROVE  NoticeStep
<1> DEFINE data == scheduled[id].data
           e == [scheduled[id] EXCEPT !.executed = TRUE, !.executedBy = caller, !.executedAt = now]
<1>1. scheduled[id] \in ScheduledExecution
  BY ElementOfSeq DEF TypeOK
<1>2. e \in ScheduledExecution /\ e.executed
  BY <1>1 DEF ScheduledExecution, TypeOK
<1>3. scheduled' = [scheduled EXCEPT ![id] = e]
  BY DEF Execute
<1>4. CanExecute(id) /\ UNCHANGED now /\ HelperCall(data)
  BY DEF Execute
<1>5. \A kind \in DelayKinds, a \in ActionIds :
        \/ delay'[kind][a] = delay[kind][a]
        \/ data.fn = kind /\ data.actionId = a /\ delay'[kind][a] = data.delay
  <2>1. data \in Calls
    BY <1>1 DEF ScheduledExecution
  <2>2. CASE data.fn \in DelayKinds /\ SetDelay(data.fn, data.actionId, data.delay)
    <3>1. data.actionId \in ActionIds
      BY <1>1, <2>2, ExecutionType
    <3> QED
      BY <2>2, <3>1 DEF SetDelay, TypeOK
  <2>3. CASE UNCHANGED delay
    BY <2>3
  <2> QED
    BY <1>4, <2>2, <2>3 DEF HelperCall, SetPendingRoot, GrantPermission, RevokePermission,
                            TakePermission, Perform
<1>6. \A kind \in DelayKinds, a \in ActionIds :
        \/ delay'[kind][a] = delay[kind][a]
        \/ /\ CanExecute(id)
           /\ scheduled[id].data.fn = kind
           /\ scheduled[id].data.actionId = a
           /\ delay'[kind][a] = scheduled[id].data.delay
  BY <1>4, <1>5
<1>7. ~IsPending(e)
  BY <1>2 DEF IsPending
<1> HIDE DEF e, data
<1> QED
  BY <1>2, <1>3, <1>4, <1>6, <1>7, SettleNotice

(* Cancelling takes feasible moments away.                                  *)
LEMMA CancelNotice ==
    ASSUME TypeOK, TypeOK', NEW caller \in Accounts, NEW id \in 1 .. Len(scheduled),
           Cancel(caller, id)
    PROVE  NoticeStep
<1> DEFINE e == [scheduled[id] EXCEPT !.canceled = TRUE, !.canceledBy = caller, !.canceledAt = now]
<1>1. scheduled[id] \in ScheduledExecution
  BY ElementOfSeq DEF TypeOK
<1>2. e \in ScheduledExecution /\ e.canceled
  BY <1>1 DEF ScheduledExecution, TypeOK
<1>3. scheduled' = [scheduled EXCEPT ![id] = e] /\ UNCHANGED <<now, delay>>
  BY DEF Cancel
<1> HIDE DEF e
<1> QED
  BY <1>2, <1>3, SettleNotice DEF IsPending

(* A root change is not subject to these delays.                            *)
LEMMA ScheduleRootChangeNotice ==
    ASSUME TypeOK, TypeOK', NEW caller \in Accounts, NEW newRoot \in RootInputs,
           NEW executors \in ExecutorSets, ScheduleRootChange(caller, newRoot, executors)
    PROVE  NoticeStep
<1> DEFINE data == [fn |-> "setPendingRoot", account |-> newRoot]
<1>1. data \in Calls
  BY InputAssumption DEF Calls, SetPendingRootCalls
<1>2. ScheduleWithDelay(caller, data, RootTransferDelay, executors) /\ UNCHANGED <<now, delay>>
  BY DEF ScheduleRootChange
<1>3. \A kind \in DelayKinds : data.fn # kind /\ data.fn # DelayedCall(kind)
  BY DEF DelayKinds, DelayedCall
<1> HIDE DEF data
<1> QED
  BY <1>1, <1>2, <1>3, ScheduleNotice, DelayAssumption, InputAssumption

(* The wait for a delay change and the new delay together are never shorter *)
(* than the delay in force.                                                 *)
LEMMA ScheduleDelayChangeNotice ==
    ASSUME TypeOK, TypeOK', NEW caller \in Accounts, NEW d \in DelayInputs,
           NEW executors \in ExecutorSets,
           ScheduleDelayChange(caller, d[1], d[2], d[3], executors)
    PROVE  NoticeStep
<1> DEFINE data == [fn |-> d[1], actionId |-> d[2], delay |-> d[3]]
           wait == DelayChangeExecutionDelay(delay[d[1]][d[2]], d[3])
<1>1. d[1] \in DelayKinds /\ d[2] \in ActionIds /\ d[3] \in Nat
  BY InputAssumption
<1>2. data \in Calls
  BY <1>1 DEF Calls, SetDelayCalls
<1>3. delay[d[1]][d[2]] \in Nat
  BY <1>1 DEF TypeOK
<1>4. wait \in Nat /\ delay[d[1]][d[2]] <= wait + d[3]
  BY <1>1, <1>3, DelayAssumption DEF DelayChangeExecutionDelay
<1>5. ScheduleWithDelay(caller, data, wait, executors) /\ UNCHANGED <<now, delay>>
  BY DEF ScheduleDelayChange
<1>6. data.fn = d[1] /\ data.actionId = d[2] /\ data.delay = d[3]
  OBVIOUS
<1>7. \A kind \in DelayKinds : d[1] # DelayedCall(kind)
  BY <1>1 DEF DelayKinds, DelayedCall
<1> HIDE DEF data, wait
<1> QED
  BY <1>2, <1>4, <1>5, <1>6, <1>7, ScheduleNotice, InputAssumption

(* A call waits for the delay of its action,                                *)
LEMMA ScheduleActionNotice ==
    ASSUME TypeOK, TypeOK', NEW caller \in Accounts, NEW a \in ActionIds, NEW t \in Targets,
           NEW executors \in ExecutorSets, Schedule(caller, a, t, executors)
    PROVE  NoticeStep
<1> DEFINE data == [fn |-> "perform", actionId |-> a, where |-> t]
           wait == delay["setDelay"][a]
<1>1. data \in Calls
  BY DEF Calls, PerformCalls
<1>2. wait \in Nat
  BY DEF TypeOK, DelayKinds
<1>3. ScheduleWithDelay(caller, data, wait, executors) /\ UNCHANGED <<now, delay>>
  BY DEF Schedule
<1>4. \A kind \in DelayKinds :
         data.fn # kind /\ (data.fn = DelayedCall(kind) => kind = "setDelay")
  BY DEF DelayKinds, DelayedCall
<1>5. \A kind \in DelayKinds, b \in ActionIds :
         data.fn = DelayedCall(kind) /\ data.actionId = b => delay[kind][b] <= wait
  BY <1>2, <1>4
<1> HIDE DEF data, wait
<1> QED
  BY <1>1, <1>2, <1>3, <1>4, <1>5, ScheduleNotice, InputAssumption

(* a grant for the delay of grants,                                         *)
LEMMA ScheduleGrantNotice ==
    ASSUME TypeOK, TypeOK', NEW caller \in Accounts, NEW g \in GrantInputs,
           NEW executors \in ExecutorSets,
           ScheduleGrantPermission(caller, g[1], g[2], g[3], executors)
    PROVE  NoticeStep
<1> DEFINE data == [fn |-> "grantPermission", actionId |-> g[1], account |-> g[2], where |-> g[3]]
           wait == delay["setGrantDelay"][g[1]]
<1>1. g[1] \in ActionIds /\ g[2] \in Holders /\ g[3] \in Wheres
  BY InputAssumption
<1>2. data \in Calls
  BY <1>1 DEF Calls, PermissionCalls
<1>3. wait \in Nat
  BY <1>1 DEF TypeOK, DelayKinds
<1>4. ScheduleWithDelay(caller, data, wait, executors) /\ UNCHANGED <<now, delay>>
  BY DEF ScheduleGrantPermission
<1>5. \A kind \in DelayKinds :
         data.fn # kind /\ (data.fn = DelayedCall(kind) => kind = "setGrantDelay")
  BY DEF DelayKinds, DelayedCall
<1>6. \A kind \in DelayKinds, b \in ActionIds :
         data.fn = DelayedCall(kind) /\ data.actionId = b => delay[kind][b] <= wait
  BY <1>3, <1>5
<1> HIDE DEF data, wait
<1> QED
  BY <1>2, <1>3, <1>4, <1>5, <1>6, ScheduleNotice, InputAssumption

(* a revocation for the delay of revocations.                               *)
LEMMA ScheduleRevokeNotice ==
    ASSUME TypeOK, TypeOK', NEW caller \in Accounts, NEW g \in GrantInputs,
           NEW executors \in ExecutorSets,
           ScheduleRevokePermission(caller, g[1], g[2], g[3], executors)
    PROVE  NoticeStep
<1> DEFINE data == [fn |-> "revokePermission", actionId |-> g[1], account |-> g[2], where |-> g[3]]
           wait == delay["setRevokeDelay"][g[1]]
<1>1. g[1] \in ActionIds /\ g[2] \in Holders /\ g[3] \in Wheres
  BY InputAssumption
<1>2. data \in Calls
  BY <1>1 DEF Calls, PermissionCalls
<1>3. wait \in Nat
  BY <1>1 DEF TypeOK, DelayKinds
<1>4. ScheduleWithDelay(caller, data, wait, executors) /\ UNCHANGED <<now, delay>>
  BY DEF ScheduleRevokePermission
<1>5. \A kind \in DelayKinds :
         data.fn # kind /\ (data.fn = DelayedCall(kind) => kind = "setRevokeDelay")
  BY DEF DelayKinds, DelayedCall
<1>6. \A kind \in DelayKinds, b \in ActionIds :
         data.fn = DelayedCall(kind) /\ data.actionId = b => delay[kind][b] <= wait
  BY <1>3, <1>5
<1> HIDE DEF data, wait
<1> QED
  BY <1>2, <1>3, <1>4, <1>5, <1>6, ScheduleNotice, InputAssumption

(* No step adds a moment earlier than all there were.                       *)
LEMMA NextNotice == TypeOK /\ TypeOK' /\ [Next]_vars => NoticeStep
<1> SUFFICES ASSUME TypeOK, TypeOK', [Next]_vars
             PROVE  NoticeStep
  OBVIOUS
<1>1. now \in Nat /\ now <= now
  BY DEF TypeOK
<1>2. CASE Tick
  <2>1. now <= now' /\ UNCHANGED <<delay, scheduled>>
    BY <1>1, <1>2 DEF Tick
  <2> QED
    BY <2>1, IdleNotice
<1>3. ASSUME NEW caller \in Accounts, NEW id \in 1 .. Len(scheduled),
             Execute(caller, id) \/ Cancel(caller, id)
      PROVE  NoticeStep
  BY <1>3, ExecuteNotice, CancelNotice
<1>4. ASSUME NEW caller \in Accounts, NEW x \in ExecutorSets,
             \/ \E r \in RootInputs : ScheduleRootChange(caller, r, x)
             \/ \E d \in DelayInputs : ScheduleDelayChange(caller, d[1], d[2], d[3], x)
             \/ \E g \in GrantInputs :
                 \/ ScheduleGrantPermission(caller, g[1], g[2], g[3], x)
                 \/ ScheduleRevokePermission(caller, g[1], g[2], g[3], x)
             \/ \E a \in ActionIds, t \in Targets : Schedule(caller, a, t, x)
      PROVE  NoticeStep
  BY <1>4, ScheduleRootChangeNotice, ScheduleDelayChangeNotice, ScheduleGrantNotice,
     ScheduleRevokeNotice, ScheduleActionNotice
<1>5. ASSUME NEW caller \in Accounts,
             \/ ClaimRoot(caller)
             \/ \E g \in GrantInputs :
                  \/ GrantDirectly(caller, g[1], g[2], g[3])
                  \/ RevokeDirectly(caller, g[1], g[2], g[3])
                  \/ RenouncePermission(caller, g[1], g[3])
                  \/ AddGranter(caller, g[1], g[2], g[3])
                  \/ RemoveGranter(caller, g[1], g[2], g[3])
             \/ \E r \in RevokerInputs :
                  AddRevoker(caller, r[1], r[2]) \/ RemoveRevoker(caller, r[1], r[2])
             \/ \E c \in CancelerInputs :
                  AddCanceler(caller, c[1], c[2]) \/ RemoveCanceler(caller, c[1], c[2])
      PROVE  NoticeStep
  <2>1. UNCHANGED <<now, delay, scheduled>>
    BY <1>5 DEF ClaimRoot, GrantDirectly, GrantPermission, RevokeDirectly, RevokePermission,
                RenouncePermission, TakePermission, AddGranter, RemoveGranter, AddRevoker,
                RemoveRevoker, AddCanceler, RemoveCanceler
  <2> QED
    BY <1>1, <2>1, IdleNotice
<1>6. CASE UNCHANGED vars
  BY <1>1, <1>6, IdleNotice DEF vars
<1> QED
  BY <1>2, <1>3, <1>4, <1>5, <1>6 DEF Next

(* The delays cannot be bypassed, whatever the callers, the delays and the  *)
(* number of pending executions are.                                        *)
THEOREM NoticeHolds == Spec => NoticeIsNeverShortened
<1>1. TypeOK /\ TypeOK' /\ [Next]_vars
      => [\A kind \in DelayKinds, a \in ActionIds :
             \A t \in Feasible(kind, a)' : \E s \in Feasible(kind, a) : s <= t]_vars
  BY NextNotice DEF NoticeStep
<1> QED
  BY <1>1, TypeCorrect, PTL DEF Spec, NoticeIsNeverShortened

---------------------------------------------------------------------------
(* Nothing early.  A grant made directly finds its delay at zero; everything *)
(* else that is delayed comes from an execution whose moment has come.      *)
EarlyStep ==
    /\ \A p \in granted' \ granted : \E s \in Feasible("setGrantDelay", p[1]) : s <= now
    /\ \A i \in 1 .. Len(scheduled) :
         /\ ~scheduled[i].executed /\ scheduled'[i].executed
         /\ scheduled[i].data.fn = "perform"
         => \E s \in Feasible("setDelay", scheduled[i].data.actionId) : s <= now

(* Steps that neither grant nor execute anything.                           *)
LEMMA IdleEarly ==
    ASSUME granted' \subseteq granted,
           \A i \in 1 .. Len(scheduled) : ~scheduled[i].executed => ~scheduled'[i].executed
    PROVE  EarlyStep
  BY DEF EarlyStep

(* A direct grant finds its delay at zero.                                  *)
LEMMA GrantEarly ==
    ASSUME TypeOK, NEW caller \in Accounts, NEW g \in GrantInputs,
           GrantDirectly(caller, g[1], g[2], g[3])
    PROVE  EarlyStep
<1>1. g[1] \in ActionIds /\ g = <<g[1], g[2], g[3]>>
  BY InputAssumption
<1>2. delay["setGrantDelay"][g[1]] = 0 /\ granted' = granted \cup {g} /\ UNCHANGED scheduled
  BY <1>1, AddressAssumption DEF GrantDirectly, GrantPermission
<1>3. now + delay["setGrantDelay"][g[1]] \in Feasible("setGrantDelay", g[1])
  BY DEF Feasible
<1>4. now + delay["setGrantDelay"][g[1]] <= now
  BY <1>2 DEF TypeOK
<1> QED
  BY <1>2, <1>3, <1>4 DEF EarlyStep

(* The execution that is carried out is itself one of the feasible ways.    *)
LEMMA DueEarly ==
    ASSUME TypeOK, NEW id \in 1 .. Len(scheduled), CanExecute(id), NEW kind \in DelayKinds,
           scheduled[id].data.fn = DelayedCall(kind)
    PROVE  \E s \in Feasible(kind, scheduled[id].data.actionId) : s <= now
<1> DEFINE a == scheduled[id].data.actionId
           s == Later(now, scheduled[id].executableAt)
<1>1. id \in Pending(DelayedCall(kind), a)
  BY DEF Pending, CanExecute
<1>2. s \in Feasible(kind, a)
  BY <1>1 DEF Feasible
<1>3. scheduled[id].executableAt \in Nat /\ now \in Nat
  <2>1. scheduled[id] \in ScheduledExecution /\ now \in Nat
    BY ElementOfSeq DEF TypeOK
  <2> QED
    BY <2>1, ExecutionType
<1>4. s <= now
  BY <1>3 DEF Later, CanExecute
<1> QED
  BY <1>2, <1>4

(* What executes was feasible at its own moment, which has come.            *)
LEMMA ExecuteEarly ==
    ASSUME TypeOK, NEW caller \in Accounts, NEW id \in 1 .. Len(scheduled), Execute(caller, id)
    PROVE  EarlyStep
<1> DEFINE data == scheduled[id].data
<1>1. CanExecute(id) /\ HelperCall(data)
  BY DEF Execute
<1>2. \A i \in 1 .. Len(scheduled) : i # id => scheduled'[i] = scheduled[i]
  <2>1. scheduled \in Seq(ScheduledExecution) /\ Len(scheduled) \in Nat
    BY LenProperties DEF TypeOK
  <2> QED
    BY <2>1 DEF Execute
<1>3. data.fn = "perform" => \E s \in Feasible("setDelay", data.actionId) : s <= now
  BY <1>1, DueEarly DEF DelayKinds, DelayedCall
<1>4. data.fn = "grantPermission" => \E s \in Feasible("setGrantDelay", data.actionId) : s <= now
  BY <1>1, DueEarly DEF DelayKinds, DelayedCall
<1>5. \A p \in granted' \ granted : data.fn = "grantPermission" /\ p[1] = data.actionId
  BY <1>1 DEF HelperCall, SetPendingRoot, SetDelay, GrantPermission, RevokePermission,
              TakePermission, Perform
<1> HIDE DEF data
<1>6. \A p \in granted' \ granted : \E s \in Feasible("setGrantDelay", p[1]) : s <= now
  BY <1>4, <1>5
<1> QED
  BY <1>2, <1>3, <1>6 DEF EarlyStep, data

(* An entry that is appended leaves those before it as they were.           *)
LEMMA ScheduleEarly ==
    ASSUME TypeOK, NEW caller, NEW data, NEW wait, NEW executors,
           ScheduleWithDelay(caller, data, wait, executors), UNCHANGED granted
    PROVE  EarlyStep
<1>1. scheduled \in Seq(ScheduledExecution) /\ Len(scheduled) \in Nat
  BY LenProperties DEF TypeOK
<1>2. \A i \in 1 .. Len(scheduled) : scheduled'[i] = scheduled[i]
  BY <1>1 DEF ScheduleWithDelay
<1> QED
  BY <1>2, IdleEarly

(* Cancelling executes nothing.                                             *)
LEMMA CancelEarly ==
    ASSUME TypeOK, NEW caller \in Accounts, NEW id \in 1 .. Len(scheduled), Cancel(caller, id)
    PROVE  EarlyStep
<1>1. scheduled[id] \in ScheduledExecution /\ Len(scheduled) \in Nat
  BY ElementOfSeq, LenProperties DEF TypeOK
<1> DEFINE e == [scheduled[id] EXCEPT !.canceled = TRUE, !.canceledBy = caller, !.canceledAt = now]
<1>2. e.executed = scheduled[id].executed
  BY <1>1 DEF ScheduledExecution
<1>3. scheduled' = [scheduled EXCEPT ![id] = e] /\ granted' = granted
  BY DEF Cancel
<1> HIDE DEF e
<1>4. \A i \in 1 .. Len(scheduled) : scheduled'[i] = IF i = id THEN e ELSE scheduled[i]
  BY <1>1, <1>3 DEF TypeOK
<1> QED
  BY <1>2, <1>3, <1>4, IdleEarly

(* Nothing is granted or performed before its moment.                       *)
LEMMA NextEarly == TypeOK /\ [Next]_vars => EarlyStep
<1> SUFFICES ASSUME TypeOK, [Next]_vars
             PROVE  EarlyStep
  OBVIOUS
<1>1. ASSUME NEW caller \in Accounts, NEW id \in 1 .. Len(scheduled),
             Execute(caller, id) \/ Cancel(caller, id)
      PROVE  EarlyStep
  BY <1>1, ExecuteEarly, CancelEarly
<1>2. ASSUME NEW caller \in Accounts, NEW x \in ExecutorSets,
             \/ \E r \in RootInputs : ScheduleRootChange(caller, r, x)
             \/ \E d \in DelayInputs : ScheduleDelayChange(caller, d[1], d[2], d[3], x)
             \/ \E g \in GrantInputs :
                 \/ ScheduleGrantPermission(caller, g[1], g[2], g[3], x)
                 \/ ScheduleRevokePermission(caller, g[1], g[2], g[3], x)
             \/ \E a \in ActionIds, t \in Targets : Schedule(caller, a, t, x)
      PROVE  EarlyStep
  <2>1. UNCHANGED granted
    BY <1>2 DEF ScheduleRootChange, ScheduleDelayChange, ScheduleGrantPermission,
                ScheduleRevokePermission, Schedule
  <2>2. \E data, wait : ScheduleWithDelay(caller, data, wait, x)
    BY <1>2 DEF ScheduleRootChange, ScheduleDelayChange, ScheduleGrantPermission,
                ScheduleRevokePermission, Schedule
  <2> QED
    BY <2>1, <2>2, ScheduleEarly
<1>3. ASSUME NEW caller \in Accounts, NEW g \in GrantInputs,
             GrantDirectly(caller, g[1], g[2], g[3])
      PROVE  EarlyStep
  BY <1>3, GrantEarly
<1>4. ASSUME \/ Tick \/ UNCHANGED vars
             \/ \E caller \in Accounts :
                 \/ ClaimRoot(caller)
                 \/ \E g \in GrantInputs :
                     \/ RevokeDirectly(caller, g[1], g[2], g[3])
                     \/ RenouncePermission(caller, g[1], g[3])
                     \/ AddGranter(caller, g[1], g[2], g[3])
                     \/ RemoveGranter(caller, g[1], g[2], g[3])
                 \/ \E r \in RevokerInputs :
                     AddRevoker(caller, r[1], r[2]) \/ RemoveRevoker(caller, r[1], r[2])
                 \/ \E c \in CancelerInputs :
                     AddCanceler(caller, c[1], c[2]) \/ RemoveCanceler(caller, c[1], c[2])
      PROVE  EarlyStep
  <2>1. UNCHANGED scheduled /\ granted' \subseteq granted
    BY <1>4 DEF Tick, vars, ClaimRoot, RevokeDirectly, RevokePermission,
                RenouncePermission, TakePermission, AddGranter, RemoveGranter, AddRevoker,
                RemoveRevoker, AddCanceler, RemoveCanceler
  <2> QED
    BY <2>1, IdleEarly
<1> QED
  BY <1>1, <1>2, <1>3, <1>4 DEF Next

(* For any delays, no permission is granted and no delayed call of a target *)
(* is carried out before the earliest moment that was feasible for it.      *)
THEOREM NothingEarly == Spec => NothingHappensEarly
<1>1. TypeOK /\ [Next]_vars
      => [/\ \A p \in granted' \ granted : \E s \in Feasible("setGrantDelay", p[1]) : s <= now
          /\ \A i \in 1 .. Len(scheduled) :
               /\ ~scheduled[i].executed /\ scheduled'[i].executed
               /\ scheduled[i].data.fn = "perform"
               => \E s \in Feasible("setDelay", scheduled[i].data.actionId) : s <= now]_vars
  BY NextEarly DEF EarlyStep
<1> QED
  BY <1>1, TypeCorrect, PTL DEF Spec, NothingHappensEarly

---------------------------------------------------------------------------
(* Removals.  What is taken leaves no entry that still answers yes.         *)
RemovalStep ==
    /\ \A p \in granted \ granted' : ~HasPermission(p[1], p[2], p[3])'
    /\ \A g \in granters \ granters' : ~IsGranter(g[1], g[2], g[3])'
    /\ \A r \in revokers \ revokers' : ~IsRevoker(r[1], r[2])'
    /\ \A c \in cancelers \ cancelers' : ~IsCanceler(c[1], c[2])'

(* No global entry remains behind a local one that is taken.                *)
LEMMA PermissionTaken ==
    ASSUME NEW a, NEW account, NEW where, TakePermission(a, account, where)
    PROVE  \A p \in granted \ granted' : ~HasPermission(p[1], p[2], p[3])'
  BY DEF TakePermission, HasPermission

(* Nor when the removal was scheduled.                                      *)
LEMMA HelperCallRemoval ==
    ASSUME NEW data, HelperCall(data)
    PROVE  \A p \in granted \ granted' : ~HasPermission(p[1], p[2], p[3])'
<1>1. CASE RevokePermission(Helper, data.actionId, data.account, data.where)
  BY <1>1, PermissionTaken DEF RevokePermission
<1>2. CASE granted \subseteq granted'
  BY <1>2
<1> QED
  BY <1>1, <1>2 DEF HelperCall, SetPendingRoot, SetDelay, GrantPermission, Perform

(* A canceler of one execution that is also a global one keeps the role     *)
(* until the global entry goes.                                             *)
LEMMA ManagerRemoved ==
    ASSUME NEW caller, NEW x, NEW y, NEW z
    PROVE  /\ RemoveGranter(caller, x, y, z)
              => \A g \in granters \ granters' : ~IsGranter(g[1], g[2], g[3])'
           /\ RemoveRevoker(caller, x, y)
              => \A r \in revokers \ revokers' : ~IsRevoker(r[1], r[2])'
           /\ RemoveCanceler(caller, x, y)
              => \A c \in cancelers \ cancelers' : ~IsCanceler(c[1], c[2])'
<1>1. ASSUME RemoveGranter(caller, x, y, z)
      PROVE  \A g \in granters \ granters' : ~IsGranter(g[1], g[2], g[3])'
  BY <1>1 DEF RemoveGranter, IsGranter, IsRoot
<1>2. ASSUME RemoveRevoker(caller, x, y)
      PROVE  \A r \in revokers \ revokers' : ~IsRevoker(r[1], r[2])'
  BY <1>2 DEF RemoveRevoker, IsRevoker, IsRoot
<1>3. ASSUME RemoveCanceler(caller, x, y)
      PROVE  \A c \in cancelers \ cancelers' : ~IsCanceler(c[1], c[2])'
  BY <1>3 DEF RemoveCanceler, IsCanceler, IsRoot
<1> QED
  BY <1>1, <1>2, <1>3

(* What any step takes is gone.                                             *)
LEMMA NextRemoval == [Next]_vars => RemovalStep
<1> SUFFICES ASSUME [Next]_vars
             PROVE  RemovalStep
  OBVIOUS
<1>1. CASE Tick \/ UNCHANGED vars
  BY <1>1 DEF Tick, vars, RemovalStep
<1>2. ASSUME NEW caller \in Accounts,
             ClaimRoot(caller) \/ \E id \in 1 .. Len(scheduled) : Cancel(caller, id)
      PROVE  RemovalStep
  BY <1>2 DEF ClaimRoot, Cancel, RemovalStep
<1>3. ASSUME NEW caller \in Accounts, NEW id \in 1 .. Len(scheduled), Execute(caller, id)
      PROVE  RemovalStep
  <2>1. UNCHANGED <<granters, revokers, cancelers>> /\ HelperCall(scheduled[id].data)
    BY <1>3 DEF Execute
  <2> QED
    BY <2>1, HelperCallRemoval DEF RemovalStep
<1>4. ASSUME NEW caller \in Accounts, NEW x \in ExecutorSets,
             \/ \E r \in RootInputs : ScheduleRootChange(caller, r, x)
             \/ \E d \in DelayInputs : ScheduleDelayChange(caller, d[1], d[2], d[3], x)
             \/ \E g \in GrantInputs :
                 \/ ScheduleGrantPermission(caller, g[1], g[2], g[3], x)
                 \/ ScheduleRevokePermission(caller, g[1], g[2], g[3], x)
             \/ \E a \in ActionIds, t \in Targets : Schedule(caller, a, t, x)
      PROVE  RemovalStep
  <2>1. UNCHANGED <<granted, granters, revokers>> /\ cancelers \subseteq cancelers'
    BY <1>4 DEF ScheduleRootChange, ScheduleDelayChange, ScheduleGrantPermission,
                ScheduleRevokePermission, Schedule, AddSchedulerAsCanceler
  <2> QED
    BY <2>1 DEF RemovalStep
<1>5. ASSUME NEW caller \in Accounts, NEW g \in GrantInputs,
             RevokeDirectly(caller, g[1], g[2], g[3]) \/ RenouncePermission(caller, g[1], g[3])
      PROVE  RemovalStep
  <2>1. UNCHANGED <<granters, revokers, cancelers>>
    BY <1>5 DEF RevokeDirectly, RenouncePermission
  <2>2. TakePermission(g[1], g[2], g[3]) \/ TakePermission(g[1], caller, g[3])
    BY <1>5 DEF RevokeDirectly, RenouncePermission, RevokePermission
  <2> QED
    BY <2>1, <2>2, PermissionTaken DEF RemovalStep
<1>6. ASSUME NEW caller \in Accounts,
             \/ \E g \in GrantInputs : GrantDirectly(caller, g[1], g[2], g[3])
                                       \/ AddGranter(caller, g[1], g[2], g[3])
             \/ \E r \in RevokerInputs : AddRevoker(caller, r[1], r[2])
             \/ \E c \in CancelerInputs : AddCanceler(caller, c[1], c[2])
      PROVE  RemovalStep
  <2>1. /\ granted \subseteq granted' /\ granters \subseteq granters'
        /\ revokers \subseteq revokers' /\ cancelers \subseteq cancelers'
    BY <1>6 DEF GrantDirectly, GrantPermission, AddGranter, AddRevoker, AddCanceler
  <2> QED
    BY <2>1 DEF RemovalStep
<1>7. ASSUME NEW caller \in Accounts,
             \/ \E g \in GrantInputs : RemoveGranter(caller, g[1], g[2], g[3])
             \/ \E r \in RevokerInputs : RemoveRevoker(caller, r[1], r[2])
             \/ \E c \in CancelerInputs : RemoveCanceler(caller, c[1], c[2])
      PROVE  RemovalStep
  <2>1. CASE \E g \in GrantInputs : RemoveGranter(caller, g[1], g[2], g[3])
    BY <2>1, ManagerRemoved DEF RemoveGranter, RemovalStep
  <2>2. CASE \E r \in RevokerInputs : RemoveRevoker(caller, r[1], r[2])
    BY <2>2, ManagerRemoved DEF RemoveRevoker, RemovalStep
  <2>3. CASE \E c \in CancelerInputs : RemoveCanceler(caller, c[1], c[2])
    BY <2>3, ManagerRemoved DEF RemoveCanceler, RemovalStep
  <2> QED
    BY <1>7, <2>1, <2>2, <2>3
<1> QED
  BY <1>1, <1>2, <1>3, <1>4, <1>5, <1>6, <1>7 DEF Next

(* Whoever loses a permission or a role for a place does not keep it        *)
(* through a global entry.                                                  *)
THEOREM RemovalHolds == Spec => RemovalIsEffective
<1>1. [Next]_vars
      => [/\ \A p \in granted \ granted' : ~HasPermission(p[1], p[2], p[3])'
          /\ \A g \in granters \ granters' : ~IsGranter(g[1], g[2], g[3])'
          /\ \A r \in revokers \ revokers' : ~IsRevoker(r[1], r[2])'
          /\ \A c \in cancelers \ cancelers' : ~IsCanceler(c[1], c[2])']_vars
  BY NextRemoval DEF RemovalStep
<1> QED
  BY <1>1, PTL DEF Spec, RemovalIsEffective

---------------------------------------------------------------------------
(* Announcements.  RootChangeIsAnnounced is not inductive: what makes an    *)
(* announcement last is who scheduled its execution and for when, and that  *)
(* executions are neither early nor rewritten.                              *)
Reign == [root : Accounts, since : Nat, announcement : Nat]

WellAnnounced(e) ==
    e.data.fn = "setPendingRoot" =>
        /\ e.executableAt = e.scheduledAt + RootTransferDelay
        /\ e.scheduledAt <= now
        /\ WasRoot(e.scheduledBy, e.scheduledAt)
        /\ e.executed => ~e.canceled /\ e.executableAt <= e.executedAt /\ e.executedAt <= now

LogOK == \A i \in 1 .. Len(scheduled) : WellAnnounced(scheduled[i])

ReignsOK ==
    /\ reigns \in Seq(Reign)
    /\ 1 <= Len(reigns)
    /\ announcement \in Nat
    /\ \A k \in 1 .. Len(reigns) : reigns[k].since <= now

AnnouncedInv == TypeOK /\ ReignsOK /\ LogOK /\ RootChangeIsAnnounced

(* What the claims are: the reigns and, if there is one, the pending root.  *)
ClaimsOK ==
    /\ Claims \in Seq(Reign)
    /\ Len(Claims) = IF pendingRoot = NoAccount THEN Len(reigns) ELSE Len(reigns) + 1
    /\ \A k \in 1 .. Len(reigns) : Claims[k] = reigns[k]
    /\ pendingRoot # NoAccount =>
         Claims[Len(reigns) + 1] = [root |-> pendingRoot, since |-> now, announcement |-> announcement]

(* The number of reigns and their times are natural numbers.                *)
LEMMA ReignTimes ==
    ASSUME NEW s \in Seq(Reign)
    PROVE  Len(s) \in Nat /\ \A k \in 1 .. Len(s) : s[k].since \in Nat
<1>1. Len(s) \in Nat
  BY LenProperties
<1>2. \A k \in 1 .. Len(s) : s[k] \in Reign
  BY ElementOfSeq
<1> QED
  BY <1>1, <1>2 DEF Reign

(* The claims are as ClaimsOK describes them, pending root or none.         *)
LEMMA ClaimsAre == TypeOK /\ ReignsOK => ClaimsOK
<1> SUFFICES ASSUME TypeOK, ReignsOK
             PROVE  ClaimsOK
  OBVIOUS
<1>1. reigns \in Seq(Reign) /\ announcement \in Nat /\ now \in Nat
      /\ pendingRoot \in Accounts \cup {NoAccount}
  BY DEF TypeOK, ReignsOK
<1>2. CASE pendingRoot = NoAccount
  BY <1>1, <1>2 DEF ClaimsOK, Claims
<1>3. CASE pendingRoot # NoAccount
  <2> DEFINE next == [root |-> pendingRoot, since |-> now, announcement |-> announcement]
  <2>1. next \in Reign
    BY <1>1, <1>3 DEF Reign
  <2>2. Claims = Append(reigns, next)
    BY <1>3 DEF Claims
  <2> HIDE DEF next
  <2>3. /\ Claims \in Seq(Reign) /\ Len(Claims) = Len(reigns) + 1
        /\ \A k \in 1 .. Len(reigns) : Claims[k] = reigns[k]
        /\ Claims[Len(reigns) + 1] = next
    BY <1>1, <2>1, <2>2, AppendProperties
  <2> QED
    BY <1>3, <2>3 DEF ClaimsOK, next
<1> QED
  BY <1>2, <1>3

(* Who was root stays so, as far as the past goes.                          *)
RootsKept == \A x, t : t <= now /\ WasRoot(x, t) => WasRoot(x, t)'

(* So does an announcement, since executed entries are kept.                *)
LogKept ==
    /\ Len(scheduled) <= Len(scheduled')
    /\ \A i \in 1 .. Len(scheduled) : scheduled[i].executed => scheduled'[i] = scheduled[i]

(* A reign that was announced stays so, now or claimed later: claimRoot     *)
(* records the announcement that the pending root had.                      *)
LEMMA AnnouncedStays ==
    ASSUME TypeOK, TypeOK', RootsKept, LogKept, NEW reign \in Reign, NEW later \in Reign,
           Announced(reign), later.root = reign.root, later.announcement = reign.announcement,
           reign.since <= now, reign.since <= later.since
    PROVE  Announced(later)'
<1>1. Len(scheduled) \in Nat /\ Len(scheduled') \in Nat /\ now \in Nat /\ RootTransferDelay \in Nat
      /\ scheduled \in Seq(ScheduledExecution)
  BY LenProperties, DelayAssumption DEF TypeOK
<1>2. reign.since \in Nat /\ later.since \in Nat
  BY DEF Reign
<1>3. reign.announcement \in 1 .. Len(scheduled)
  BY DEF Announced
<1>4. PICK e : e = scheduled[reign.announcement]
  OBVIOUS
<1>5. /\ e.data = [fn |-> "setPendingRoot", account |-> reign.root]
      /\ WasRoot(e.scheduledBy, e.scheduledAt)
      /\ e.executed /\ ~e.canceled
      /\ e.scheduledAt + RootTransferDelay <= e.executedAt
      /\ e.executedAt <= reign.since
  BY <1>4 DEF Announced
<1>6. e.scheduledAt \in Nat /\ e.executedAt \in Nat
  <2>1. e \in ScheduledExecution
    BY <1>1, <1>3, <1>4, ElementOfSeq
  <2> QED
    BY <2>1 DEF ScheduledExecution
<1>7. WasRoot(e.scheduledBy, e.scheduledAt)'
  <2>1. e.scheduledAt <= now
    BY <1>1, <1>2, <1>5, <1>6
  <2> QED
    BY <1>5, <2>1 DEF RootsKept
<1>8. scheduled'[later.announcement] = e /\ later.announcement \in 1 .. Len(scheduled')
  BY <1>1, <1>3, <1>4, <1>5 DEF LogKept
<1>9. e.executedAt <= later.since
  BY <1>2, <1>5, <1>6
<1> QED
  BY <1>5, <1>7, <1>8, <1>9 DEF Announced

(* A step that leaves the claims and the announcements leaves them honest.  *)
ClaimsKept ==
    /\ Len(Claims') = Len(Claims)
    /\ \A k \in 1 .. Len(Claims) : /\ Claims'[k].root = Claims[k].root
                                   /\ Claims'[k].announcement = Claims[k].announcement
                                   /\ Claims[k].since <= Claims'[k].since

(* A step that keeps roots, executions and claims keeps RootChangeIsAnnounced. *)
LEMMA HonestStays ==
    ASSUME AnnouncedInv, TypeOK', ReignsOK', RootsKept, LogKept, ClaimsKept,
           root' = reigns'[Len(reigns')].root
    PROVE  RootChangeIsAnnounced'
<1>1. ClaimsOK /\ TypeOK /\ ReignsOK
  BY ClaimsAre DEF AnnouncedInv
<1>2. ClaimsOK'
  <2>1. TypeOK' /\ ReignsOK' => ClaimsOK'
    BY ClaimsAre, PTL
  <2> QED
    BY <2>1
<1>3. Claims \in Seq(Reign) /\ Claims' \in Seq(Reign) /\ Len(Claims) \in Nat /\ Len(reigns) \in Nat
  BY <1>1, <1>2, LenProperties DEF ClaimsOK, ReignsOK
<1>4. ASSUME NEW k \in 2 .. Len(Claims)
      PROVE  /\ ByConstructor(k, Claims'[k]) \/ Announced(Claims[k])'
             /\ \A j \in 2 .. k - 1 : Claims'[j].announcement # Claims'[k].announcement
  <2>1. k \in 1 .. Len(Claims) /\ k \in 1 .. Len(Claims')
    BY <1>3 DEF ClaimsKept
  <2>2. \A j \in 2 .. k - 1 : j \in 1 .. Len(Claims)
    BY <1>3
  <2>3. /\ ByConstructor(k, Claims[k]) \/ Announced(Claims[k])
        /\ \A j \in 2 .. k - 1 : Claims[j].announcement # Claims[k].announcement
    BY DEF AnnouncedInv, RootChangeIsAnnounced
  <2>4. PICK reign : reign = Claims[k]
    OBVIOUS
  <2>5. PICK later : later = Claims'[k]
    OBVIOUS
  <2>6. /\ reign \in Reign /\ later \in Reign
        /\ later.root = reign.root /\ later.announcement = reign.announcement /\ reign.since <= later.since
    BY <1>3, <2>1, <2>4, <2>5, ElementOfSeq DEF ClaimsKept
  <2>7. reign.since <= now
    <3>1. CASE k \in 1 .. Len(reigns)
      BY <1>1, <2>4, <3>1 DEF ClaimsOK, ReignsOK
    <3>2. CASE k \notin 1 .. Len(reigns)
      <4>1. pendingRoot # NoAccount /\ k = Len(reigns) + 1
        BY <1>1, <1>3, <2>1, <3>2 DEF ClaimsOK
      <4>2. reign.since = now
        BY <1>1, <2>4, <4>1 DEF ClaimsOK
      <4> QED
        BY <4>2 DEF AnnouncedInv, TypeOK
    <3> QED
      BY <3>1, <3>2
  <2>8. ByConstructor(k, later) \/ Announced(later)'
    <3>1. CASE ByConstructor(k, reign)
      BY <2>6, <3>1 DEF ByConstructor
    <3>2. CASE Announced(reign)
      BY <1>1, <2>6, <2>7, <3>2, AnnouncedStays
    <3> QED
      BY <2>3, <2>4, <3>1, <3>2
  <2>9. Announced(later)' => Announced(Claims[k])'
    BY <2>5 DEF Announced
  <2> QED
    BY <2>1, <2>2, <2>3, <2>5, <2>8, <2>9 DEF ClaimsKept
<1> QED
  BY <1>4 DEF RootChangeIsAnnounced, ClaimsKept, ByConstructor

(* An entry of the log that nobody touches is as well announced later.      *)
LEMMA WellAnnouncedStays ==
    ASSUME TypeOK, TypeOK', RootsKept, now <= now', NEW e \in ScheduledExecution, WellAnnounced(e)
    PROVE  WellAnnounced(e)'
<1>1. now \in Nat /\ now' \in Nat /\ e.scheduledAt \in Nat /\ e.executedAt \in Nat
  BY DEF TypeOK, ScheduledExecution
<1>2. e.data.fn = "setPendingRoot" => WasRoot(e.scheduledBy, e.scheduledAt)'
  BY DEF WellAnnounced, RootsKept
<1> QED
  BY <1>1, <1>2 DEF WellAnnounced

(* The log stays well announced when entries stay or what replaces or joins *)
(* them is (schedule, execute, cancel).                                     *)
LEMMA LogStays ==
    ASSUME TypeOK, TypeOK', RootsKept, now <= now', LogOK,
           \A i \in 1 .. Len(scheduled') :
               \/ i \in 1 .. Len(scheduled) /\ scheduled'[i] = scheduled[i]
               \/ WellAnnounced(scheduled[i])'
    PROVE  LogOK'
<1>1. ASSUME NEW i \in 1 .. Len(scheduled), scheduled'[i] = scheduled[i]
      PROVE  WellAnnounced(scheduled[i])'
  <2>1. PICK e : e = scheduled[i]
    OBVIOUS
  <2>2. e \in ScheduledExecution /\ WellAnnounced(e)
    BY <2>1, ElementOfSeq DEF TypeOK, LogOK
  <2>3. WellAnnounced(e)'
    BY <2>2, WellAnnouncedStays
  <2> QED
    BY <1>1, <2>1, <2>3 DEF WellAnnounced
<1> QED
  BY <1>1 DEF LogOK

(* Steps that leave the roots alone.                                        *)
RootsStay == UNCHANGED <<root, pendingRoot, history>>

(* So every step that leaves the roots alone keeps the invariant.           *)
LEMMA QuietAnnouncement ==
    ASSUME AnnouncedInv, TypeOK', RootsStay, now <= now', LogKept,
           \A i \in 1 .. Len(scheduled') :
               \/ i \in 1 .. Len(scheduled) /\ scheduled'[i] = scheduled[i]
               \/ WellAnnounced(scheduled[i])'
    PROVE  AnnouncedInv'
<1>1. TypeOK /\ ReignsOK /\ LogOK /\ RootChangeIsAnnounced
  BY DEF AnnouncedInv
<1>2. now \in Nat /\ now' \in Nat
  BY <1>1 DEF TypeOK
<1>3. UNCHANGED <<root, pendingRoot, reigns, announcement>>
  BY DEF RootsStay, history
<1>4. RootsKept
  BY <1>3 DEF RootsKept, WasRoot
<1>5. ReignsOK'
  <2>1. \A k \in 1 .. Len(reigns) : reigns[k].since \in Nat
    BY <1>1, ReignTimes DEF ReignsOK
  <2> QED
    BY <1>1, <1>2, <1>3, <2>1 DEF ReignsOK
<1>6. LogOK'
  BY <1>1, <1>4, LogStays
<1>7. ClaimsKept
  <2>1. ClaimsOK /\ (TypeOK' /\ ReignsOK' => ClaimsOK')
    BY <1>1, ClaimsAre, PTL
  <2>2. ClaimsOK'
    BY <1>5, <2>1
  <2>3. Len(reigns) \in Nat /\ \A k \in 1 .. Len(reigns) : reigns[k].since \in Nat
    BY <1>1, ReignTimes DEF ReignsOK
  <2>4. CASE pendingRoot = NoAccount
    BY <1>3, <2>1, <2>2, <2>3, <2>4 DEF ClaimsOK, ClaimsKept
  <2>5. CASE pendingRoot # NoAccount
    <3>1. Len(Claims) = Len(reigns) + 1 /\ Len(Claims') = Len(reigns) + 1
      BY <1>3, <2>1, <2>2, <2>5 DEF ClaimsOK
    <3>2. \A k \in 1 .. Len(reigns) : Claims'[k] = Claims[k] /\ Claims[k].since <= Claims'[k].since
      BY <1>3, <2>1, <2>2, <2>3 DEF ClaimsOK
    <3>3. /\ Claims'[Len(reigns) + 1].root = Claims[Len(reigns) + 1].root
          /\ Claims'[Len(reigns) + 1].announcement = Claims[Len(reigns) + 1].announcement
          /\ Claims[Len(reigns) + 1].since <= Claims'[Len(reigns) + 1].since
      BY <1>3, <2>1, <2>2, <2>5 DEF ClaimsOK
    <3>4. \A k \in 1 .. Len(Claims) : k \in 1 .. Len(reigns) \/ k = Len(reigns) + 1
      BY <2>3, <3>1
    <3> QED
      BY <3>1, <3>2, <3>3, <3>4 DEF ClaimsKept
  <2> QED
    BY <2>4, <2>5
<1>8. root' = reigns'[Len(reigns')].root
  BY <1>1, <1>3 DEF RootChangeIsAnnounced
<1>9. RootChangeIsAnnounced'
  BY <1>4, <1>5, <1>7, <1>8, HonestStays
<1> QED
  BY <1>5, <1>6, <1>9 DEF AnnouncedInv

(* The root of now is one of those that were.                               *)
LEMMA RootIsNow ==
    ASSUME AnnouncedInv
    PROVE  WasRoot(root, now)
<1>1. reigns[Len(reigns)].root = root /\ Len(reigns) \in Nat /\ 1 <= Len(reigns)
  BY LenProperties DEF AnnouncedInv, RootChangeIsAnnounced, ReignsOK
<1>2. Len(reigns) \in 1 .. Len(reigns) /\ ~(Len(reigns) < Len(reigns))
  BY <1>1
<1>3. reigns[Len(reigns)].since <= now
  BY <1>2 DEF AnnouncedInv, ReignsOK
<1> QED
  BY <1>1, <1>2, <1>3 DEF WasRoot

(* A root change that is scheduled waits for the root transfer delay.       *)
LEMMA ScheduledAnnouncement ==
    ASSUME AnnouncedInv, TypeOK', NEW caller \in Accounts, NEW data \in Calls, NEW wait \in Nat,
           NEW executors \in SUBSET Accounts,
           ScheduleWithDelay(caller, data, wait, executors),
           data.fn = "setPendingRoot" => wait = RootTransferDelay /\ caller = root,
           RootsStay, UNCHANGED now
    PROVE  AnnouncedInv'
<1>1. TypeOK /\ now \in Nat
  BY DEF AnnouncedInv, TypeOK
<1>2. Len(scheduled) \in Nat
  BY <1>1, LenProperties DEF TypeOK
<1>3. /\ Len(scheduled') = Len(scheduled) + 1
      /\ \A i \in 1 .. Len(scheduled) : scheduled'[i] = scheduled[i]
      /\ IsPending(scheduled'[NewId])
      /\ scheduled'[NewId].data = data
      /\ scheduled'[NewId].executableAt = now + wait
  BY <1>1, ScheduledType
<1>4. scheduled'[NewId].scheduledAt = now /\ scheduled'[NewId].scheduledBy = caller
  BY <1>1, AppendProperties DEF ScheduleWithDelay, NewId, TypeOK
<1>5. PICK e : e = scheduled'[NewId]
  OBVIOUS
<1>6. WellAnnounced(e)'
  <2>1. data.fn = "setPendingRoot" => WasRoot(e.scheduledBy, e.scheduledAt)
    BY <1>4, <1>5, RootIsNow
  <2>2. WasRoot(e.scheduledBy, e.scheduledAt) => WasRoot(e.scheduledBy, e.scheduledAt)'
    BY DEF WasRoot, RootsStay, history
  <2> QED
    BY <1>1, <1>3, <1>4, <1>5, <2>1, <2>2 DEF WellAnnounced, IsPending
<1>7. \A i \in 1 .. Len(scheduled') : i \in 1 .. Len(scheduled) \/ i = NewId
  BY <1>2, <1>3 DEF NewId
<1>8. \A i \in 1 .. Len(scheduled') :
         \/ i \in 1 .. Len(scheduled) /\ scheduled'[i] = scheduled[i]
         \/ WellAnnounced(scheduled[i])'
  BY <1>3, <1>5, <1>6, <1>7 DEF WellAnnounced
<1>9. LogKept /\ now <= now'
  BY <1>1, <1>2, <1>3 DEF LogKept
<1> QED
  BY <1>8, <1>9, QuietAnnouncement

(* Executing or canceling settles one entry that was pending.               *)
LEMMA SettledAnnouncement ==
    ASSUME AnnouncedInv, NEW id \in 1 .. Len(scheduled), IsPending(scheduled[id]),
           NEW e \in ScheduledExecution, scheduled' = [scheduled EXCEPT ![id] = e],
           WellAnnounced(e)'
    PROVE  /\ Len(scheduled') = Len(scheduled)
           /\ scheduled'[id] = e
           /\ LogKept
           /\ \A i \in 1 .. Len(scheduled') :
                \/ i \in 1 .. Len(scheduled) /\ scheduled'[i] = scheduled[i]
                \/ WellAnnounced(scheduled[i])'
<1>1. TypeOK /\ Len(scheduled) \in Nat
  BY LenProperties DEF AnnouncedInv, TypeOK
<1>2. /\ Len(scheduled') = Len(scheduled)
      /\ \A i \in 1 .. Len(scheduled) : scheduled'[i] = IF i = id THEN e ELSE scheduled[i]
  BY <1>1, SettledType
<1>3. WellAnnounced(scheduled[id])'
  BY <1>2 DEF WellAnnounced
<1>4. LogKept
  BY <1>1, <1>2 DEF LogKept, IsPending
<1> QED
  BY <1>2, <1>3, <1>4

(* A canceled root change announces nobody.                                 *)
LEMMA CancelAnnouncement ==
    ASSUME AnnouncedInv, TypeOK', NEW caller \in Accounts, NEW id \in 1 .. Len(scheduled),
           Cancel(caller, id)
    PROVE  AnnouncedInv'
<1> DEFINE new == [scheduled[id] EXCEPT !.canceled = TRUE, !.canceledBy = caller, !.canceledAt = now]
<1>1. TypeOK /\ WellAnnounced(scheduled[id]) /\ now \in Nat
  BY DEF AnnouncedInv, LogOK, TypeOK
<1>2. scheduled[id] \in ScheduledExecution
  BY <1>1, ElementOfSeq DEF TypeOK
<1>3. /\ scheduled' = [scheduled EXCEPT ![id] = new]
      /\ IsPending(scheduled[id]) /\ RootsStay /\ UNCHANGED now
  BY DEF Cancel, RootsStay
<1>4. PICK e : e = new
  OBVIOUS
<1>5. e \in ScheduledExecution
  BY <1>1, <1>2, <1>4 DEF ScheduledExecution
<1>6. /\ e.data = scheduled[id].data /\ e.scheduledAt = scheduled[id].scheduledAt
      /\ e.scheduledBy = scheduled[id].scheduledBy /\ e.executableAt = scheduled[id].executableAt
      /\ ~e.executed
  BY <1>2, <1>3, <1>4 DEF ScheduledExecution, IsPending
<1>7. WellAnnounced(e)'
  <2>1. UNCHANGED <<reigns, now>>
    BY <1>3 DEF RootsStay, history
  <2> QED
    BY <1>1, <1>6, <2>1 DEF WellAnnounced, WasRoot
<1>8. scheduled' = [scheduled EXCEPT ![id] = e]
  BY <1>3, <1>4
<1> HIDE DEF new
<1>9. /\ LogKept
      /\ \A i \in 1 .. Len(scheduled') :
           \/ i \in 1 .. Len(scheduled) /\ scheduled'[i] = scheduled[i]
           \/ WellAnnounced(scheduled[i])'
  BY <1>3, <1>5, <1>7, <1>8, SettledAnnouncement
<1>10. now <= now'
  BY <1>1, <1>3
<1> QED
  BY <1>3, <1>9, <1>10, QuietAnnouncement

(* A pending root is announced by the execution that sets it, and by none   *)
(* that has been executed before.                                           *)
LEMMA ExecuteAnnouncement ==
    ASSUME AnnouncedInv, TypeOK', NEW caller \in Accounts, NEW id \in 1 .. Len(scheduled),
           Execute(caller, id)
    PROVE  AnnouncedInv'
<1> DEFINE new == [scheduled[id] EXCEPT !.executed = TRUE, !.executedBy = caller, !.executedAt = now]
<1>1. /\ TypeOK /\ WellAnnounced(scheduled[id]) /\ now \in Nat /\ Len(scheduled) \in Nat
      /\ ReignsOK /\ LogOK /\ RootChangeIsAnnounced /\ id \in Nat \ {0}
  BY LenProperties DEF AnnouncedInv, LogOK, TypeOK
<1>2. scheduled[id] \in ScheduledExecution
  BY <1>1, ElementOfSeq DEF TypeOK
<1>3. /\ scheduled' = [scheduled EXCEPT ![id] = new]
      /\ IsPending(scheduled[id]) /\ now >= scheduled[id].executableAt
      /\ UNCHANGED <<root, reigns, now>> /\ HelperCall(scheduled[id].data)
      /\ announcement' = IF scheduled[id].data.fn = "setPendingRoot" THEN id ELSE announcement
  BY DEF Execute, CanExecute
<1>4. PICK e : e = new
  OBVIOUS
<1>5. PICK data : data = scheduled[id].data
  OBVIOUS
<1>6. e \in ScheduledExecution /\ data \in Calls
  BY <1>1, <1>2, <1>4, <1>5 DEF ScheduledExecution
<1>7. /\ e.data = data /\ e.scheduledAt = scheduled[id].scheduledAt
      /\ e.scheduledBy = scheduled[id].scheduledBy /\ e.executableAt = scheduled[id].executableAt
      /\ e.executed /\ ~e.canceled /\ e.executedAt = now
  BY <1>2, <1>3, <1>4, <1>5 DEF ScheduledExecution, IsPending
<1>8. /\ WellAnnounced(e)'
      /\ data.fn = "setPendingRoot" => /\ WasRoot(e.scheduledBy, e.scheduledAt)'
                                       /\ e.scheduledAt + RootTransferDelay <= e.executedAt
  BY <1>1, <1>3, <1>5, <1>7 DEF WellAnnounced, WasRoot
<1>9. scheduled' = [scheduled EXCEPT ![id] = e]
  BY <1>3, <1>4
<1> HIDE DEF new
<1>10. /\ Len(scheduled') = Len(scheduled)
       /\ scheduled'[id] = e
       /\ LogKept
       /\ \A i \in 1 .. Len(scheduled') :
            \/ i \in 1 .. Len(scheduled) /\ scheduled'[i] = scheduled[i]
            \/ WellAnnounced(scheduled[i])'
  BY <1>3, <1>6, <1>8, <1>9, SettledAnnouncement
<1>11. now <= now'
  BY <1>1, <1>3
<1>12. CASE data.fn # "setPendingRoot" /\ UNCHANGED pendingRoot
  <2>1. RootsStay
    BY <1>3, <1>5, <1>12 DEF RootsStay, history
  <2> QED
    BY <1>10, <1>11, <2>1, QuietAnnouncement
<1>13. CASE data.fn = "setPendingRoot" /\ SetPendingRoot(data.account)
  <2>1. data = [fn |-> "setPendingRoot", account |-> data.account]
    BY <1>6, <1>13 DEF Calls, SetPendingRootCalls, SetDelayCalls, PermissionCalls, PerformCalls,
                       DelayKinds
  <2>2. pendingRoot' = data.account /\ announcement' = id
    BY <1>3, <1>5, <1>13 DEF SetPendingRoot
  <2>3. RootsKept
    BY <1>3 DEF RootsKept, WasRoot
  <2>4. ReignsOK'
    BY <1>1, <1>3, <2>2 DEF ReignsOK
  <2>5. LogOK'
    BY <1>1, <1>10, <1>11, <2>3, LogStays
  <2>6. ClaimsOK /\ (TypeOK' /\ ReignsOK' => ClaimsOK')
    BY <1>1, ClaimsAre, PTL
  <2>7. ClaimsOK'
    BY <2>4, <2>6
  <2>8. Len(reigns) \in Nat /\ reigns \in Seq(Reign)
    BY <1>1, LenProperties DEF ReignsOK
  <2>9. Len(Claims) >= Len(reigns) /\ Len(Claims) \in Nat
    BY <2>6, <2>8 DEF ClaimsOK
  <2>10. ASSUME NEW k \in 2 .. Len(reigns)
         PROVE  /\ Claims'[k] = reigns[k] /\ reigns[k].announcement # id
                /\ ByConstructor(k, Claims'[k]) \/ Announced(Claims[k])'
                /\ \A j \in 2 .. k - 1 : Claims'[j].announcement # Claims'[k].announcement
    <3>1. k \in 1 .. Len(reigns) /\ k \in 2 .. Len(Claims) /\ \A j \in 2 .. k - 1 : j \in 1 .. Len(reigns)
      BY <2>8, <2>9
    <3>2. Claims[k] = reigns[k] /\ Claims'[k] = reigns[k]
      BY <1>3, <2>6, <2>7, <3>1 DEF ClaimsOK
    <3>3. \A j \in 2 .. k - 1 : Claims'[j] = Claims[j]
      BY <1>3, <2>6, <2>7, <3>1 DEF ClaimsOK
    <3>4. /\ ByConstructor(k, Claims[k]) \/ Announced(Claims[k])
          /\ \A j \in 2 .. k - 1 : Claims[j].announcement # Claims[k].announcement
      BY <1>1, <3>1 DEF RootChangeIsAnnounced
    <3>5. PICK reign : reign = reigns[k]
      OBVIOUS
    <3>6. reign \in Reign /\ reign.since <= now
      BY <1>1, <2>8, <3>1, <3>5, ElementOfSeq DEF ReignsOK
    <3>7. reign.announcement # id
      BY <1>1, <1>3, <3>2, <3>4, <3>5 DEF ByConstructor, Announced, IsPending
    <3>8. ByConstructor(k, reign) \/ Announced(reign)'
      <4>1. reign.since <= reign.since
        BY <3>6 DEF Reign
      <4>2. Announced(reign) => Announced(reign)'
        BY <1>1, <1>10, <2>3, <3>6, <4>1, AnnouncedStays
      <4> QED
        BY <3>2, <3>4, <3>5, <4>2
    <3>9. Announced(reign)' => Announced(Claims[k])'
      BY <3>2, <3>5 DEF Announced
    <3> QED
      BY <3>2, <3>3, <3>4, <3>5, <3>7, <3>8, <3>9
  <2>11. RootChangeIsAnnounced'
    <3>1. root' = reigns'[Len(reigns')].root
      BY <1>1, <1>3 DEF RootChangeIsAnnounced
    <3>2. CASE pendingRoot' = NoAccount
      <4>1. Len(Claims') = Len(reigns)
        BY <1>3, <2>7, <3>2 DEF ClaimsOK
      <4> QED
        BY <2>10, <3>1, <4>1 DEF RootChangeIsAnnounced
    <3>3. CASE pendingRoot' # NoAccount
      <4>1. /\ Len(Claims') = Len(reigns) + 1
            /\ Claims'[Len(reigns) + 1] = [root |-> data.account, since |-> now, announcement |-> id]
        BY <1>3, <2>2, <2>7, <3>3 DEF ClaimsOK
      <4>2. Announced(Claims[Len(reigns) + 1])'
        <5>1. /\ Claims'[Len(reigns) + 1].root = data.account
              /\ Claims'[Len(reigns) + 1].since = now /\ Claims'[Len(reigns) + 1].announcement = id
          BY <4>1
        <5>2. scheduled'[id] = e /\ id \in 1 .. Len(scheduled') /\ e.executedAt <= now
          BY <1>1, <1>7, <1>10
        <5> QED
          BY <1>3, <1>7, <1>8, <1>13, <2>1, <5>1, <5>2 DEF Announced
      <4>3. \A j \in 2 .. Len(reigns) : Claims'[j].announcement # Claims'[Len(reigns) + 1].announcement
        BY <2>10, <4>1
      <4>4. \A k \in 2 .. Len(Claims') : k \in 2 .. Len(reigns) \/ k = Len(reigns) + 1
        BY <2>8, <4>1
      <4>5. \A k \in 2 .. Len(Claims') :
               /\ ByConstructor(k, Claims'[k]) \/ Announced(Claims[k])'
               /\ \A j \in 2 .. k - 1 : Claims'[j].announcement # Claims'[k].announcement
        <5>1. ASSUME NEW k \in 2 .. Len(reigns)
              PROVE  /\ ByConstructor(k, Claims'[k]) \/ Announced(Claims[k])'
                     /\ \A j \in 2 .. k - 1 : Claims'[j].announcement # Claims'[k].announcement
          BY <2>10
        <5>2. ASSUME NEW k, k = Len(reigns) + 1
              PROVE  /\ ByConstructor(k, Claims'[k]) \/ Announced(Claims[k])'
                     /\ \A j \in 2 .. k - 1 : Claims'[j].announcement # Claims'[k].announcement
          <6>1. Announced(Claims[k])'
            BY <1>3, <4>2, <5>2 DEF Announced
          <6>2. k - 1 = Len(reigns)
            BY <2>8, <5>2
          <6> QED
            BY <4>3, <5>2, <6>1, <6>2
        <5> QED
          BY <4>4, <5>1, <5>2
      <4> QED
        BY <3>1, <4>5 DEF RootChangeIsAnnounced, ByConstructor
    <3> QED
      BY <3>2, <3>3
  <2> QED
    BY <2>4, <2>5, <2>11 DEF AnnouncedInv
<1>14. \/ data.fn # "setPendingRoot" /\ UNCHANGED pendingRoot
       \/ data.fn = "setPendingRoot" /\ SetPendingRoot(data.account)
  BY <1>3, <1>5 DEF HelperCall, SetDelay, GrantPermission, RevokePermission, TakePermission, Perform, DelayKinds
<1> QED
  BY <1>12, <1>13, <1>14

(* Who claims was the pending root: the claims stay as they are.            *)
LEMMA ClaimAnnouncement ==
    ASSUME AnnouncedInv, TypeOK', NEW caller \in Accounts, ClaimRoot(caller)
    PROVE  AnnouncedInv'
<1>1. TypeOK /\ ReignsOK /\ LogOK /\ RootChangeIsAnnounced
  BY DEF AnnouncedInv
<1>2. /\ caller = pendingRoot /\ root' = caller /\ pendingRoot' = NoAccount
      /\ UNCHANGED <<now, scheduled, announcement>>
      /\ pendingRoot # NoAccount
  BY AddressAssumption DEF ClaimRoot, BeginReign
<1>3. PICK next : next = [root |-> caller, since |-> now, announcement |-> announcement]
  OBVIOUS
<1>4. reigns' = Append(reigns, next)
  BY <1>3 DEF ClaimRoot, BeginReign
<1>5. next \in Reign /\ now \in Nat /\ Len(reigns) \in Nat /\ reigns \in Seq(Reign)
  BY <1>1, <1>3, LenProperties DEF TypeOK, ReignsOK, Reign
<1>6. /\ reigns' \in Seq(Reign) /\ Len(reigns') = Len(reigns) + 1
      /\ \A k \in 1 .. Len(reigns) : reigns'[k] = reigns[k]
      /\ reigns'[Len(reigns) + 1] = next
  BY <1>4, <1>5, AppendProperties
<1>7. ReignsOK'
  <2>1. \A k \in 1 .. Len(reigns') : k \in 1 .. Len(reigns) \/ k = Len(reigns) + 1
    BY <1>5, <1>6
  <2>2. \A k \in 1 .. Len(reigns') : reigns'[k].since <= now
    BY <1>1, <1>3, <1>5, <1>6, <2>1 DEF ReignsOK
  <2> QED
    BY <1>1, <1>2, <1>5, <1>6, <2>2 DEF ReignsOK
<1>8. RootsKept
  <2>1. ASSUME NEW x, NEW t, t <= now, WasRoot(x, t)
        PROVE  WasRoot(x, t)'
    <3>1. PICK k \in 1 .. Len(reigns) : /\ reigns[k].root = x /\ reigns[k].since <= t
                                        /\ k < Len(reigns) => t <= reigns[k + 1].since
      BY <2>1 DEF WasRoot
    <3>2. k \in 1 .. Len(reigns') /\ reigns'[k] = reigns[k]
      BY <1>5, <1>6
    <3>3. t <= reigns'[k + 1].since
      <4>1. CASE k < Len(reigns)
        <5>1. k + 1 \in 1 .. Len(reigns)
          BY <1>5, <4>1
        <5> QED
          BY <1>6, <3>1, <4>1, <5>1
      <4>2. CASE ~(k < Len(reigns))
        <5>1. k = Len(reigns)
          BY <1>5, <4>2
        <5> QED
          BY <1>3, <1>6, <2>1, <5>1
      <4> QED
        BY <4>1, <4>2
    <3> QED
      BY <3>1, <3>2, <3>3 DEF WasRoot
  <2> QED
    BY <2>1 DEF RootsKept
<1>9. LogKept /\ now <= now'
  <2>1. Len(scheduled) \in Nat
    BY <1>1, LenProperties DEF TypeOK
  <2> QED
    BY <1>2, <1>5, <2>1 DEF LogKept
<1>10. LogOK'
  BY <1>1, <1>2, <1>8, <1>9, LogStays
<1>11. ClaimsKept
  <2>1. Claims = Append(reigns, next)
    BY <1>2, <1>3 DEF Claims
  <2>2. Claims' = reigns'
    BY <1>2 DEF Claims
  <2>3. Claims' = Claims
    BY <1>4, <2>1, <2>2
  <2>4. \A k \in 1 .. Len(Claims) : Claims[k].since \in Nat
    BY <1>6, <2>2, <2>3, ReignTimes DEF ReignsOK
  <2> QED
    BY <2>3, <2>4 DEF ClaimsKept
<1>12. root' = reigns'[Len(reigns')].root
  BY <1>2, <1>3, <1>6
<1>13. RootChangeIsAnnounced'
  BY <1>7, <1>8, <1>9, <1>11, <1>12, HonestStays
<1> QED
  BY <1>7, <1>10, <1>13 DEF AnnouncedInv

(* At deployment nothing is scheduled, and only the constructor's nextRoot  *)
(* may claim.                                                               *)
LEMMA InitAnnouncement == Init => AnnouncedInv
<1> SUFFICES ASSUME Init
             PROVE  AnnouncedInv
  OBVIOUS
<1>1. TypeOK /\ Len(scheduled) = 0
  BY InitType, EmptySeq DEF Init
<1>2. PICK first : first = [root |-> InitialRoot, since |-> 0, announcement |-> 0]
  OBVIOUS
<1>3. first \in Reign /\ first.root = InitialRoot /\ first.since = 0
  BY <1>2, AddressAssumption DEF Reign
<1>4. reigns = <<first>> /\ announcement = 0 /\ root = InitialRoot /\ pendingRoot = NextRoot /\ now = 0
  BY <1>2 DEF Init, HistoryInit
<1>5. reigns \in Seq(Reign) /\ Len(reigns) = 1 /\ reigns[1] = first
  BY <1>3, <1>4
<1>6. ReignsOK
  BY <1>3, <1>4, <1>5 DEF ReignsOK
<1>7. LogOK
  BY <1>1 DEF LogOK
<1>8. ClaimsOK
  BY <1>1, <1>6, ClaimsAre
<1>9. \A k \in 2 .. Len(Claims) : k = 2 /\ ByConstructor(k, Claims[k])
  BY <1>4, <1>5, <1>8 DEF ClaimsOK, ByConstructor
<1> QED
  BY <1>1, <1>3, <1>4, <1>5, <1>6, <1>7, <1>9 DEF AnnouncedInv, RootChangeIsAnnounced

(* Steps aside of roots and executions.                                     *)
Aside == RootsStay /\ UNCHANGED scheduled /\ now <= now'

(* Every step keeps the root announced.                                     *)
LEMMA NextAnnouncement == AnnouncedInv /\ [Next]_vars => AnnouncedInv'
<1> SUFFICES ASSUME AnnouncedInv, [Next]_vars
             PROVE  AnnouncedInv'
  OBVIOUS
<1>1. TypeOK /\ TypeOK' /\ Len(scheduled) \in Nat
  BY StepType, LenProperties DEF AnnouncedInv, TypeOK
<1>2. ASSUME NEW caller \in Accounts, ClaimRoot(caller)
      PROVE  AnnouncedInv'
  BY <1>1, <1>2, ClaimAnnouncement
<1>3. ASSUME NEW caller \in Accounts, NEW id \in 1 .. Len(scheduled),
             Execute(caller, id) \/ Cancel(caller, id)
      PROVE  AnnouncedInv'
  BY <1>1, <1>3, ExecuteAnnouncement, CancelAnnouncement
<1>4. ASSUME NEW caller \in Accounts, NEW x \in ExecutorSets, NEW r \in RootInputs,
             ScheduleRootChange(caller, r, x)
      PROVE  AnnouncedInv'
  <2> DEFINE data == [fn |-> "setPendingRoot", account |-> r]
  <2>1. data \in Calls
    BY InputAssumption DEF Calls, SetPendingRootCalls
  <2>2. ScheduleWithDelay(caller, data, RootTransferDelay, x) /\ caller = root /\ RootsStay /\ UNCHANGED now
    BY <1>4 DEF ScheduleRootChange, IsRoot, RootsStay
  <2> HIDE DEF data
  <2> QED
    BY <1>1, <2>1, <2>2, ScheduledAnnouncement, DelayAssumption, InputAssumption
<1>5. ASSUME NEW caller \in Accounts, NEW x \in ExecutorSets, NEW d \in DelayInputs,
             ScheduleDelayChange(caller, d[1], d[2], d[3], x)
      PROVE  AnnouncedInv'
  <2> DEFINE data == [fn |-> d[1], actionId |-> d[2], delay |-> d[3]]
             wait == DelayChangeExecutionDelay(delay[d[1]][d[2]], d[3])
  <2>1. d[1] \in DelayKinds /\ d[2] \in ActionIds /\ d[3] \in Nat
    BY InputAssumption
  <2>2. data \in Calls /\ data.fn # "setPendingRoot"
    BY <2>1 DEF Calls, SetDelayCalls, DelayKinds
  <2>3. delay[d[1]][d[2]] \in Nat
    BY <1>1, <2>1 DEF TypeOK
  <2>4. wait \in Nat
    BY <2>1, <2>3, DelayAssumption DEF DelayChangeExecutionDelay
  <2>5. ScheduleWithDelay(caller, data, wait, x) /\ RootsStay /\ UNCHANGED now
    BY <1>5 DEF ScheduleDelayChange, RootsStay
  <2> HIDE DEF data, wait
  <2> QED
    BY <1>1, <2>2, <2>4, <2>5, ScheduledAnnouncement, InputAssumption
<1>6. ASSUME NEW caller \in Accounts, NEW x \in ExecutorSets, NEW g \in GrantInputs,
             \/ ScheduleGrantPermission(caller, g[1], g[2], g[3], x)
             \/ ScheduleRevokePermission(caller, g[1], g[2], g[3], x)
      PROVE  AnnouncedInv'
  <2> DEFINE data(fn) == [fn |-> fn, actionId |-> g[1], account |-> g[2], where |-> g[3]]
  <2>1. g[1] \in ActionIds /\ g[2] \in Holders /\ g[3] \in Wheres
    BY InputAssumption
  <2>2. \A fn \in {"grantPermission", "revokePermission"} :
           data(fn) \in Calls /\ data(fn).fn # "setPendingRoot"
    BY <2>1 DEF Calls, PermissionCalls
  <2>3. delay["setGrantDelay"][g[1]] \in Nat /\ delay["setRevokeDelay"][g[1]] \in Nat
    BY <1>1, <2>1 DEF TypeOK, DelayKinds
  <2>4. /\ RootsStay /\ UNCHANGED now
        /\ \/ ScheduleWithDelay(caller, data("grantPermission"), delay["setGrantDelay"][g[1]], x)
           \/ ScheduleWithDelay(caller, data("revokePermission"), delay["setRevokeDelay"][g[1]], x)
    BY <1>6 DEF ScheduleGrantPermission, ScheduleRevokePermission, RootsStay
  <2> HIDE DEF data
  <2> QED
    BY <1>1, <2>2, <2>3, <2>4, ScheduledAnnouncement, InputAssumption
<1>7. ASSUME NEW caller \in Accounts, NEW x \in ExecutorSets,
             NEW a \in ActionIds, NEW t \in Targets, Schedule(caller, a, t, x)
      PROVE  AnnouncedInv'
  <2> DEFINE data == [fn |-> "perform", actionId |-> a, where |-> t]
  <2>1. data \in Calls /\ data.fn # "setPendingRoot"
    BY DEF Calls, PerformCalls
  <2>2. delay["setDelay"][a] \in Nat
    BY <1>1 DEF TypeOK, DelayKinds
  <2>3. ScheduleWithDelay(caller, data, delay["setDelay"][a], x) /\ RootsStay /\ UNCHANGED now
    BY <1>7 DEF Schedule, RootsStay
  <2> HIDE DEF data
  <2> QED
    BY <1>1, <2>1, <2>2, <2>3, ScheduledAnnouncement, InputAssumption
<1>8. ASSUME Aside
      PROVE  AnnouncedInv'
  BY <1>1, <1>8, QuietAnnouncement DEF Aside, LogKept
<1>9. ASSUME \/ Tick \/ UNCHANGED vars
             \/ \E caller \in Accounts :
                 \/ \E g \in GrantInputs :
                     \/ GrantDirectly(caller, g[1], g[2], g[3])
                     \/ RevokeDirectly(caller, g[1], g[2], g[3])
                     \/ RenouncePermission(caller, g[1], g[3])
                     \/ AddGranter(caller, g[1], g[2], g[3])
                     \/ RemoveGranter(caller, g[1], g[2], g[3])
                 \/ \E r \in RevokerInputs :
                     AddRevoker(caller, r[1], r[2]) \/ RemoveRevoker(caller, r[1], r[2])
                 \/ \E c \in CancelerInputs :
                     AddCanceler(caller, c[1], c[2]) \/ RemoveCanceler(caller, c[1], c[2])
      PROVE  AnnouncedInv'
  <2>1. Aside
    <3>0. now \in Nat
      BY <1>1 DEF TypeOK
    <3>1. ASSUME NEW caller, NEW a, NEW account, NEW where,
                 \/ GrantDirectly(caller, a, account, where)
                 \/ RevokeDirectly(caller, a, account, where)
                 \/ RenouncePermission(caller, a, where)
          PROVE  Aside
      BY <3>0, <3>1 DEF GrantDirectly, GrantPermission, RevokeDirectly, RevokePermission, RenouncePermission,
                        TakePermission, Aside, RootsStay
    <3>2. ASSUME NEW caller, NEW a, NEW account, NEW where,
                 AddGranter(caller, a, account, where) \/ RemoveGranter(caller, a, account, where)
          PROVE  Aside
      BY <3>0, <3>2 DEF AddGranter, RemoveGranter, Aside, RootsStay
    <3>3. ASSUME NEW caller, NEW account, NEW where,
                 AddRevoker(caller, account, where) \/ RemoveRevoker(caller, account, where)
          PROVE  Aside
      BY <3>0, <3>3 DEF AddRevoker, RemoveRevoker, Aside, RootsStay
    <3>4. ASSUME NEW caller, NEW id, NEW account,
                 AddCanceler(caller, id, account) \/ RemoveCanceler(caller, id, account)
          PROVE  Aside
      BY <3>0, <3>4 DEF AddCanceler, RemoveCanceler, Aside, RootsStay
    <3>5. CASE Tick \/ UNCHANGED vars
      BY <3>0, <3>5 DEF Tick, vars, Aside, RootsStay
    <3> QED
      BY <1>9, <3>1, <3>2, <3>3, <3>4, <3>5
  <2> QED
    BY <1>8, <2>1
<1> QED
  BY <1>2, <1>3, <1>4, <1>5, <1>6, <1>7, <1>9 DEF Next

(* For any accounts and delays and any number of transfers: whoever claims  *)
(* the root was announced for the root transfer delay, in an execution that *)
(* the root of its time scheduled and that no claim before has used up.     *)
(* Only the constructor's nextRoot may follow the initial root without.     *)
THEOREM RootIsAnnounced == Spec => []RootChangeIsAnnounced
<1>1. AnnouncedInv => RootChangeIsAnnounced
  BY DEF AnnouncedInv
<1> QED
  BY <1>1, InitAnnouncement, NextAnnouncement, PTL DEF Spec

---------------------------------------------------------------------------
(* The Vault's client.                                                      *)

\* The permissions that the contracts ask for when the admin sends a call
Needs(call) ==
    CASE call.do = "collector" -> {<<SetterOf(call.type), Admin, FeesCollector>>}
      [] call.do = "provider" -> {<<SetFeeType, Admin, FeesProvider>>,
                                  <<SetSwapFee, FeesProvider, FeesCollector>>,
                                  <<SetFlashLoanFee, FeesProvider, FeesCollector>>}
      [] call.do = "vault" -> {<<SetAuthorizer, Admin, VaultAddress>>}

IsCall(step) ==
    \/ step.do = "collector" /\ step.type \in {"SWAP", "FLASH_LOAN"}
    \/ step.do = "provider"
    \/ step.do = "vault"

Gives(step, need) ==
    /\ step.do = "grant" /\ step.actionId = need[1] /\ step.to = need[2]
    /\ step.where \in {need[3], Everywhere}

Has(need) == HasPermission(need[1], need[2], need[3])

\* What a call needs is there or is granted by a step before it
IsPrepared(steps) ==
    \A i \in 1 .. Len(steps) :
        steps[i].do # "grant" =>
          /\ IsCall(steps[i])
          /\ \A need \in Needs(steps[i]) : Has(need) \/ \E j \in 1 .. i - 1 : Gives(steps[j], need)

NoDelays == \A a \in ActionIds : delay["setDelay"][a] = 0

Prepared == NoDelays /\ (\E S : todo \in Seq(S)) /\ IsPrepared(todo)

\* The others take no permission back and set no delay
Kindly ==
    /\ Next
    /\ granted \subseteq granted' /\ UNCHANGED delay
    /\ UNCHANGED <<awaited, vaultClientVars>>

(* A call that has what it needs is allowed.                                *)
LEMMA NeedsSuffice ==
  ASSUME NoDelays, ownAuthorizer, NEW call, IsCall(call), call.sender = Admin, \A need \in Needs(call) : Has(need)
  PROVE  IsAllowed(call)
<1>1. SetAuthorizer \in ActionIds /\ SetSwapFee \in ActionIds /\ SetFlashLoanFee \in ActionIds /\ SetFeeType \in ActionIds
  BY FeesAssumption, AddressAssumption
<1>2. ASSUME NEW a \in ActionIds, NEW account, NEW where, Has(<<a, account, where>>)
      PROVE  Allows(a, account, where)
  BY <1>2 DEF Allows, CanPerform, NoDelays, Has
<1>3. CASE call.do = "collector"
  <2>1. Has(<<SetterOf(call.type), Admin, FeesCollector>>) /\ SetterOf(call.type) \in ActionIds
    BY <1>1, <1>3 DEF Needs, SetterOf
  <2> QED
    BY <1>2, <1>3, <2>1 DEF IsAllowed, CollectorAllows
<1>4. CASE call.do = "provider"
  <2>1. /\ Has(<<SetFeeType, Admin, FeesProvider>>) /\ Has(<<SetSwapFee, FeesProvider, FeesCollector>>)
        /\ Has(<<SetFlashLoanFee, FeesProvider, FeesCollector>>)
    BY <1>4 DEF Needs
  <2>2. /\ Allows(SetFeeType, Admin, FeesProvider) /\ Allows(SetSwapFee, FeesProvider, FeesCollector)
        /\ Allows(SetFlashLoanFee, FeesProvider, FeesCollector)
    BY <1>1, <1>2, <2>1
  <2> QED
    BY <1>4, <2>2 DEF IsAllowed, ProviderAllows, SetterOf
<1>5. CASE call.do = "vault"
  <2>1. Has(<<SetAuthorizer, Admin, VaultAddress>>)
    BY <1>5 DEF Needs
  <2>2. Allows(SetAuthorizer, Admin, VaultAddress)
    BY <1>1, <1>2, <2>1
  <2> QED
    BY <1>5, <2>2 DEF IsAllowed, VaultAllows
<1> QED
  BY <1>3, <1>4, <1>5 DEF IsCall

(* The invariant implies the property.                                      *)
LEMMA PreparedSuffices ==
  ASSUME Prepared
  PROVE  GrantsSuffice
<1> SUFFICES ASSUME todo # <<>>, Head(todo).do # "grant", Head(todo).sender = Admin, ownAuthorizer
             PROVE  IsAllowed(Head(todo))
  BY DEF GrantsSuffice
<1>1. PICK S : todo \in Seq(S)
  BY DEF Prepared
<1>2. Head(todo) = todo[1] /\ 1 \in 1 .. Len(todo)
  BY <1>1
<1>3. IsCall(Head(todo)) /\ \A need \in Needs(Head(todo)) : Has(need) \/ \E j \in 1 .. 1 - 1 : Gives(todo[j], need)
  BY <1>2 DEF Prepared, IsPrepared
<1>4. 1 .. 1 - 1 = {}
  OBVIOUS
<1> QED
  BY <1>3, <1>4, NeedsSuffice DEF Prepared

(* Steps after which more is granted and no delay is set keep what is       *)
(* prepared.                                                                *)
LEMMA PreparedStays ==
  ASSUME Prepared, granted \subseteq granted', UNCHANGED delay, UNCHANGED todo
  PROVE  Prepared'
<1>1. \A need : Has(need) => Has(need)'
  BY DEF Has, HasPermission
<1> QED
  BY <1>1 DEF Prepared, NoDelays, IsPrepared

(* So does the next step of the method, when it grants what it says.        *)
LEMMA PreparedAdvances ==
  ASSUME Prepared, granted \subseteq granted', UNCHANGED delay, todo # <<>>, todo' = Tail(todo),
         \A need : Gives(Head(todo), need) => Has(need)'
  PROVE  Prepared'
<1>1. PICK S : todo \in Seq(S)
  BY DEF Prepared
<1>2. todo' \in Seq(S) /\ Len(todo) \in Nat /\ Len(todo') = Len(todo) - 1 /\ Head(todo) = todo[1]
  BY <1>1
<1>3. \A i \in 1 .. Len(todo') : todo'[i] = todo[i + 1] /\ i + 1 \in 1 .. Len(todo)
  BY <1>1, <1>2
<1>4. \A need : Has(need) => Has(need)'
  BY DEF Has, HasPermission
<1>5. ASSUME NEW i \in 1 .. Len(todo'), todo'[i].do # "grant"
      PROVE  /\ IsCall(todo'[i])
             /\ \A need \in Needs(todo'[i]) : Has(need)' \/ \E j \in 1 .. i - 1 : Gives(todo'[j], need)
  <2> DEFINE step == todo'[i]
  <2>1. step = todo[i + 1] /\ i + 1 \in 1 .. Len(todo)
    BY <1>3
  <2>2. IsCall(step) /\ \A need \in Needs(step) : Has(need) \/ \E j \in 1 .. (i + 1) - 1 : Gives(todo[j], need)
    BY <1>5, <2>1 DEF Prepared, IsPrepared
  <2> HIDE DEF step
  <2>3. ASSUME NEW need \in Needs(step)
        PROVE  Has(need)' \/ \E j \in 1 .. i - 1 : Gives(todo'[j], need)
    <3>1. CASE Has(need)
      BY <1>4, <3>1
    <3>2. ASSUME NEW j \in 1 .. (i + 1) - 1, Gives(todo[j], need)
          PROVE  Has(need)' \/ \E k \in 1 .. i - 1 : Gives(todo'[k], need)
      <4>1. CASE j = 1
        BY <1>2, <3>2, <4>1
      <4>2. CASE j # 1
        <5>1. j - 1 \in 1 .. i - 1 /\ j - 1 \in 1 .. Len(todo') /\ (j - 1) + 1 = j
          BY <1>2, <4>2
        <5>2. todo'[j - 1] = todo[j]
          BY <1>3, <5>1
        <5> QED
          BY <3>2, <5>1, <5>2
      <4> QED
        BY <4>1, <4>2
    <3> QED
      BY <2>2, <3>1, <3>2
  <2> QED
    BY <2>2, <2>3 DEF step
<1>6. IsPrepared(todo)'
  BY <1>5 DEF IsPrepared
<1>7. NoDelays'
  BY DEF Prepared, NoDelays
<1> QED
  BY <1>2, <1>6, <1>7 DEF Prepared

(* Every method prepares its call.                                          *)
LEMMA PreparedBegins ==
  ASSUME Prepared, NEW steps, NEW S, steps \in Seq(S), IsPrepared(steps), Begin(steps)
  PROVE  Prepared'
<1>1. UNCHANGED granted /\ UNCHANGED delay /\ todo' = steps
  BY DEF Begin, vars
<1>2. \A need : Has(need)' <=> Has(need)
  BY <1>1 DEF Has, HasPermission
<1>3. IsPrepared(steps)'
  BY <1>2 DEF IsPrepared
<1> QED
  BY <1>1, <1>3 DEF Prepared, NoDelays, IsPrepared

(* A grant alone needs nothing.                                             *)
LEMMA OneGrant ==
  ASSUME NEW g, g.do = "grant"
  PROVE  IsPrepared(<<g>>)
<1>1. \A i \in 1 .. Len(<<g>>) : <<g>>[i] = g
  OBVIOUS
<1> QED
  BY <1>1 DEF IsPrepared

(* A grant prepares the call that needs what it gives.                      *)
LEMMA GrantThenCall ==
  ASSUME NEW g, g.do = "grant", NEW c, IsCall(c), \A need \in Needs(c) : Gives(g, need)
  PROVE  IsPrepared(<<g, c>>)
<1> DEFINE s == <<g, c>>
<1>1. Len(s) = 2 /\ s[1] = g /\ s[2] = c
  OBVIOUS
<1> HIDE DEF s
<1>2. ASSUME NEW i \in 1 .. Len(s), s[i].do # "grant"
      PROVE  IsCall(s[i]) /\ \A need \in Needs(s[i]) : \E j \in 1 .. i - 1 : Gives(s[j], need)
  <2>1. i = 2 /\ 1 \in 1 .. i - 1
    BY <1>1, <1>2
  <2> QED
    BY <1>1, <2>1
<1> QED
  BY <1>2 DEF IsPrepared, s

(* So do three.                                                             *)
LEMMA GrantsThenCall ==
  ASSUME NEW g, g.do = "grant", NEW h, h.do = "grant", NEW k, k.do = "grant", NEW c, IsCall(c),
         \A need \in Needs(c) : Gives(g, need) \/ Gives(h, need) \/ Gives(k, need)
  PROVE  IsPrepared(<<g, h, k, c>>)
<1> DEFINE s == <<g, h, k, c>>
<1>1. Len(s) = 4 /\ s[1] = g /\ s[2] = h /\ s[3] = k /\ s[4] = c
  OBVIOUS
<1> HIDE DEF s
<1>2. ASSUME NEW i \in 1 .. Len(s), s[i].do # "grant"
      PROVE  IsCall(s[i]) /\ \A need \in Needs(s[i]) : \E j \in 1 .. i - 1 : Gives(s[j], need)
  <2>1. i = 4 /\ 1 \in 1 .. i - 1 /\ 2 \in 1 .. i - 1 /\ 3 \in 1 .. i - 1
    <3>1. i = 1 \/ i = 2 \/ i = 3 \/ i = 4
      BY <1>1
    <3> QED
      BY <1>1, <1>2, <3>1
  <2> QED
    BY <1>1, <2>1
<1> QED
  BY <1>2 DEF IsPrepared, s

(* Every step of the client keeps what is prepared.                         *)
LEMMA ClientPrepares ==
  ASSUME Prepared, VaultClientNext
  PROVE  Prepared'
<1>1. ASSUME SkipGrant
      PROVE  Prepared'
  <2>1. \A need : Gives(Head(todo), need) => Has(need)
    BY <1>1 DEF SkipGrant, IsSkipped, HoldsGlobally, Gives, Has, HasPermission
  <2>2. granted' = granted /\ delay' = delay
    BY <1>1 DEF SkipGrant, vars
  <2>3. \A need : Gives(Head(todo), need) => Has(need)'
    <3>1. \A need : Has(need) => Has(need)'
      BY <2>2 DEF Has, HasPermission
    <3> QED
      BY <2>1, <3>1
  <2> QED
    BY <1>1, <2>2, <2>3, PreparedAdvances DEF SkipGrant
<1>2. ASSUME SendGrant
      PROVE  Prepared'
  <2>1. granted' = granted \cup {<<Head(todo).actionId, Head(todo).to, Head(todo).where>>} /\ UNCHANGED delay
    BY <1>2 DEF SendGrant, GrantDirectly, GrantPermission
  <2>2. ASSUME NEW need, Gives(Head(todo), need)
        PROVE  Has(need)'
    <3> DEFINE step == Head(todo)
    <3>1. <<step.actionId, step.to, step.where>> \in granted'
      BY <2>1
    <3>2. step.actionId = need[1] /\ step.to = need[2] /\ (step.where = need[3] \/ step.where = Everywhere)
      BY <2>2 DEF Gives
    <3> HIDE DEF step
    <3> QED
      BY <3>1, <3>2 DEF Has, HasPermission
  <2> QED
    BY <1>2, <2>1, <2>2, PreparedAdvances DEF SendGrant
<1>3. ASSUME todo' = <<>>, UNCHANGED granted, UNCHANGED delay
      PROVE  Prepared'
  <2>1. \A i \in 1 .. Len(todo') : FALSE
    BY <1>3
  <2>2. todo' \in Seq({})
    BY <1>3
  <2> QED
    BY <1>3, <2>1, <2>2 DEF Prepared, NoDelays, IsPrepared
<1>4. ASSUME SendCall \/ Throw
      PROVE  Prepared'
  BY <1>3, <1>4 DEF SendCall, Throw, vars
<1>5. ASSUME NEW from, NEW amount, WithdrawCollectedFees(from, amount)
      PROVE  Prepared'
  BY <1>5, PreparedStays DEF WithdrawCollectedFees, vars
<1>6. ASSUME NEW from, ClaimRootFrom(from), UNCHANGED <<awaited, vaultClientVars>>
      PROVE  Prepared'
  BY <1>6, PreparedStays DEF ClaimRootFrom, ClaimRoot, vaultClientVars
<1>7. ASSUME NEW own, SetAuthorizerTo(own)
      PROVE  Prepared'
  <2> DEFINE g == GrantGlobally(SetAuthorizer, Admin)
             c == Call("vault", "", own, Admin)
  <2>1. g.do = "grant" /\ IsCall(c) /\ \A need \in Needs(c) : Gives(g, need)
    BY DEF GrantGlobally, Grant, Call, IsCall, Needs, Gives
  <2>2. Begin(<<g, c>>)
    BY <1>7 DEF SetAuthorizerTo
  <2>3. <<g, c>> \in Seq({g, c})
    OBVIOUS
  <2> HIDE DEF g, c
  <2> QED
    BY <2>1, <2>2, <2>3, GrantThenCall, PreparedBegins
<1>8. ASSUME NEW type, NEW value, SetFeeTypePercentage(type, value)
      PROVE  Prepared'
  <2> DEFINE g == GrantIfNeeded(SetFeeType, Admin, FeesProvider)
             h == GrantIfNeeded(SetSwapFee, FeesProvider, FeesCollector)
             k == GrantIfNeeded(SetFlashLoanFee, FeesProvider, FeesCollector)
             c == Call("provider", type, value, Admin)
  <2>1. /\ g.do = "grant" /\ h.do = "grant" /\ k.do = "grant" /\ IsCall(c)
        /\ \A need \in Needs(c) : Gives(g, need) \/ Gives(h, need) \/ Gives(k, need)
    BY DEF GrantIfNeeded, Grant, Call, IsCall, Needs, Gives
  <2>2. Begin(<<g, h, k, c>>)
    BY <1>8 DEF SetFeeTypePercentage
  <2>3. <<g, h, k, c>> \in Seq({g, h, k, c})
    OBVIOUS
  <2> HIDE DEF g, h, k, c
  <2> QED
    BY <2>1, <2>2, <2>3, GrantsThenCall, PreparedBegins
<1>9. ASSUME NEW from, NEW value, SetSwapFeePercentage(from, value) \/ SetFlashLoanFeePercentage(from, value)
      PROVE  Prepared'
  <2>1. ASSUME NEW a, NEW type \in {"SWAP", "FLASH_LOAN"}, a = SetterOf(type),
               Begin(<<Grant("held globally", a, Admin, Everywhere),
                       Call("collector", type, value, SenderOf(from))>>)
        PROVE  Prepared'
    <3> DEFINE g == Grant("held globally", a, Admin, Everywhere)
               c == Call("collector", type, value, SenderOf(from))
    <3>1. g.do = "grant" /\ g.actionId = a /\ g.to = Admin /\ g.where = Everywhere
      BY DEF Grant
    <3>2. c.do = "collector" /\ c.type = type
      BY DEF Call
    <3>3. Begin(<<g, c>>)
      BY <2>1
    <3>4. <<g, c>> \in Seq({g, c})
      OBVIOUS
    <3> HIDE DEF g, c
    <3>5. IsCall(c)
      BY <3>2 DEF IsCall
    <3>6. Needs(c) = {<<a, Admin, FeesCollector>>}
      BY <2>1, <3>2 DEF Needs
    <3>7. \A need \in Needs(c) : Gives(g, need)
      BY <3>1, <3>6 DEF Gives
    <3> QED
      BY <3>1, <3>3, <3>4, <3>5, <3>7, GrantThenCall, PreparedBegins
  <2>2. SetterOf("SWAP") = SetSwapFee /\ SetterOf("FLASH_LOAN") = SetFlashLoanFee
    BY DEF SetterOf
  <2>3. CASE SetSwapFeePercentage(from, value)
    BY <2>1, <2>2, <2>3 DEF SetSwapFeePercentage
  <2>4. CASE SetFlashLoanFeePercentage(from, value)
    BY <2>1, <2>2, <2>4 DEF SetFlashLoanFeePercentage
  <2> QED
    BY <1>9, <2>3, <2>4
<1>10. ASSUME NEW a, NEW to, GrantPermissionGlobally(a, to) \/ GrantPermissionGloballyIfNeeded(a, to)
       PROVE  Prepared'
  <2>1. ASSUME NEW unless, Begin(<<Grant(unless, a, to, Everywhere)>>)
        PROVE  Prepared'
    <3> DEFINE g == Grant(unless, a, to, Everywhere)
    <3>1. g.do = "grant" /\ Begin(<<g>>) /\ <<g>> \in Seq({g})
      BY <2>1 DEF Grant
    <3> HIDE DEF g
    <3> QED
      BY <3>1, OneGrant, PreparedBegins
  <2> QED
    BY <1>10, <2>1 DEF GrantPermissionGlobally, GrantPermissionGloballyIfNeeded, GrantGlobally
<1> QED
  BY <1>1, <1>2, <1>4, <1>5, <1>6, <1>7, <1>8, <1>9, <1>10 DEF VaultClientNext

(* The permissions that a method of the Vault's client grants are those its *)
(* call is checked for, whatever others do with the authorizer and the      *)
(* clock between its transactions, as long as they take no permission back  *)
(* and set no delay (Vault.ts).                                             *)
THEOREM GrantsAlwaysSuffice ==
  /\ Init /\ ClientInit /\ VaultClientInit
  /\ [][VaultClientNext \/ Kindly]_<<vars, awaited, vaultClientVars>>
  => []GrantsSuffice
<1>1. Init /\ VaultClientInit => Prepared
  <2> SUFFICES ASSUME Init, VaultClientInit
               PROVE  Prepared
    OBVIOUS
  <2>1. todo \in Seq({}) /\ \A i \in 1 .. Len(todo) : FALSE
    BY DEF VaultClientInit
  <2>2. NoDelays
    BY DEF Init, NoDelays, DelayKinds
  <2> QED
    BY <2>1, <2>2 DEF Prepared, IsPrepared
<1>2. Prepared /\ [VaultClientNext \/ Kindly]_<<vars, awaited, vaultClientVars>> => Prepared'
  <2>1. Prepared /\ Kindly => Prepared'
    BY PreparedStays DEF Kindly, vaultClientVars
  <2>2. Prepared /\ UNCHANGED <<vars, awaited, vaultClientVars>> => Prepared'
    BY PreparedStays DEF vars, vaultClientVars
  <2> QED
    BY <2>1, <2>2, ClientPrepares
<1>3. Prepared => GrantsSuffice
  BY PreparedSuffices
<1> QED
  BY <1>1, <1>2, <1>3, PTL

---------------------------------------------------------------------------
(* Sums over sequences.                                                    *)

(* What is added up along a sequence is the sum over its indices.          *)
LEMMA SumOfSeqIs == ASSUME NEW s
                    PROVE  SumOfSeq(s) = SumOf(s, DOMAIN s)
BY DEF SumOfSeq, FoldFunction, FoldFunctionOnSet, SumOf, MapThenSumSet, MapThenFoldSet

(* A sum over one element more.                                            *)
LEMMA SumOfMore ==
  ASSUME NEW S, IsFiniteSet(S), NEW x, x \notin S, NEW f, f[x] \in Int, \A e \in S : f[e] \in Int
  PROVE  SumOf(f, S \cup {x}) = f[x] + SumOf(f, S)
<1> DEFINE R == S \cup {x}
           v == f[x]
           k == [e \in R |-> IF e \in S THEN f[e] ELSE 0]
<1>1. IsFiniteSet(R) /\ S \in SUBSET R /\ x \in R
  BY FS_AddElement
<1>2. \A e \in R : k[e] \in Int /\ f[e] = k[e] + (IF e = x THEN v ELSE 0)
  OBVIOUS
<1>3. IsPart(R, S, f, k)
  BY DEF IsPart
<1>4. v \in Int
  OBVIOUS
<1> HIDE DEF R, k, v
<1>5. SumOf(f, R) = SumOf(k, R) + v
  BY <1>1, <1>2, <1>4, SumOfChange
<1>6. SumOf(k, R) = SumOf(f, S)
  BY <1>1, <1>3, SumOverPart
<1>7. SumOf(f, S) \in Int
  BY SumOfInt
<1> QED
  BY <1>4, <1>5, <1>6, <1>7 DEF R, v

(* A sum up to one index more.                                             *)
LEMMA SumUpToNext ==
  ASSUME NEW n \in Nat, NEW f, \A i \in 1 .. n + 1 : f[i] \in Int
  PROVE  /\ SumOf(f, 1 .. n) \in Int
         /\ SumOf(f, 1 .. n + 1) = SumOf(f, 1 .. n) + f[n + 1]
<1> DEFINE A == 1 .. n
           B == 1 .. n + 1
           x == n + 1
<1>1. IsFiniteSet(A) /\ x \notin A /\ B = A \cup {x}
  BY FS_Interval
<1>2. f[x] \in Int /\ \A i \in A : f[i] \in Int
  OBVIOUS
<1> HIDE DEF A, B, x
<1>3. SumOf(f, A) \in Int
  BY <1>1, <1>2, SumOfInt
<1>4. SumOf(f, A \cup {x}) = f[x] + SumOf(f, A)
  BY <1>1, <1>2, SumOfMore
<1>5. SumOf(f, B) = SumOf(f, A) + f[x]
  BY <1>1, <1>2, <1>3, <1>4
<1> QED
  BY <1>3, <1>5 DEF A, B, x

(* The sum of a sequence that continues another one.                       *)
LEMMA SumOfConcat ==
  ASSUME NEW s \in Seq(Int), NEW t \in Seq(Int)
  PROVE  /\ SumOf(s, DOMAIN s) \in Int /\ SumOf(t, DOMAIN t) \in Int
         /\ SumOf(s \o t, DOMAIN (s \o t)) = SumOf(s, DOMAIN s) + SumOf(t, DOMAIN t)
<1> DEFINE n == Len(s)
           m == Len(t)
           f == s \o t
           T == {k \in 0 .. m : SumOf(f, 1 .. n + k) = SumOf(s, 1 .. n) + SumOf(t, 1 .. k)}
<1>1. /\ n \in Nat /\ m \in Nat /\ DOMAIN s = 1 .. n /\ DOMAIN t = 1 .. m
      /\ DOMAIN f = 1 .. n + m
      /\ \A i \in 1 .. n : f[i] = s[i] /\ s[i] \in Int
      /\ \A i \in 1 .. m : f[n + i] = t[i] /\ t[i] \in Int
      /\ \A i \in 1 .. n + m : f[i] \in Int
  <2>1. f \in Seq(Int) /\ Len(f) = n + m
    OBVIOUS
  <2> QED
    BY <2>1
<1> HIDE DEF f, n, m
<1>2. IsFiniteSet(1 .. n) /\ \A k \in Nat : IsFiniteSet(1 .. k)
  BY <1>1, FS_Interval
<1>3. SumOf(s, 1 .. n) \in Int
  BY <1>1, <1>2, SumOfInt
<1>4. 0 \in T
  <2>1. SumOf(f, 1 .. n) = SumOf(s, 1 .. n)
    BY <1>1, <1>2, SumEqual
  <2>2. SumOf(t, 1 .. 0) = 0
    <3>1. 1 .. 0 = {}
      OBVIOUS
    <3> QED
      BY <3>1, SumEmpty
  <2>3. n + 0 = n
    BY <1>1
  <2> QED
    BY <1>1, <1>3, <2>1, <2>2, <2>3
<1>5. ASSUME NEW k \in 0 .. m, k + 1 \in 0 .. m, k \in T
      PROVE  k + 1 \in T
  <2>1. k \in Nat /\ n + k \in Nat /\ n + (k + 1) = (n + k) + 1 /\ f[(n + k) + 1] = t[k + 1]
    BY <1>1, <1>5
  <2>2. SumOf(t, 1 .. k) \in Int /\ SumOf(t, 1 .. k + 1) = SumOf(t, 1 .. k) + t[k + 1]
    <3>1. \A i \in 1 .. k + 1 : t[i] \in Int
      BY <1>1, <1>5, <2>1
    <3> QED
      BY <2>1, <3>1, SumUpToNext
  <2>3. SumOf(f, 1 .. n + k) \in Int /\ SumOf(f, 1 .. (n + k) + 1) = SumOf(f, 1 .. n + k) + f[(n + k) + 1]
    <3> DEFINE j == n + k
    <3>1. j \in Nat /\ \A i \in 1 .. j + 1 : f[i] \in Int
      BY <1>1, <1>5, <2>1
    <3> HIDE DEF j
    <3>2. SumOf(f, 1 .. j) \in Int /\ SumOf(f, 1 .. j + 1) = SumOf(f, 1 .. j) + f[j + 1]
      BY <3>1, SumUpToNext
    <3> QED
      BY <3>2 DEF j
  <2>4. t[k + 1] \in Int /\ SumOf(f, 1 .. n + k) = SumOf(s, 1 .. n) + SumOf(t, 1 .. k)
    BY <1>1, <1>5
  <2> QED
    BY <1>3, <1>5, <2>1, <2>2, <2>3, <2>4
<1> HIDE DEF T
<1>6. m \in T
  <2>1. \A k \in 0 .. m : k + 1 \in 0 .. m /\ k \in T => k + 1 \in T
    BY <1>5
  <2>2. 0 .. m \subseteq T
    BY <1>1, <1>4, <2>1, UpTo
  <2> QED
    BY <1>1, <2>2
<1>7. SumOf(t, 1 .. m) \in Int
  BY <1>1, <1>2, SumOfInt
<1> QED
  BY <1>1, <1>3, <1>6, <1>7 DEF T, f

---------------------------------------------------------------------------
(* What transactions on the way will change.                               *)

Books == [Addresses -> [People -> Int]]

Transaction ==
    [do : {"deposit", "mint", "transfer", "burn", "approve"},
     address : Addresses, amount : Int, to : People, from : People]

\* the transaction, with what a deposit sends after it, changes x's balance by this
Effect(tx, a, x) ==
    (IF tx.address = a /\ tx.to = x /\ tx.do \in {"deposit", "mint", "transfer"} THEN tx.amount ELSE 0)
        - (IF tx.address = a /\ tx.from = x /\ tx.do \in {"transfer", "burn"} THEN tx.amount ELSE 0)

Effects(txs, a, x) == [i \in DOMAIN txs |-> Effect(txs[i], a, x)]
Coming(txs, a, x) == SumOf(Effects(txs, a, x), DOMAIN txs)

(* An effect is a number.                                                  *)
LEMMA EffectType ==
  ASSUME NEW tx \in Transaction, NEW a, NEW x
  PROVE  Effect(tx, a, x) \in Int
BY DEF Effect, Transaction

(* The effects of transactions are a sequence of numbers.                  *)
LEMMA EffectsType ==
  ASSUME NEW txs \in Seq(Transaction), NEW a, NEW x
  PROVE  Effects(txs, a, x) \in Seq(Int) /\ DOMAIN Effects(txs, a, x) = DOMAIN txs
<1>1. \A i \in 1 .. Len(txs) : Effect(txs[i], a, x) \in Int
  BY EffectType
<1>2. Len(txs) \in Nat /\ DOMAIN txs = 1 .. Len(txs)
  OBVIOUS
<1> DEFINE e == [i \in 1 .. Len(txs) |-> Effect(txs[i], a, x)]
<1>3. Effects(txs, a, x) = e
  BY <1>2 DEF Effects
<1>4. e \in Seq(Int)
  BY <1>1, <1>2, SeqDef
<1> QED
  BY <1>2, <1>3, <1>4

(* A sequence that continues another one, element by element.              *)
LEMMA ConcatIs ==
  ASSUME NEW S, NEW s \in Seq(S), NEW t \in Seq(S)
  PROVE  s \o t = [i \in 1 .. Len(s) + Len(t) |-> IF i <= Len(s) THEN s[i] ELSE t[i - Len(s)]]
<1> DEFINE n == Len(s)
           m == Len(t)
           f == [i \in 1 .. n + m |-> IF i <= n THEN s[i] ELSE t[i - n]]
           c == s \o t
<1>1. /\ n \in Nat /\ m \in Nat /\ \A i \in 1 .. n : s[i] \in S
      /\ \A i \in 1 .. m : t[i] \in S
  OBVIOUS
<1>2. c \in Seq(S) /\ Len(c) = n + m
  OBVIOUS
<1>3. \A i \in 1 .. n + m : c[i] = f[i]
  OBVIOUS
<1> HIDE DEF n, m, c
<1>4. f \in Seq(S) /\ Len(f) = n + m
  <2>1. \A i \in 1 .. n + m : f[i] \in S
    BY <1>1
  <2>2. n + m \in Nat
    BY <1>1
  <2> HIDE DEF f
  <2>3. f \in [1 .. n + m -> S]
    BY <2>1 DEF f
  <2> QED
    BY <2>2, <2>3
<1> HIDE DEF f
<1>5. c = f
  BY <1>2, <1>3, <1>4, SeqEqual
<1> QED
  BY <1>5 DEF c, f, n, m

(* What comes of two sequences of transactions, one after the other.       *)
LEMMA ComingConcat ==
  ASSUME NEW s \in Seq(Transaction), NEW t \in Seq(Transaction), NEW a, NEW x
  PROVE  /\ Coming(s, a, x) \in Int /\ Coming(t, a, x) \in Int
         /\ Coming(s \o t, a, x) = Coming(s, a, x) + Coming(t, a, x)
<1> DEFINE es == Effects(s, a, x)
           et == Effects(t, a, x)
<1>1. /\ es \in Seq(Int) /\ DOMAIN es = DOMAIN s /\ et \in Seq(Int) /\ DOMAIN et = DOMAIN t
      /\ s \o t \in Seq(Transaction)
  BY EffectsType
<1>2. Len(es) = Len(s) /\ Len(et) = Len(t)
  BY <1>1
<1>3. Effects(s \o t, a, x) = es \o et /\ DOMAIN (es \o et) = DOMAIN (s \o t)
  <2> DEFINE D == 1 .. Len(s) + Len(t)
             st == [i \in D |-> IF i <= Len(s) THEN s[i] ELSE t[i - Len(s)]]
             e == [i \in D |-> IF i <= Len(s) THEN es[i] ELSE et[i - Len(s)]]
  <2>1. s \o t = st
    BY ConcatIs
  <2>2. es \o et = e
    <3> HIDE DEF es, et
    <3>1. es \o et = [i \in 1 .. Len(es) + Len(et) |-> IF i <= Len(es) THEN es[i] ELSE et[i - Len(es)]]
      BY <1>1, ConcatIs
    <3> QED
      BY <1>2, <3>1
  <2>3. \A i \in D : Effect(st[i], a, x) = e[i]
    <3>1. DOMAIN s = 1 .. Len(s) /\ DOMAIN t = 1 .. Len(t) /\ Len(s) \in Nat /\ Len(t) \in Nat
      OBVIOUS
    <3>2. ASSUME NEW i \in D, i <= Len(s)
          PROVE  Effect(st[i], a, x) = e[i]
      <4>1. i \in DOMAIN s /\ st[i] = s[i] /\ e[i] = es[i]
        BY <3>1, <3>2
      <4>2. es[i] = Effect(s[i], a, x)
        BY <4>1 DEF Effects
      <4> QED
        BY <4>1, <4>2
    <3>3. ASSUME NEW i \in D, ~(i <= Len(s))
          PROVE  Effect(st[i], a, x) = e[i]
      <4> DEFINE k == i - Len(s)
      <4>1. k \in DOMAIN t /\ st[i] = t[k] /\ e[i] = et[k]
        BY <3>1, <3>3
      <4>2. et[k] = Effect(t[k], a, x)
        BY <4>1 DEF Effects
      <4> QED
        BY <4>1, <4>2
    <3> QED
      BY <3>2, <3>3
  <2>4. Effects(st, a, x) = [i \in D |-> Effect(st[i], a, x)] /\ DOMAIN e = D /\ DOMAIN st = D
    BY DEF Effects
  <2>5. [i \in D |-> Effect(st[i], a, x)] = e
    <3> HIDE DEF D, es, et, st
    <3> QED
      BY <2>3
  <2> QED
    BY <2>1, <2>2, <2>4, <2>5
<1> HIDE DEF es, et
<1>4. /\ SumOf(es, DOMAIN es) \in Int /\ SumOf(et, DOMAIN et) \in Int
      /\ SumOf(es \o et, DOMAIN (es \o et)) = SumOf(es, DOMAIN es) + SumOf(et, DOMAIN et)
  BY <1>1, SumOfConcat
<1>5. Coming(s, a, x) = SumOf(es, DOMAIN es) /\ Coming(t, a, x) = SumOf(et, DOMAIN et)
  BY <1>1 DEF Coming, es, et
<1>6. Coming(s \o t, a, x) = SumOf(es \o et, DOMAIN (es \o et))
  BY <1>3 DEF Coming
<1> QED
  BY <1>4, <1>5, <1>6

(* Nothing comes of no transaction, its effect of one.                     *)
LEMMA ComingFew ==
  ASSUME NEW tx \in Transaction, NEW a, NEW x
  PROVE  Coming(<<>>, a, x) = 0 /\ Coming(<<tx>>, a, x) = Effect(tx, a, x)
<1>1. Coming(<<>>, a, x) = 0
  <2>1. DOMAIN <<>> = {}
    OBVIOUS
  <2> QED
    BY <2>1, SumEmpty DEF Coming
<1>2. Coming(<<tx>>, a, x) = Effect(tx, a, x)
  <2> DEFINE e == Effects(<<tx>>, a, x)
  <2>1. DOMAIN <<tx>> = {1} /\ e[1] = Effect(tx, a, x) /\ e[1] \in Int
    BY EffectType DEF Effects
  <2>2. Coming(<<tx>>, a, x) = SumOf(e, {1})
    BY <2>1 DEF Coming
  <2>3. IsFiniteSet({1})
    BY FS_Singleton
  <2> HIDE DEF e
  <2>4. SumOf(e, {1}) = e[1]
    BY <2>1, <2>3, SumOfOne
  <2> QED
    BY <2>1, <2>2, <2>4
<1> QED
  BY <1>1, <1>2

(* What comes of the others, when one transaction is taken out.            *)
LEMMA ComingWithout ==
  ASSUME NEW s \in Seq(Transaction), NEW i \in DOMAIN s, NEW a, NEW x
  PROVE  /\ RemoveAt(s, i) \in Seq(Transaction)
         /\ Coming(s, a, x) \in Int /\ Coming(RemoveAt(s, i), a, x) \in Int
         /\ Coming(s, a, x) = Coming(RemoveAt(s, i), a, x) + Effect(s[i], a, x)
<1> DEFINE b == SubSeq(s, 1, i - 1)
           c == SubSeq(s, i + 1, Len(s))
           m == <<s[i]>>
<1>1. i \in 1 .. Len(s) /\ Len(s) \in Nat /\ s[i] \in Transaction
  OBVIOUS
<1>2. b \in Seq(Transaction) /\ c \in Seq(Transaction) /\ m \in Seq(Transaction)
  <2>1. \A j \in 1 .. i - 1 : s[j] \in Transaction
    BY <1>1
  <2>2. \A j \in i + 1 .. Len(s) : s[j] \in Transaction
    BY <1>1
  <2> QED
    BY <1>1, <2>1, <2>2, SubSeqProperties
<1>3. s = (b \o m) \o c
  <2>1. SubSeq(s, i, i) = m
    <3> DEFINE one == SubSeq(s, i, i)
    <3>1. one \in Seq(Transaction) /\ Len(one) = 1 /\ one[1] = s[i]
      BY <1>1, SubSeqProperties
    <3>2. Len(m) = 1 /\ m[1] = s[i]
      OBVIOUS
    <3> HIDE DEF one, m
    <3>3. one = m
      BY <1>2, <3>1, <3>2, SeqEqual
    <3> QED
      BY <3>3 DEF one
  <2>2. b \o SubSeq(s, i, i) = SubSeq(s, 1, i)
    <3>1. (i - 1) + 1 = i
      BY <1>1
    <3>2. SubSeq(s, 1, i - 1) \o SubSeq(s, (i - 1) + 1, i) = SubSeq(s, 1, i)
      <4>1. /\ 1 \in 1 .. Len(s) + 1 /\ i - 1 \in 1 - 1 .. Len(s) /\ i \in i - 1 .. Len(s)
        BY <1>1
      <4> QED
        BY <4>1, ConcatAdjacentSubSeq
    <3> QED
      BY <3>1, <3>2
  <2>3. SubSeq(s, 1, i) \o c = SubSeq(s, 1, Len(s))
    <3>1. /\ 1 \in 1 .. Len(s) + 1 /\ i \in 1 - 1 .. Len(s) /\ Len(s) \in i .. Len(s)
      BY <1>1
    <3> QED
      BY <3>1, ConcatAdjacentSubSeq
  <2>4. SubSeq(s, 1, Len(s)) = s
    BY SubSeqFull
  <2> QED
    BY <2>1, <2>2, <2>3, <2>4
<1> HIDE DEF b, c, m
<1>4. /\ b \o m \in Seq(Transaction) /\ b \o c \in Seq(Transaction)
      /\ RemoveAt(s, i) = b \o c
  BY <1>2 DEF RemoveAt, b, c
<1>5. /\ Coming(b \o m, a, x) \in Int /\ Coming(c, a, x) \in Int
      /\ Coming((b \o m) \o c, a, x) = Coming(b \o m, a, x) + Coming(c, a, x)
  <2> DEFINE bm == b \o m
  <2> HIDE DEF bm
  <2>1. bm \in Seq(Transaction)
    BY <1>4 DEF bm
  <2>2. /\ Coming(bm, a, x) \in Int /\ Coming(c, a, x) \in Int
        /\ Coming(bm \o c, a, x) = Coming(bm, a, x) + Coming(c, a, x)
    BY <1>2, <2>1, ComingConcat
  <2> QED
    BY <2>2 DEF bm
<1>6. /\ Coming(b, a, x) \in Int /\ Coming(m, a, x) \in Int
      /\ Coming(b \o m, a, x) = Coming(b, a, x) + Coming(m, a, x)
  BY <1>2, ComingConcat
<1>7. Coming(b \o c, a, x) = Coming(b, a, x) + Coming(c, a, x)
  BY <1>2, ComingConcat
<1>8. Coming(m, a, x) = Effect(s[i], a, x) /\ Effect(s[i], a, x) \in Int
  BY <1>1, ComingFew, EffectType DEF m
<1>9. Coming(s, a, x) = (Coming(b, a, x) + Effect(s[i], a, x)) + Coming(c, a, x)
  BY <1>3, <1>5, <1>6, <1>8
<1>10. Coming(RemoveAt(s, i), a, x) = Coming(b, a, x) + Coming(c, a, x)
  BY <1>4, <1>7
<1>11. RemoveAt(s, i) \in Seq(Transaction)
  BY <1>4
<1> QED
  BY <1>5, <1>6, <1>8, <1>9, <1>10, <1>11

---------------------------------------------------------------------------
(* What calls promise.                                                     *)

(* More on an account of a book.                                           *)
LEMMA PlusIs ==
  ASSUME NEW b \in Books, NEW tx \in Transaction, NEW y \in People, NEW amount \in Int
  PROVE  /\ Plus(b, tx, y, amount) \in Books
         /\ \A a \in Addresses, x \in People :
               Plus(b, tx, y, amount)[a][x] = b[a][x] + (IF tx.address = a /\ y = x THEN amount ELSE 0)
<1>1. /\ tx.address \in Addresses
      /\ \A a \in Addresses : b[a] \in [People -> Int]
  BY DEF Books, Transaction
<1>2. Plus(b, tx, y, amount) = [b EXCEPT ![tx.address] = [b[tx.address] EXCEPT ![y] = b[tx.address][y] + amount]]
  BY DEF Plus
<1> DEFINE row == [b[tx.address] EXCEPT ![y] = b[tx.address][y] + amount]
<1>3. /\ row \in [People -> Int]
      /\ \A x \in People : row[x] = b[tx.address][x] + (IF y = x THEN amount ELSE 0)
  BY <1>1
<1> HIDE DEF row
<1>4. Plus(b, tx, y, amount) = [b EXCEPT ![tx.address] = row]
  BY <1>2 DEF row
<1>5. b \in [Addresses -> [People -> Int]]
  BY DEF Books
<1>6. [b EXCEPT ![tx.address] = row] \in [Addresses -> [People -> Int]]
  BY <1>1, <1>3, <1>5
<1>7. ASSUME NEW a \in Addresses, NEW x \in People
      PROVE  [b EXCEPT ![tx.address] = row][a][x] = b[a][x] + (IF tx.address = a /\ y = x THEN amount ELSE 0)
  <2>1. CASE tx.address = a
    BY <1>1, <1>3, <1>5, <2>1
  <2>2. CASE tx.address # a
    <3>1. b[a][x] \in Int
      BY <1>1
    <3> QED
      BY <1>5, <2>2, <3>1
  <2> QED
    BY <2>1, <2>2
<1> QED
  BY <1>4, <1>6, <1>7 DEF Books

(* A transfer takes from one and gives to the other, who may be the same.  *)
LEMMA MovedIs ==
  ASSUME NEW b \in Books, NEW tx \in Transaction
  PROVE  /\ Moved(b, tx) \in Books
         /\ \A a \in Addresses, x \in People :
               Moved(b, tx)[a][x] = b[a][x]
                   + (IF tx.address = a /\ tx.from = x THEN -tx.amount ELSE 0)
                   + (IF tx.address = a /\ tx.to = x THEN tx.amount ELSE 0)
<1> DEFINE c == Plus(b, tx, tx.from, -tx.amount)
<1>1. tx.from \in People /\ tx.to \in People /\ tx.amount \in Int /\ -tx.amount \in Int
  BY DEF Transaction
<1>2. /\ c \in Books
      /\ \A a \in Addresses, x \in People :
            c[a][x] = b[a][x] + (IF tx.address = a /\ tx.from = x THEN -tx.amount ELSE 0)
  <2> DEFINE less == -tx.amount
             y == tx.from
  <2>1. less \in Int /\ y \in People
    BY <1>1
  <2> HIDE DEF less, y
  <2>2. /\ Plus(b, tx, y, less) \in Books
        /\ \A a \in Addresses, x \in People :
              Plus(b, tx, y, less)[a][x] = b[a][x] + (IF tx.address = a /\ y = x THEN less ELSE 0)
    BY <2>1, PlusIs
  <2> QED
    BY <2>2 DEF less, y
<1>3. Moved(b, tx) = Plus(c, tx, tx.to, tx.amount)
  BY DEF Moved
<1> HIDE DEF c
<1>4. /\ Plus(c, tx, tx.to, tx.amount) \in Books
      /\ \A a \in Addresses, x \in People :
            Plus(c, tx, tx.to, tx.amount)[a][x]
                = c[a][x] + (IF tx.address = a /\ tx.to = x THEN tx.amount ELSE 0)
  <2> DEFINE more == tx.amount
             y == tx.to
  <2>1. more \in Int /\ y \in People /\ c \in Books
    BY <1>1, <1>2
  <2> HIDE DEF more, y
  <2>2. /\ Plus(c, tx, y, more) \in Books
        /\ \A a \in Addresses, x \in People :
              Plus(c, tx, y, more)[a][x] = c[a][x] + (IF tx.address = a /\ y = x THEN more ELSE 0)
    BY <2>1, PlusIs
  <2> QED
    BY <2>2 DEF more, y
<1> QED
  BY <1>2, <1>3, <1>4

(* A promise adds the effect of its transaction.                           *)
LEMMA PromisedIs ==
  ASSUME NEW b \in Books, NEW tx \in Transaction
  PROVE  /\ Promised(tx, b) \in Books
         /\ \A a \in Addresses, x \in People : Promised(tx, b)[a][x] = b[a][x] + Effect(tx, a, x)
<1>1. /\ tx.from \in People /\ tx.to \in People /\ tx.amount \in Int /\ -tx.amount \in Int
      /\ tx.do \in {"deposit", "mint", "transfer", "burn", "approve"}
      /\ \A a \in Addresses, x \in People : b[a][x] \in Int
  BY DEF Transaction, Books
<1>2. CASE tx.do \in {"deposit", "mint"}
  <2> DEFINE more == tx.amount
             y == tx.to
  <2>1. more \in Int /\ y \in People
    BY <1>1
  <2>2. Promised(tx, b) = Plus(b, tx, y, more)
    BY <1>2 DEF Promised
  <2>3. \A a, x : Effect(tx, a, x) = IF tx.address = a /\ y = x THEN more ELSE 0
    BY <1>1, <1>2 DEF Effect
  <2> HIDE DEF more, y
  <2>4. /\ Plus(b, tx, y, more) \in Books
        /\ \A a \in Addresses, x \in People :
              Plus(b, tx, y, more)[a][x] = b[a][x] + (IF tx.address = a /\ y = x THEN more ELSE 0)
    BY <2>1, PlusIs
  <2> QED
    BY <2>2, <2>3, <2>4
<1>3. CASE tx.do = "transfer"
  <2>1. Promised(tx, b) = Moved(b, tx)
    BY <1>3 DEF Promised
  <2>2. ASSUME NEW a \in Addresses, NEW x \in People
        PROVE  Moved(b, tx)[a][x] = b[a][x] + Effect(tx, a, x)
    BY <1>1, <1>3, MovedIs DEF Effect
  <2> QED
    BY <2>1, <2>2, MovedIs
<1>4. CASE tx.do = "burn"
  <2> DEFINE less == -tx.amount
             y == tx.from
  <2>1. less \in Int /\ y \in People
    BY <1>1
  <2>2. Promised(tx, b) = Plus(b, tx, y, less)
    BY <1>4 DEF Promised
  <2>3. \A a, x : Effect(tx, a, x) = IF tx.address = a /\ y = x THEN less ELSE 0
    BY <1>1, <1>4 DEF Effect
  <2> HIDE DEF less, y
  <2>4. /\ Plus(b, tx, y, less) \in Books
        /\ \A a \in Addresses, x \in People :
              Plus(b, tx, y, less)[a][x] = b[a][x] + (IF tx.address = a /\ y = x THEN less ELSE 0)
    BY <2>1, PlusIs
  <2> QED
    BY <2>2, <2>3, <2>4
<1>5. CASE tx.do = "approve"
  BY <1>1, <1>5 DEF Promised, Effect
<1> QED
  BY <1>1, <1>2, <1>3, <1>4, <1>5

\* the books b after the transactions of txs whose indices are in s
Booked(b, txs, s) == [a \in Addresses |-> [x \in People |-> b[a][x] + SumOf(Effects(txs, a, x), s)]]

\* g is the function that FoldSeq computes the books with
IsFold(g, b, txs) ==
    g = [s \in SUBSET DOMAIN txs |->
            IF s = {} THEN b ELSE Promised(txs[Picked(s)], g[s \ {Picked(s)}])]

(* One transaction more.                                                   *)
LEMMA BookedStep ==
  ASSUME NEW b \in Books, NEW txs \in Seq(Transaction), NEW s \in SUBSET DOMAIN txs, s # {}
  PROVE  /\ Booked(b, txs, s) \in Books
         /\ Booked(b, txs, s) = Promised(txs[Picked(s)], Booked(b, txs, s \ {Picked(s)}))
<1> DEFINE p == Picked(s)
           r == s \ {p}
           f == Booked(b, txs, s)
           g == Booked(b, txs, r)
           h == Promised(txs[p], g)
<1>1. p \in s /\ p \in DOMAIN txs /\ txs[p] \in Transaction
  BY PickedIsElement
<1>2. IsFiniteSet(DOMAIN txs)
  <2>1. DOMAIN txs = 1 .. Len(txs) /\ Len(txs) \in Nat
    OBVIOUS
  <2> QED
    BY <2>1, FS_Interval
<1>3. IsFiniteSet(s) /\ r \in SUBSET DOMAIN txs /\ IsFiniteSet(r)
  BY <1>2, FS_Subset
<1>4. \A a \in Addresses, x \in People : b[a][x] \in Int
  BY DEF Books
<1>5. ASSUME NEW a \in Addresses, NEW x \in People
      PROVE  /\ SumOf(Effects(txs, a, x), s) \in Int /\ SumOf(Effects(txs, a, x), r) \in Int
             /\ SumOf(Effects(txs, a, x), s) = Effect(txs[p], a, x) + SumOf(Effects(txs, a, x), r)
  <2> DEFINE e == Effects(txs, a, x)
  <2>1. \A i \in DOMAIN txs : e[i] \in Int
    BY EffectsType
  <2>2. e[p] = Effect(txs[p], a, x)
    BY <1>1 DEF Effects
  <2> HIDE DEF e
  <2>3. SumOf(e, s) \in Int /\ SumOf(e, r) \in Int
    BY <1>3, <2>1, SumOfInt
  <2>4. SumOf(e, s) = e[p] + SumOf(e, r)
    BY <1>3, SumStep
  <2> QED
    BY <2>2, <2>3, <2>4 DEF e
<1>6. f \in Books /\ g \in Books
  <2> HIDE DEF f, g, h, r, p
  <2>1. ASSUME NEW a \in Addresses, NEW x \in People
        PROVE  /\ b[a][x] + SumOf(Effects(txs, a, x), s) \in Int
               /\ b[a][x] + SumOf(Effects(txs, a, x), r) \in Int
    <3>1. b[a][x] \in Int
      BY <1>4
    <3>2. SumOf(Effects(txs, a, x), s) \in Int /\ SumOf(Effects(txs, a, x), r) \in Int
      BY <1>5
    <3> QED
      BY <3>1, <3>2
  <2> QED
    BY <2>1 DEF Booked, Books, f, g
<1>7. /\ h \in Books
      /\ \A a \in Addresses, x \in People : h[a][x] = g[a][x] + Effect(txs[p], a, x)
  <2> HIDE DEF g
  <2> QED
    BY <1>1, <1>6, PromisedIs
<1>8. \A a \in Addresses, x \in People : f[a][x] = g[a][x] + Effect(txs[p], a, x)
  <2>1. ASSUME NEW a \in Addresses, NEW x \in People
        PROVE  f[a][x] = g[a][x] + Effect(txs[p], a, x)
    <3>1. f[a][x] = b[a][x] + SumOf(Effects(txs, a, x), s)
      BY DEF Booked
    <3>2. g[a][x] = b[a][x] + SumOf(Effects(txs, a, x), r)
      BY DEF Booked
    <3>3. Effect(txs[p], a, x) \in Int /\ b[a][x] \in Int
      BY <1>1, <1>4, EffectType
    <3> HIDE DEF f, g, r, p
    <3> QED
      BY <1>5, <3>1, <3>2, <3>3
  <2> QED
    BY <2>1
<1> HIDE DEF f, g, h
<1>9. \A a \in Addresses : f[a] = h[a]
  <2>1. \A a \in Addresses : f[a] \in [People -> Int] /\ h[a] \in [People -> Int]
    BY <1>6, <1>7 DEF Books
  <2> QED
    BY <1>7, <1>8, <2>1
<1>10. f = h
  BY <1>6, <1>7, <1>9 DEF Books
<1> QED
  BY <1>6, <1>10 DEF f, g, h

(* The promises of a call add up to what will come of its transactions.    *)
LEMMA FoldPromises ==
  ASSUME NEW b \in Books, NEW txs \in Seq(Transaction)
  PROVE  /\ FoldSeq(Promised, b, txs) \in Books
         /\ \A a \in Addresses, x \in People :
               FoldSeq(Promised, b, txs)[a][x] = b[a][x] + Coming(txs, a, x)
<1> DEFINE D == DOMAIN txs
           chosen == CHOOSE g : IsFold(g, b, txs)
<1>1. FoldSeq(Promised, b, txs) = chosen[D]
  BY DEF FoldSeq, FoldFunction, FoldFunctionOnSet, MapThenFoldSet, IsFold, Picked
<1>2. IsFiniteSet(D)
  <2>1. DOMAIN txs = 1 .. Len(txs) /\ Len(txs) \in Nat
    OBVIOUS
  <2> QED
    BY <2>1, FS_Interval
<1>3. Booked(b, txs, {}) = b
  <2>1. \A a \in Addresses, x \in People : b[a][x] + SumOf(Effects(txs, a, x), {}) = b[a][x]
    BY SumEmpty DEF Books
  <2>2. b \in [Addresses -> [People -> Int]]
    BY DEF Books
  <2>3. \A a \in Addresses : [x \in People |-> b[a][x] + SumOf(Effects(txs, a, x), {})] = b[a]
    BY <2>1, <2>2
  <2> QED
    BY <2>2, <2>3 DEF Booked
<1>4. \E g : IsFold(g, b, txs)
  <2> DEFINE g == [s \in SUBSET D |-> Booked(b, txs, s)]
  <2>1. \A s \in SUBSET D : s # {} => g[s] = Promised(txs[Picked(s)], g[s \ {Picked(s)}])
    BY BookedStep
  <2>2. g[{}] = b
    BY <1>3
  <2>3. g = [s \in SUBSET D |-> g[s]]
    OBVIOUS
  <2> HIDE DEF g
  <2>4. IsFold(g, b, txs)
    BY <2>1, <2>2, <2>3 DEF IsFold
  <2> QED
    BY <2>4
<1>5. IsFold(chosen, b, txs)
  BY <1>4
<1> HIDE DEF chosen
<1> DEFINE T == {s \in SUBSET D : chosen[s] = Booked(b, txs, s)}
<1>6. {} \in T
  BY <1>3, <1>5 DEF IsFold
<1>7. \A s \in SUBSET D : s # {} /\ s \ {Picked(s)} \in T => s \in T
  <2>1. ASSUME NEW s \in SUBSET D, s # {}, s \ {Picked(s)} \in T
        PROVE  chosen[s] = Booked(b, txs, s)
    <3>1. chosen[s] = Promised(txs[Picked(s)], chosen[s \ {Picked(s)}])
      BY <1>5, <2>1 DEF IsFold
    <3>2. chosen[s \ {Picked(s)}] = Booked(b, txs, s \ {Picked(s)})
      BY <2>1
    <3>3. Booked(b, txs, s) = Promised(txs[Picked(s)], Booked(b, txs, s \ {Picked(s)}))
      BY <2>1, BookedStep
    <3> QED
      BY <3>1, <3>2, <3>3
  <2> QED
    BY <2>1
<1> HIDE DEF T, D
<1>8. T = SUBSET D
  <2>1. T \in SUBSET SUBSET D
    BY DEF T
  <2> QED
    BY <1>2, <1>6, <1>7, <2>1, SubsetInduction
<1>9. chosen[D] = Booked(b, txs, D)
  BY <1>8 DEF T
<1>10. Booked(b, txs, D) \in Books
  BY <1>3, BookedStep DEF D
<1>11. \A a \in Addresses, x \in People : Booked(b, txs, D)[a][x] = b[a][x] + Coming(txs, a, x)
  BY DEF Booked, Coming, D
<1> QED
  BY <1>1, <1>9, <1>10, <1>11

---------------------------------------------------------------------------
(* Lists.                                                                  *)

(* A sequence of sequences is flattened to one of their elements.          *)
LEMMA FlattenType ==
  ASSUME NEW S, NEW ss \in Seq(Seq(S))
  PROVE  FlattenSeq(ss) \in Seq(S)
<1> DEFINE L == Len(ss)
           flat(f) == f = [i \in 1 .. L |-> IF i = 1 THEN ss[i] ELSE f[i - 1] \o ss[i]]
           chosen == CHOOSE f : flat(f)
<1>1. L \in Nat /\ \A i \in 1 .. L : ss[i] \in Seq(S)
  OBVIOUS
<1>2. FlattenSeq(ss) = IF L = 0 THEN ss ELSE chosen[L]
  BY DEF FlattenSeq
<1>3. \E f : flat(f)
  <2> DEFINE g == [n \in 1 .. L |-> [m \in Seq(S) |-> IF n = 1 THEN ss[n] ELSE m \o ss[n]]]
             none == <<>>
  <2>1. none \in Seq(S) /\ \A n \in 1 .. L : g[n] \in [Seq(S) -> Seq(S)]
    BY <1>1
  <2>2. PICK h \in [0 .. L -> Seq(S)] : Iterates(h, g, none, L)
    <3> HIDE DEF g, none
    <3> QED
      BY <1>1, <2>1, LoopExists
  <2> DEFINE f == [i \in 1 .. L |-> h[i]]
  <2>3. ASSUME NEW i \in 1 .. L
        PROVE  f[i] = IF i = 1 THEN ss[i] ELSE f[i - 1] \o ss[i]
    <3>1. i \in 0 .. L /\ i # 0 /\ i - 1 \in 0 .. L /\ h[i - 1] \in Seq(S)
      <4> HIDE DEF L, f, g
      <4>1. i \in 0 .. L /\ i # 0 /\ i - 1 \in 0 .. L
        BY <1>1
      <4> QED
        BY <4>1
    <3>2. h[i] = g[i][h[i - 1]]
      <4> HIDE DEF g
      <4> QED
        BY <2>2, <3>1 DEF Iterates
    <3>3. h[i] = IF i = 1 THEN ss[i] ELSE h[i - 1] \o ss[i]
      BY <3>1, <3>2
    <3>4. i # 1 => f[i - 1] = h[i - 1]
      BY <1>1
    <3> QED
      BY <3>3, <3>4
  <2>4. f = [i \in 1 .. L |-> f[i]]
    OBVIOUS
  <2> HIDE DEF f
  <2>5. flat(f)
    BY <2>3, <2>4
  <2> QED
    BY <2>5
<1>4. flat(chosen)
  BY <1>3
<1> HIDE DEF chosen
<1> DEFINE T == {k \in 0 .. L : k = 0 \/ chosen[k] \in Seq(S)}
<1>5. ASSUME NEW k \in 0 .. L, k + 1 \in 0 .. L, k \in T
      PROVE  k + 1 \in T
  <2>1. k + 1 \in 1 .. L /\ ss[k + 1] \in Seq(S) /\ (k + 1) - 1 = k
    BY <1>1, <1>5
  <2>2. chosen[k + 1] = IF k + 1 = 1 THEN ss[k + 1] ELSE chosen[k] \o ss[k + 1]
    BY <1>4, <2>1
  <2>3. CASE k = 0
    BY <1>5, <2>1, <2>2, <2>3
  <2>4. CASE k # 0
    <3>1. chosen[k] \in Seq(S) /\ k + 1 # 1
      BY <1>1, <1>5, <2>4
    <3>2. chosen[k] \o ss[k + 1] \in Seq(S)
      BY <2>1, <3>1, ConcatProperties
    <3> QED
      BY <1>5, <2>2, <3>1, <3>2
  <2> QED
    BY <2>3, <2>4
<1> HIDE DEF T
<1>6. 0 .. L \subseteq T
  <2>1. 0 \in T
    BY <1>1 DEF T
  <2>2. \A k \in 0 .. L : k + 1 \in 0 .. L /\ k \in T => k + 1 \in T
    BY <1>5
  <2> HIDE DEF L
  <2> QED
    BY <1>1, <2>1, <2>2, UpTo
<1>7. CASE L = 0
  <2>1. ss = <<>>
    BY <1>7
  <2> QED
    BY <1>2, <1>7, <2>1
<1>8. CASE L # 0
  <2>1. L \in 0 .. L
    BY <1>1
  <2> QED
    BY <1>2, <1>6, <1>8, <2>1 DEF T
<1> QED
  BY <1>7, <1>8

(* A set of numbers has a least one.                                       *)
LEMMA LeastExists ==
  ASSUME NEW S \in SUBSET Nat, S # {}
  PROVE  \E c \in S : \A j \in S : c <= j
<1> DEFINE Less == OpToRel(<, Nat)
<1> HIDE DEF Less
<1>1. PICK c \in S : \A j \in S : ~ (<<j, c>> \in Less)
  BY NatLessThanWellFounded, WFMin DEF Less
<1>2. \A j \in S : ~(j < c)
  BY <1>1 DEF OpToRel, Less
<1> QED
  BY <1>2

\* p puts the first n numbers of f in order
Sorts(p, f, n) ==
    /\ p \in [1 .. n -> 1 .. n]
    /\ \A i, j \in 1 .. n : p[i] = p[j] => i = j
    /\ \A i, j \in 1 .. n : i < j => f[p[i]] <= f[p[j]]

(* Whatever is in order stays so when one number is put before the first   *)
(* greater one.                                                            *)
LEMMA SortStep ==
  ASSUME NEW n \in Nat, NEW f, \A i \in 1 .. n + 1 : f[i] \in Nat, NEW p, Sorts(p, f, n)
  PROVE  \E q : Sorts(q, f, n + 1)
<1> DEFINE J == {j \in 1 .. n + 1 : j = n + 1 \/ f[p[j]] > f[n + 1]}
<1>1. PICK c \in J : \A j \in J : c <= j
  <2>1. J \in SUBSET Nat /\ n + 1 \in J
    OBVIOUS
  <2> HIDE DEF J
  <2> QED
    BY <2>1, LeastExists
<1> DEFINE q == [i \in 1 .. n + 1 |-> IF i < c THEN p[i] ELSE IF i = c THEN n + 1 ELSE p[i - 1]]
<1>2. c \in 1 .. n + 1
  BY <1>1
<1>3. /\ p \in [1 .. n -> 1 .. n]
      /\ \A i, j \in 1 .. n : p[i] = p[j] => i = j
      /\ \A i, j \in 1 .. n : i < j => f[p[i]] <= f[p[j]]
      /\ \A i \in 1 .. n : f[p[i]] \in Nat
      /\ f[n + 1] \in Nat
  BY DEF Sorts
<1>4. \A i \in 1 .. n + 1 : i < c => i \in 1 .. n /\ f[p[i]] <= f[n + 1]
  <2>1. ASSUME NEW i \in 1 .. n + 1, i < c
        PROVE  i \in 1 .. n /\ f[p[i]] <= f[n + 1]
    <3>1. i \notin J
      BY <1>1, <1>2, <2>1
    <3>2. i # n + 1 /\ ~(f[p[i]] > f[n + 1])
      BY <3>1
    <3>3. i \in 1 .. n
      BY <3>2
    <3>4. f[p[i]] \in Nat /\ f[n + 1] \in Nat
      BY <1>3, <3>3
    <3> DEFINE x == f[p[i]]
               z == f[n + 1]
    <3>5. x \in Nat /\ z \in Nat /\ ~(x > z)
      BY <3>2, <3>4
    <3> HIDE DEF x, z
    <3>6. x <= z
      BY <3>5
    <3> QED
      BY <3>3, <3>6 DEF x, z
  <2> QED
    BY <2>1
<1>5. \A i \in 1 .. n + 1 : i > c => i - 1 \in 1 .. n /\ f[n + 1] <= f[p[i - 1]]
  <2>1. ASSUME NEW i \in 1 .. n + 1, i > c
        PROVE  i - 1 \in 1 .. n /\ f[n + 1] <= f[p[i - 1]]
    <3>1. i - 1 \in 1 .. n /\ c \in 1 .. n /\ c <= i - 1 /\ c # n + 1
      BY <1>2, <2>1
    <3>2. f[p[c]] > f[n + 1]
      BY <1>1, <3>1
    <3>3. f[p[c]] <= f[p[i - 1]] /\ f[p[c]] \in Nat /\ f[p[i - 1]] \in Nat
      <4> DEFINE k == i - 1
      <4>1. k \in 1 .. n /\ c <= k /\ k \in Nat /\ c \in Nat
        BY <3>1
      <4> HIDE DEF k, J, q
      <4>2. f[p[c]] \in Nat /\ f[p[k]] \in Nat
        BY <1>3, <3>1, <4>1
      <4>3. f[p[c]] <= f[p[k]]
        <5>1. CASE c = k
          BY <4>2, <5>1
        <5>2. CASE c < k
          BY <1>3, <3>1, <4>1, <5>2
        <5> QED
          BY <4>1, <5>1, <5>2
      <4> QED
        BY <4>2, <4>3 DEF k
    <3> DEFINE x == f[p[c]]
               y == f[p[i - 1]]
               z == f[n + 1]
    <3>4. x \in Nat /\ y \in Nat /\ z \in Nat /\ x > z /\ x <= y
      BY <1>3, <3>2, <3>3
    <3> HIDE DEF x, y, z
    <3>5. z <= y
      BY <3>4
    <3> QED
      BY <3>1, <3>5 DEF y, z
  <2> QED
    BY <2>1
<1>6. /\ \A i \in 1 .. n + 1 : i < c => q[i] = p[i]
      /\ q[c] = n + 1
      /\ \A i \in 1 .. n + 1 : i > c => q[i] = p[i - 1]
      /\ DOMAIN q = 1 .. n + 1 /\ q = [i \in 1 .. n + 1 |-> q[i]]
  BY <1>2
<1> HIDE DEF q, J
<1>7. \A i \in 1 .. n + 1 : q[i] \in 1 .. n + 1 /\ (q[i] = n + 1 <=> i = c)
  <2>1. ASSUME NEW i \in 1 .. n + 1
        PROVE  q[i] \in 1 .. n + 1 /\ (q[i] = n + 1 <=> i = c)
    <3>1. CASE i < c
      <4>1. p[i] \in 1 .. n /\ q[i] = p[i]
        BY <1>3, <1>4, <1>6, <3>1
      <4> QED
        BY <1>2, <3>1, <4>1
    <3>2. CASE i = c
      BY <1>2, <1>6, <3>2
    <3>3. CASE i > c
      <4>1. p[i - 1] \in 1 .. n /\ q[i] = p[i - 1]
        BY <1>3, <1>5, <1>6, <3>3
      <4> QED
        BY <1>2, <3>3, <4>1
    <3> QED
      BY <1>2, <3>1, <3>2, <3>3
  <2> QED
    BY <2>1
<1>8. \A i, j \in 1 .. n + 1 : i < j => q[i] # q[j] /\ f[q[i]] <= f[q[j]]
  <2>1. ASSUME NEW i \in 1 .. n + 1, NEW j \in 1 .. n + 1, i < j
        PROVE  q[i] # q[j] /\ f[q[i]] <= f[q[j]]
    <3>1. CASE j < c
      <4>1. i < c /\ i \in 1 .. n /\ j \in 1 .. n
        BY <1>2, <1>4, <2>1, <3>1
      <4>2. q[i] = p[i] /\ q[j] = p[j]
        BY <1>6, <3>1, <4>1
      <4>3. p[i] # p[j] /\ f[p[i]] <= f[p[j]]
        BY <1>3, <2>1, <4>1
      <4> QED
        BY <4>2, <4>3
    <3>2. CASE j = c
      BY <1>2, <1>4, <1>6, <1>7, <2>1, <3>2
    <3>3. CASE j > c
      <4> DEFINE k == j - 1
      <4>1. k \in 1 .. n /\ f[n + 1] <= f[p[k]] /\ q[j] = p[k] /\ p[k] \in 1 .. n /\ f[p[k]] \in Nat
        BY <1>3, <1>5, <1>6, <3>3
      <4>2. CASE i < c
        <5>1. i \in 1 .. n /\ i < k /\ q[i] = p[i]
          BY <1>2, <1>4, <1>6, <3>3, <4>2
        <5> HIDE DEF k
        <5> QED
          BY <1>3, <4>1, <5>1
      <4>3. CASE i = c
        BY <1>6, <1>7, <3>3, <4>1, <4>3
      <4>4. CASE i > c
        <5> DEFINE h == i - 1
        <5>1. h \in 1 .. n /\ q[i] = p[h] /\ h < k
          BY <1>5, <1>6, <2>1, <4>4
        <5> HIDE DEF h, k
        <5> QED
          BY <1>3, <4>1, <5>1
      <4> QED
        BY <1>2, <4>2, <4>3, <4>4
    <3> QED
      BY <1>2, <3>1, <3>2, <3>3
  <2> QED
    BY <2>1
<1>9. Sorts(q, f, n + 1)
  <2>1. q \in [1 .. n + 1 -> 1 .. n + 1]
    BY <1>6, <1>7
  <2>2. \A i, j \in 1 .. n + 1 : q[i] = q[j] => i = j
    <3>1. \A i, j \in 1 .. n + 1 : i < j \/ i = j \/ j < i
      OBVIOUS
    <3> QED
      BY <1>8, <3>1
  <2> QED
    BY <1>8, <2>1, <2>2 DEF Sorts
<1> QED
  BY <1>9

(* Numbers can be put in order.                                            *)
LEMMA SortExists ==
  ASSUME NEW n \in Nat, NEW f, \A i \in 1 .. n : f[i] \in Nat
  PROVE  \E p : Sorts(p, f, n)
<1> DEFINE T == {k \in 0 .. n : \E p : Sorts(p, f, k)}
<1>1. 0 \in T
  <2>1. Sorts([i \in 1 .. 0 |-> i], f, 0)
    BY DEF Sorts
  <2> QED
    BY <2>1
<1>2. ASSUME NEW k \in 0 .. n, k + 1 \in 0 .. n, k \in T
      PROVE  k + 1 \in T
  <2>1. \A i \in 1 .. k + 1 : f[i] \in Nat
    BY <1>2
  <2>2. PICK p : Sorts(p, f, k)
    BY <1>2
  <2>3. \E q : Sorts(q, f, k + 1)
    BY <2>1, <2>2, SortStep
  <2> QED
    BY <1>2, <2>3
<1>3. \A k \in 0 .. n : k + 1 \in 0 .. n /\ k \in T => k + 1 \in T
  BY <1>2
<1> HIDE DEF T
<1>4. 0 .. n \subseteq T
  BY <1>1, <1>3, UpTo
<1>5. n \in T
  BY <1>4
<1> QED
  BY <1>5 DEF T

---------------------------------------------------------------------------
(* Tokens and their lists.                                                 *)

Label(n) == "TK" \o ToString(n)
\* that "" is a string is not known to the provers
Symbols == STRING \cup {""} \cup {Label(n) : n \in Int}
Contract == [symbol : Symbols, decimals : Nat]
TokenObject == [address : Addresses, symbol : Symbols, decimals : Nat]
Asked == [symbol : STRING \cup {""}, decimals : Nat \cup {Undefined}]

ListsOK ==
    /\ contracts \in [DOMAIN contracts -> Contract] /\ DOMAIN contracts \subseteq Addresses
    /\ arrays \in Seq(Seq(TokenObject))
    /\ lists \in Seq(Nat) /\ \A l \in DOMAIN lists : lists[l] \in DOMAIN arrays

(* A deployment is asked for with all that a token has.                    *)
LEMMA DeploymentTypes ==
  ASSUME NEW params \in Seq(Asked), NEW vary \in BOOLEAN
  PROVE  /\ TrimParamsForSortedDeploy(params) \in Seq(Asked)
         /\ DOMAIN TrimParamsForSortedDeploy(params) = DOMAIN params
         /\ DOMAIN ToTokenDeployments(params, vary) = DOMAIN params
         /\ \A i \in DOMAIN params : /\ ToTokenDeployments(params, vary)[i] \in Contract
                                     /\ DeployToken(ToTokenDeployments(params, vary)[i]) \in Contract
<1>1. Len(params) \in Nat /\ DOMAIN params = 1 .. Len(params) /\ \A i \in DOMAIN params : params[i] \in Asked
  OBVIOUS
<1>2. [symbol |-> "", decimals |-> Undefined] \in Asked
  BY DEF Asked
<1>3. /\ TrimParamsForSortedDeploy(params) \in Seq(Asked)
      /\ DOMAIN TrimParamsForSortedDeploy(params) = DOMAIN params
  <2> DEFINE e == [symbol |-> "", decimals |-> Undefined]
             f == [i \in 1 .. Len(params) |-> e]
  <2>1. TrimParamsForSortedDeploy(params) = f
    BY DEF TrimParamsForSortedDeploy, Fill
  <2> HIDE DEF e
  <2>2. f \in [1 .. Len(params) -> Asked]
    BY <1>2 DEF e
  <2>3. f \in Seq(Asked) /\ DOMAIN f = 1 .. Len(params)
    BY <1>1, <2>2
  <2> QED
    BY <1>1, <2>1, <2>3
<1>4. ASSUME NEW i \in DOMAIN params
      PROVE  ToTokenDeployments(params, vary)[i] \in Contract
  <2>1. params[i].symbol \in STRING \cup {""} /\ params[i].decimals \in Nat \cup {Undefined}
    BY <1>1 DEF Asked
  <2>2. i - 1 \in Nat
    BY <1>1
  <2>3. ComputeDecimalsFromIndex(i - 1) \in Nat
    BY <2>2, TokenAssumption DEF ComputeDecimalsFromIndex
  <2> DEFINE sym == IF params[i].symbol = "" THEN "TK" \o ToString(i - 1) ELSE params[i].symbol
             dec == IF params[i].decimals # Undefined THEN params[i].decimals
                    ELSE IF vary THEN ComputeDecimalsFromIndex(i - 1) ELSE TokenDecimals
  <2>4. sym \in Symbols
    <3>1. sym = IF params[i].symbol = "" THEN Label(i - 1) ELSE params[i].symbol
      BY Zenon DEF Label
    <3> HIDE DEF sym
    <3>2. i - 1 \in Int
      BY <2>2
    <3> QED
      BY <2>1, <3>1, <3>2 DEF Symbols
  <2>5. dec \in Nat
    BY <2>1, <2>3, TokenAssumption
  <2>6. ToTokenDeployments(params, vary)[i] = [symbol |-> sym, decimals |-> dec]
    BY DEF ToTokenDeployments
  <2> HIDE DEF sym, dec
  <2> QED
    BY <2>4, <2>5, <2>6 DEF Contract
<1>5. ASSUME NEW c \in Contract
      PROVE  DeployToken(c) \in Contract
  BY TokenAssumption DEF DeployToken, Contract
<1>6. DOMAIN ToTokenDeployments(params, vary) = DOMAIN params
  BY DEF ToTokenDeployments
<1> QED
  BY <1>3, <1>4, <1>5, <1>6

(* A list in order has the same tokens.                                    *)
LEMMA ByAddressType ==
  ASSUME NEW tokens \in Seq(TokenObject)
  PROVE  ByAddress(tokens) \in Seq(TokenObject) /\ DOMAIN ByAddress(tokens) = DOMAIN tokens
<1> DEFINE n == Len(tokens)
           ok(p) == IsAscending([i \in DOMAIN tokens |-> tokens[p[i]].address])
           q == CHOOSE p \in Orders(n) : ok(p)
<1>1. n \in Nat /\ DOMAIN tokens = 1 .. n /\ \A i \in 1 .. n : tokens[i] \in TokenObject
  OBVIOUS
<1>2. \E p \in Orders(n) : ok(p)
  <2> DEFINE f == [i \in 1 .. n |-> tokens[i].address]
  <2>1. \A i \in 1 .. n : f[i] \in Nat /\ f[i] = tokens[i].address
    BY <1>1, TokenAssumption DEF TokenObject
  <2> HIDE DEF f, n
  <2>2. PICK p : Sorts(p, f, n)
    BY <1>1, <2>1, SortExists
  <2>3. p \in Orders(n)
    BY <2>2 DEF Sorts, Orders, IsInjective
  <2> DEFINE g == [i \in DOMAIN tokens |-> tokens[p[i]].address]
  <2>4. DOMAIN g = 1 .. n /\ \A i \in 1 .. n : g[i] = f[p[i]]
    BY <1>1, <2>1, <2>2 DEF Sorts
  <2> HIDE DEF g
  <2>5. IsAscending(g)
    BY <2>2, <2>4 DEF IsAscending, Sorts
  <2> QED
    BY <2>3, <2>5 DEF g
<1>3. q \in Orders(n)
  <2> HIDE DEF ok, n
  <2> QED
    BY <1>2
<1>4. ByAddress(tokens) = [i \in DOMAIN tokens |-> tokens[q[i]]]
  BY DEF ByAddress
<1> HIDE DEF q, n
<1>5. \A i \in 1 .. n : q[i] \in 1 .. n
  BY <1>3 DEF Orders
<1> DEFINE r == [i \in 1 .. n |-> tokens[q[i]]]
<1>6. r \in [1 .. n -> TokenObject]
  BY <1>1, <1>5
<1>7. r \in Seq(TokenObject) /\ DOMAIN r = 1 .. n
  BY <1>1, <1>6
<1> QED
  BY <1>1, <1>4, <1>7

(* A list of tokens is added to the others.                                *)
LEMMA AddListKeeps ==
  ASSUME ListsOK, NEW array \in Seq(TokenObject), AddList(array),
         contracts' \in [DOMAIN contracts' -> Contract], DOMAIN contracts' \subseteq Addresses
  PROVE  ListsOK'
<1>1. arrays \in Seq(Seq(TokenObject)) /\ arrays' = Append(arrays, array)
  BY DEF ListsOK, AddList
<1>2. arrays' \in Seq(Seq(TokenObject)) /\ Len(arrays') = Len(arrays) + 1 /\ Len(arrays) \in Nat
  BY <1>1
<1>3. DOMAIN arrays = 1 .. Len(arrays) /\ DOMAIN arrays' = 1 .. Len(arrays) + 1
  BY <1>1, <1>2
<1> DEFINE k == Len(arrays) + 1
<1>4. k \in Nat /\ k \in DOMAIN arrays' /\ DOMAIN arrays \subseteq DOMAIN arrays'
  BY <1>2, <1>3
<1>5. lists \in Seq(Nat) /\ lists' = Append(lists, k) /\ \A l \in DOMAIN lists : lists[l] \in DOMAIN arrays
  BY DEF ListsOK, AddList
<1> HIDE DEF k
<1>6. lists' \in Seq(Nat) /\ \A l \in DOMAIN lists' : lists'[l] \in DOMAIN arrays'
  BY <1>4, <1>5
<1> QED
  BY <1>2, <1>6 DEF ListsOK

(* Deployed tokens have objects of their own, in a list of their own.      *)
LEMMA CreateKeeps ==
  ASSUME ListsOK, NEW params \in Deployments, NEW sorted \in BOOLEAN, NEW vary \in BOOLEAN,
         Create(params, sorted, vary)
  PROVE  ListsOK'
<1> DEFINE given == IF sorted THEN TrimParamsForSortedDeploy(params) ELSE params
           asked == ToTokenDeployments(given, vary)
           labels == ToTokenDeployments(params, FALSE)
<1>1. PICK at \in [DOMAIN params -> Addresses \ DOMAIN contracts] :
        LET new == [i \in DOMAIN params |-> Object(at[i], asked[i])]
        IN  /\ IsInjective(at)
            /\ contracts' = [a \in DOMAIN contracts \cup Range(at) |->
                                IF a \in DOMAIN contracts THEN contracts[a]
                                ELSE DeployToken(asked[CHOOSE i \in DOMAIN at : at[i] = a])]
            /\ AddList(IF sorted THEN SortTokensDeployment(new, params) ELSE new)
  BY DEF Create
<1>2. params \in Seq(Asked) /\ Len(params) \in Nat /\ DOMAIN params = 1 .. Len(params)
  <2> DEFINE Given == [symbol : STRING, decimals : Nat \cup {Undefined}]
  <2>1. params \in Seq(Given)
    BY CallerAssumption, Zenon
  <2>2. \A x \in Given : x \in Asked
    BY DEF Asked
  <2> HIDE DEF Given
  <2> QED
    BY <2>1, <2>2
<1>3. given \in Seq(Asked) /\ DOMAIN given = DOMAIN params
  BY <1>2, DeploymentTypes
<1>4. \A i \in DOMAIN params : asked[i] \in Contract /\ DeployToken(asked[i]) \in Contract
  <2> HIDE DEF given
  <2> QED
    BY <1>3, DeploymentTypes
<1>5. \A i \in DOMAIN params : labels[i] \in Contract
  BY <1>2, DeploymentTypes
<1> HIDE DEF given, asked, labels
<1> DEFINE new == [i \in DOMAIN params |-> Object(at[i], asked[i])]
           array == IF sorted THEN SortTokensDeployment(new, params) ELSE new
<1>6. new \in Seq(TokenObject) /\ DOMAIN new = DOMAIN params
  <2>1. ASSUME NEW i \in DOMAIN params
        PROVE  Object(at[i], asked[i]) \in TokenObject
    BY <1>4 DEF Object, Contract, TokenObject
  <2>2. new \in [1 .. Len(params) -> TokenObject]
    BY <1>2, <2>1
  <2> HIDE DEF new
  <2> QED
    BY <1>2, <2>2
<1>7. array \in Seq(TokenObject)
  <2>1. CASE ~sorted
    BY <1>6, <2>1
  <2>2. CASE sorted
    <3> HIDE DEF new
    <3> DEFINE b == ByAddress(new)
               c == [i \in DOMAIN params |-> [b[i] EXCEPT !.symbol = labels[i].symbol]]
    <3>1. b \in Seq(TokenObject) /\ DOMAIN b = DOMAIN params
      BY <1>6, ByAddressType
    <3>2. array = c
      BY <2>2 DEF SortTokensDeployment, labels
    <3> HIDE DEF b
    <3>3. \A i \in DOMAIN params : [b[i] EXCEPT !.symbol = labels[i].symbol] \in TokenObject
      <4>1. ASSUME NEW i \in DOMAIN params
            PROVE  [b[i] EXCEPT !.symbol = labels[i].symbol] \in TokenObject
        <5> DEFINE o == b[i]
                   y == labels[i].symbol
        <5>1. o \in TokenObject
          BY <3>1
        <5>2. y \in Symbols
          BY <1>5 DEF Contract
        <5> HIDE DEF o, y
        <5>3. [o EXCEPT !.symbol = y] \in TokenObject
          BY <5>1, <5>2 DEF TokenObject
        <5> QED
          BY <5>3 DEF o, y
      <4> QED
        BY <4>1
    <3>4. c \in [1 .. Len(params) -> TokenObject]
      BY <1>2, <3>3
    <3> HIDE DEF c, array
    <3> QED
      BY <1>2, <3>2, <3>4
  <2> QED
    BY <2>1, <2>2
<1>8. contracts' \in [DOMAIN contracts' -> Contract] /\ DOMAIN contracts' \subseteq Addresses
  <2>1. contracts \in [DOMAIN contracts -> Contract] /\ DOMAIN contracts \subseteq Addresses
    BY DEF ListsOK
  <2>2. Range(at) \subseteq Addresses /\ \A a \in Range(at) : \E i \in DOMAIN at : at[i] = a
    BY DEF Range
  <2>3. \A a \in Range(at) : DeployToken(asked[CHOOSE i \in DOMAIN at : at[i] = a]) \in Contract
    <3>1. \A a \in Range(at) : (CHOOSE i \in DOMAIN at : at[i] = a) \in DOMAIN params
      BY <2>2
    <3> QED
      BY <1>4, <3>1
  <2> QED
    BY <1>1, <2>1, <2>2, <2>3
<1>9. AddList(array)
  BY <1>1
<1> HIDE DEF array
<1> QED
  BY <1>7, <1>8, <1>9, AddListKeeps

(* A list of one token that there is.                                      *)
LEMMA DeployedAtKeeps ==
  ASSUME ListsOK, NEW address \in Addresses, DeployedAt(address)
  PROVE  ListsOK'
<1> DEFINE t == Object(address, contracts[address])
           array == <<t>>
<1>1. t \in TokenObject
  BY DEF DeployedAt, ListsOK, Object, Contract, TokenObject
<1>2. array \in Seq(TokenObject)
  <2> HIDE DEF t
  <2> QED
    BY <1>1
<1>3. AddList(array) /\ contracts' = contracts
  BY DEF DeployedAt
<1>4. contracts' \in [DOMAIN contracts' -> Contract] /\ DOMAIN contracts' \subseteq Addresses
  BY <1>3 DEF ListsOK
<1> HIDE DEF array
<1> QED
  BY <1>2, <1>3, <1>4, AddListKeeps

(* The tokens of a list are token objects.                                 *)
LEMMA TokensOfType ==
  ASSUME ListsOK, NEW l \in DOMAIN lists
  PROVE  TokensOf(l) \in Seq(TokenObject) /\ lists[l] \in DOMAIN arrays
BY DEF ListsOK, TokensOf

(* Sorting replaces the array that lists share.                            *)
LEMMA SortKeeps ==
  ASSUME ListsOK, NEW l \in DOMAIN lists, Sort(l)
  PROVE  ListsOK'
<1> DEFINE k == lists[l]
           b == ByAddress(TokensOf(l))
<1>1. b \in Seq(TokenObject) /\ k \in DOMAIN arrays /\ k \in Nat
  BY TokensOfType, ByAddressType DEF ListsOK
<1>2. arrays' = [arrays EXCEPT ![k] = b] /\ lists' = Append(lists, k) /\ contracts' = contracts
  BY DEF Sort, TokensOf
<1> HIDE DEF b, k
<1>3. arrays' \in Seq(Seq(TokenObject)) /\ DOMAIN arrays' = DOMAIN arrays
  BY <1>1, <1>2, ExceptSeq DEF ListsOK
<1>4. lists' \in Seq(Nat) /\ \A m \in DOMAIN lists' : lists'[m] \in DOMAIN arrays
  BY <1>1, <1>2 DEF ListsOK
<1> QED
  BY <1>2, <1>3, <1>4 DEF ListsOK

(* A subset is a list of its own.                                          *)
LEMMA SubsetKeeps ==
  ASSUME ListsOK, NEW l \in DOMAIN lists, Subset(l, 1, 1)
  PROVE  ListsOK'
<1> DEFINE ts == TokensOf(l)
           m == Min({1 + 1, Len(ts)})
           array == SubSeq(ts, 1 + 1, m)
<1>1. ts \in Seq(TokenObject) /\ Len(ts) \in Nat
  BY TokensOfType
<1>2. m \in Nat /\ m <= Len(ts)
  <2> DEFINE S == {1 + 1, Len(ts)}
  <2>1. S \in SUBSET Nat /\ S # {} /\ Len(ts) \in S
    BY <1>1
  <2>2. m = CHOOSE x \in S : \A y \in S : x <= y
    BY DEF Min
  <2> HIDE DEF S, m
  <2>3. \E x \in S : \A y \in S : x <= y
    BY <2>1, LeastExists
  <2> QED
    BY <2>1, <2>2, <2>3
<1>3. AddList(array) /\ contracts' = contracts
  BY DEF Subset
<1> HIDE DEF m, ts
<1>4. array \in Seq(TokenObject)
  <2>1. \A i \in 1 + 1 .. m : ts[i] \in TokenObject
    BY <1>1, <1>2
  <2> QED
    BY <1>2, <2>1, SubSeqProperties
<1>5. contracts' \in [DOMAIN contracts' -> Contract] /\ DOMAIN contracts' \subseteq Addresses
  BY <1>3 DEF ListsOK
<1> HIDE DEF array
<1> QED
  BY <1>3, <1>4, <1>5, AddListKeeps

---------------------------------------------------------------------------
(* The transactions that calls send.                                       *)

Params == [to : People, from : People, amount : Int]

(* Sequences in two levels are flattened to one of their elements.         *)
LEMMA FlattenTwice ==
  ASSUME NEW S, NEW n \in Nat, NEW m \in Nat, NEW h,
         \A k \in 1 .. n, i \in 1 .. m : h[k][i] \in Seq(S)
  PROVE  FlattenSeq([k \in 1 .. n |-> FlattenSeq([i \in 1 .. m |-> h[k][i]])]) \in Seq(S)
<1>1. ASSUME NEW k \in 1 .. n
      PROVE  FlattenSeq([i \in 1 .. m |-> h[k][i]]) \in Seq(S)
  <2> DEFINE r == [i \in 1 .. m |-> h[k][i]]
  <2>1. r \in [1 .. m -> Seq(S)]
    OBVIOUS
  <2>2. r \in Seq(Seq(S))
    BY <2>1
  <2> HIDE DEF r
  <2>3. FlattenSeq(r) \in Seq(S)
    BY <2>2, FlattenType
  <2> QED
    BY <2>3 DEF r
<1> DEFINE f == [k \in 1 .. n |-> FlattenSeq([i \in 1 .. m |-> h[k][i]])]
<1>2. f \in [1 .. n -> Seq(S)]
  BY <1>1
<1> HIDE DEF f
<1>3. f \in Seq(Seq(S))
  BY <1>2
<1>4. FlattenSeq(f) \in Seq(S)
  BY <1>3, FlattenType
<1> QED
  BY <1>4 DEF f

(* A transaction has its parameters.                                       *)
LEMMA TxType ==
  ASSUME NEW t \in TokenObject, NEW q \in Params, NEW amount \in Int,
         NEW do \in {"deposit", "mint", "transfer", "burn", "approve"}
  PROVE  Tx(do, t, q, amount) \in Transaction
BY DEF Tx, TokenObject, Params, Transaction

(* What is sent for one token and one person.                              *)
LEMMA TxsTypes ==
  ASSUME NEW t \in TokenObject, NEW q \in Params
  PROVE  /\ MintTxs(t, q) \in Seq(Transaction)
         /\ ScaledMintTxs(t, q) \in Seq(Transaction)
         /\ ApproveTxs(t, q) \in Seq(Transaction)
<1>1. \A amount \in Int : OrMax(amount) \in Int
  BY TokenAssumption DEF OrMax
<1>2. ASSUME NEW tx \in Transaction
      PROVE  <<tx>> \in Seq(Transaction)
  OBVIOUS
<1>3. ASSUME NEW p \in Params
      PROVE  MintTxs(t, p) \in Seq(Transaction)
  <2>1. p.amount \in Int /\ OrMax(p.amount) \in Int
    BY <1>1 DEF Params
  <2> DEFINE deposit == Tx("deposit", t, p, p.amount)
             mint == Tx("mint", t, p, OrMax(p.amount))
  <2>2. deposit \in Transaction /\ mint \in Transaction
    BY <2>1, TxType
  <2>3. MintTxs(t, p) \in {<<deposit>>, <<>>, <<mint>>}
    BY DEF MintTxs
  <2> HIDE DEF deposit, mint
  <2>4. <<>> \in Seq(Transaction)
    OBVIOUS
  <2> QED
    BY <1>2, <2>2, <2>3, <2>4
<1>4. ScaledMintTxs(t, q) \in Seq(Transaction)
  <2> DEFINE amount == Scaled(q.amount, t.decimals)
             p == [q EXCEPT !.amount = amount]
  <2>1. q.amount \in Int /\ t.decimals \in Nat
    BY DEF Params, TokenObject
  <2>2. 10 ^ t.decimals \in Int
    BY <2>1
  <2>3. q.amount * 10 ^ t.decimals \in Int
    BY <2>1, <2>2
  <2>4. amount \in Int
    BY <2>3 DEF Scaled, NotANumber
  <2>5. ScaledMintTxs(t, q) = MintTxs(t, p)
    BY DEF ScaledMintTxs
  <2> HIDE DEF amount
  <2>6. p \in Params
    BY <2>4 DEF Params
  <2> HIDE DEF p
  <2> QED
    BY <1>3, <2>5, <2>6
<1>5. ApproveTxs(t, q) \in Seq(Transaction)
  <2> DEFINE tx == Tx("approve", t, q, OrMax(q.amount))
  <2>1. q.amount \in Int
    BY DEF Params
  <2>2. tx \in Transaction
    BY <1>1, <2>1, TxType
  <2>3. ApproveTxs(t, q) = <<tx>>
    BY DEF ApproveTxs
  <2> HIDE DEF tx
  <2> QED
    BY <1>2, <2>2, <2>3
<1> QED
  BY <1>3, <1>4, <1>5

(* What is sent for every token of a list and every person.                *)
LEMMA ForEachTypes ==
  ASSUME ListsOK, NEW l \in DOMAIN lists, NEW params \in Seq(Params)
  PROVE  /\ ForEach(l, params, MintTxs) \in Seq(Transaction)
         /\ ForEach(l, params, ScaledMintTxs) \in Seq(Transaction)
         /\ ForEach(l, params, ApproveTxs) \in Seq(Transaction)
<1> DEFINE ts == TokensOf(l)
           n == Len(params)
           m == Len(ts)
<1>1. ts \in Seq(TokenObject)
  BY TokensOfType
<1> HIDE DEF ts
<1>2. /\ n \in Nat /\ DOMAIN params = 1 .. n /\ \A k \in 1 .. n : params[k] \in Params
      /\ m \in Nat /\ DOMAIN ts = 1 .. m /\ \A i \in 1 .. m : ts[i] \in TokenObject
  BY <1>1
<1> HIDE DEF n, m
<1>3. ForEach(l, params, MintTxs) \in Seq(Transaction)
  <2> DEFINE h == [k \in 1 .. n |-> [i \in 1 .. m |-> MintTxs(ts[i], params[k])]]
  <2>1. \A k \in 1 .. n, i \in 1 .. m : h[k][i] \in Seq(Transaction)
    BY <1>2, TxsTypes
  <2>2. ForEach(l, params, MintTxs) = FlattenSeq([k \in 1 .. n |-> FlattenSeq([i \in 1 .. m |-> h[k][i]])])
    BY <1>2, Zenon DEF ForEach, ts
  <2> HIDE DEF h
  <2> QED
    BY <1>2, <2>1, <2>2, FlattenTwice
<1>4. ForEach(l, params, ScaledMintTxs) \in Seq(Transaction)
  <2> DEFINE h == [k \in 1 .. n |-> [i \in 1 .. m |-> ScaledMintTxs(ts[i], params[k])]]
  <2>1. \A k \in 1 .. n, i \in 1 .. m : h[k][i] \in Seq(Transaction)
    BY <1>2, TxsTypes
  <2>2. ForEach(l, params, ScaledMintTxs) = FlattenSeq([k \in 1 .. n |-> FlattenSeq([i \in 1 .. m |-> h[k][i]])])
    BY <1>2, Zenon DEF ForEach, ts
  <2> HIDE DEF h
  <2> QED
    BY <1>2, <2>1, <2>2, FlattenTwice
<1>5. ForEach(l, params, ApproveTxs) \in Seq(Transaction)
  <2> DEFINE h == [k \in 1 .. n |-> [i \in 1 .. m |-> ApproveTxs(ts[i], params[k])]]
  <2>1. \A k \in 1 .. n, i \in 1 .. m : h[k][i] \in Seq(Transaction)
    BY <1>2, TxsTypes
  <2>2. ForEach(l, params, ApproveTxs) = FlattenSeq([k \in 1 .. n |-> FlattenSeq([i \in 1 .. m |-> h[k][i]])])
    BY <1>2, Zenon DEF ForEach, ts
  <2> HIDE DEF h
  <2> QED
    BY <1>2, <2>1, <2>2, FlattenTwice
<1> QED
  BY <1>3, <1>4, <1>5

(* Mints as they are asked for have a receiver and a sender each.          *)
LEMMA MintParams ==
  ASSUME NEW raws \in RawMints, \A raw \in Range(raws) : IsConsistent(raw)
  PROVE  ToTokenMints(raws) \in Seq(Params)
<1> DEFINE Raw == [to : Seq(People), from : Seq(People) \ {<<>>}, each : BOOLEAN, amount : Int]
           row(k) == [i \in DOMAIN raws[k].to |->
                         [to |-> raws[k].to[i], from |-> raws[k].from[IF raws[k].each THEN i ELSE 1],
                          amount |-> raws[k].amount]]
           f == [k \in DOMAIN raws |-> row(k)]
<1>1. raws \in Seq(Raw)
  BY CallerAssumption, Zenon
<1>2. ASSUME NEW k \in DOMAIN raws
      PROVE  row(k) \in Seq(Params)
  <2> DEFINE raw == raws[k]
  <2>1. raw \in Raw /\ IsConsistent(raw)
    <3>1. raw \in Raw
      <4> HIDE DEF Raw
      <4> QED
        BY <1>1
    <3>2. raw \in Range(raws)
      BY DEF Range
    <3> QED
      BY <3>1, <3>2
  <2>2. /\ raw.to \in Seq(People) /\ raw.from \in Seq(People) /\ raw.from # <<>>
        /\ raw.each \in BOOLEAN /\ raw.amount \in Int
        /\ raw.each => Len(raw.to) = Len(raw.from)
    BY <2>1 DEF IsConsistent
  <2> HIDE DEF raw
  <2>3. ASSUME NEW i \in 1 .. Len(raw.to)
        PROVE  [to |-> raw.to[i], from |-> raw.from[IF raw.each THEN i ELSE 1], amount |-> raw.amount] \in Params
    <3> DEFINE j == IF raw.each THEN i ELSE 1
    <3>1. j \in 1 .. Len(raw.from)
      BY <2>2
    <3> HIDE DEF j
    <3>2. raw.to[i] \in People /\ raw.from[j] \in People
      BY <2>2, <3>1
    <3>3. [to |-> raw.to[i], from |-> raw.from[j], amount |-> raw.amount] \in Params
      BY <2>2, <3>2 DEF Params
    <3> QED
      BY <3>3 DEF j
  <2> DEFINE g == [i \in 1 .. Len(raw.to) |->
                     [to |-> raw.to[i], from |-> raw.from[IF raw.each THEN i ELSE 1], amount |-> raw.amount]]
  <2>4. g \in [1 .. Len(raw.to) -> Params] /\ Len(raw.to) \in Nat /\ DOMAIN raw.to = 1 .. Len(raw.to)
    BY <2>2, <2>3
  <2>5. row(k) = g
    BY <2>4 DEF raw
  <2> HIDE DEF g
  <2>6. g \in Seq(Params)
    BY <2>4
  <2> QED
    BY <2>5, <2>6
<1>3. DOMAIN raws = 1 .. Len(raws) /\ Len(raws) \in Nat
  BY <1>1
<1>4. f \in [1 .. Len(raws) -> Seq(Params)]
  <2> HIDE DEF row
  <2> QED
    BY <1>2, <1>3
<1>5. ToTokenMints(raws) = FlattenSeq(f)
  BY DEF ToTokenMints
<1> HIDE DEF f
<1>6. f \in Seq(Seq(Params))
  BY <1>3, <1>4
<1> QED
  BY <1>5, <1>6, FlattenType

(* Approvals as they are asked for, of all spenders to all owners.         *)
LEMMA ApprovalParams ==
  ASSUME NEW raw \in RawApprovals
  PROVE  ToTokenApprovals(raw) \in Seq(Params)
<1> DEFINE n == Len(raw.to)
           m == Len(raw.from)
           row(i) == [j \in DOMAIN raw.from |-> [to |-> raw.to[i], from |-> raw.from[j], amount |-> raw.amount]]
           f == [i \in DOMAIN raw.to |-> row(i)]
<1>1. raw.to \in Seq(People) /\ raw.from \in Seq(People) /\ raw.amount \in Int
  <2>1. raw \in [to : Seq(People), from : Seq(People), amount : Int]
    BY CallerAssumption, Zenon
  <2> QED
    BY <2>1
<1>2. /\ n \in Nat /\ DOMAIN raw.to = 1 .. n /\ \A i \in 1 .. n : raw.to[i] \in People
      /\ m \in Nat /\ DOMAIN raw.from = 1 .. m /\ \A j \in 1 .. m : raw.from[j] \in People
  BY <1>1
<1> HIDE DEF n, m
<1>3. ASSUME NEW i \in 1 .. n
      PROVE  row(i) \in Seq(Params)
  <2>1. \A j \in 1 .. m : [to |-> raw.to[i], from |-> raw.from[j], amount |-> raw.amount] \in Params
    BY <1>1, <1>2, <1>3 DEF Params
  <2>2. row(i) \in [1 .. m -> Params]
    BY <1>2, <2>1
  <2> HIDE DEF row
  <2> QED
    BY <1>2, <2>2
<1>4. f \in [1 .. n -> Seq(Params)]
  <2> HIDE DEF row
  <2> QED
    BY <1>2, <1>3
<1>5. ToTokenApprovals(raw) = FlattenSeq(f)
  BY DEF ToTokenApprovals
<1> HIDE DEF f
<1>6. f \in Seq(Seq(Params))
  BY <1>2, <1>4
<1> QED
  BY <1>5, <1>6, FlattenType

---------------------------------------------------------------------------
(* The invariant, and the theorem.                                         *)

BooksOK ==
    /\ held \in Books /\ owed \in Books
    /\ sending \in Seq(Transaction)

\* as long as none has failed, what is held and what is on the way is what was promised
Balanced ==
    ~rejected => \A a \in Addresses, x \in People : owed[a][x] = held[a][x] + Coming(sending, a, x)

Promises == ListsOK /\ BooksOK /\ Balanced

(* A call that sends transactions promises their effects.                  *)
LEMMA SendKeeps ==
  ASSUME Promises, NEW txs \in Seq(Transaction), Send(txs)
  PROVE  Promises'
<1>1. ListsOK'
  BY DEF Promises, ListsOK, Send, deployedTokens
<1>2. /\ sending' = sending \o txs /\ owed' = FoldSeq(Promised, owed, txs)
      /\ held' = held /\ rejected' = rejected
      /\ held \in Books /\ owed \in Books /\ sending \in Seq(Transaction)
  BY DEF Send, Promises, BooksOK
<1>3. /\ FoldSeq(Promised, owed, txs) \in Books
      /\ \A a \in Addresses, x \in People :
            FoldSeq(Promised, owed, txs)[a][x] = owed[a][x] + Coming(txs, a, x)
  BY <1>2, FoldPromises
<1>4. sending' \in Seq(Transaction)
  BY <1>2, ConcatProperties
<1>5. BooksOK'
  BY <1>2, <1>3, <1>4 DEF BooksOK
<1>6. ASSUME ~rejected', NEW a \in Addresses, NEW x \in People
      PROVE  owed'[a][x] = held'[a][x] + Coming(sending', a, x)
  <2>1. owed[a][x] = held[a][x] + Coming(sending, a, x)
    BY <1>2, <1>6 DEF Promises, Balanced
  <2>2. held[a][x] \in Int
    BY <1>2 DEF Books
  <2>3. /\ Coming(sending, a, x) \in Int /\ Coming(txs, a, x) \in Int
        /\ Coming(sending \o txs, a, x) = Coming(sending, a, x) + Coming(txs, a, x)
    BY <1>2, ComingConcat
  <2>4. owed'[a][x] = owed[a][x] + Coming(txs, a, x)
    BY <1>2, <1>3
  <2> QED
    BY <1>2, <2>1, <2>2, <2>3, <2>4
<1>7. Balanced'
  BY <1>6 DEF Balanced
<1> QED
  BY <1>1, <1>5, <1>7 DEF Promises

(* The calls that send transactions.                                       *)
LEMMA CallsKeep ==
  ASSUME Promises, NEW l \in DOMAIN lists,
         \/ \E raws \in RawMints : MintTokens(l, raws) \/ MintScaled(l, raws)
         \/ \E raw \in RawApprovals : ApproveTokens(l, raw)
         \/ \E p \in Spends :
               \/ Spend("transfer", l, FindIndexBySymbol(l, "WETH"), p)
               \/ Spend("burn", l, 1, p)
  PROVE  Promises'
<1>0. ListsOK
  BY DEF Promises
<1>1. ASSUME NEW raws \in RawMints, MintTokens(l, raws) \/ MintScaled(l, raws)
      PROVE  Promises'
  <2>1. \A raw \in Range(raws) : IsConsistent(raw)
    BY <1>1 DEF MintTokens, MintScaled
  <2>2. ToTokenMints(raws) \in Seq(Params)
    BY <2>1, MintParams
  <2> DEFINE plain == ForEach(l, ToTokenMints(raws), MintTxs)
             scaled == ForEach(l, ToTokenMints(raws), ScaledMintTxs)
  <2>3. plain \in Seq(Transaction) /\ scaled \in Seq(Transaction)
    BY <1>0, <2>2, ForEachTypes
  <2>4. Send(plain) \/ Send(scaled)
    BY <1>1 DEF MintTokens, MintScaled
  <2> HIDE DEF plain, scaled
  <2> QED
    BY <2>3, <2>4, SendKeeps
<1>2. ASSUME NEW raw \in RawApprovals, ApproveTokens(l, raw)
      PROVE  Promises'
  <2> DEFINE txs == ForEach(l, ToTokenApprovals(raw), ApproveTxs)
  <2>1. txs \in Seq(Transaction)
    BY <1>0, ApprovalParams, ForEachTypes
  <2>2. Send(txs)
    BY <1>2 DEF ApproveTokens
  <2> HIDE DEF txs
  <2> QED
    BY <2>1, <2>2, SendKeeps
<1>3. ASSUME NEW p \in Spends, NEW do \in {"transfer", "burn"}, NEW i, Spend(do, l, i, p)
      PROVE  Promises'
  <2> DEFINE t == Get(l, i)
             tx == Tx(do, t, p, p.amount)
             txs == <<tx>>
  <2>1. p \in Params /\ p.amount \in Int
    <3>1. p \in [from : People, to : People, amount : Int]
      BY CallerAssumption, Zenon
    <3> QED
      BY <3>1 DEF Params
  <2>2. t \in TokenObject
    <3>1. TokensOf(l) \in Seq(TokenObject) /\ i \in 0 .. Len(TokensOf(l)) - 1
      BY <1>0, <1>3, TokensOfType DEF Spend
    <3> QED
      BY <3>1 DEF Get
  <2>3. Send(txs)
    BY <1>3 DEF Spend
  <2> HIDE DEF t
  <2>4. tx \in Transaction
    BY <2>1, <2>2, TxType
  <2> HIDE DEF tx
  <2>5. txs \in Seq(Transaction)
    BY <2>4
  <2> HIDE DEF txs
  <2> QED
    BY <2>3, <2>5, SendKeeps
<1> QED
  BY <1>1, <1>2, <1>3

(* A transaction that is mined does its effect, or leaves the rest of it   *)
(* to the one it is followed by.                                           *)
LEMMA MineKeeps ==
  ASSUME Promises, NEW i \in DOMAIN sending, NEW do, NEW balances \in Books,
         NEW next \in Seq(Transaction), Mine(i, do, balances, next),
         \A a \in Addresses, x \in People :
            balances[a][x] + Coming(next, a, x) = held[a][x] + Effect(sending[i], a, x)
  PROVE  Promises'
<1> DEFINE rest == RemoveAt(sending, i)
<1>1. /\ sending' = rest \o next /\ held' = balances /\ owed' = owed /\ rejected' = rejected
      /\ held \in Books /\ owed \in Books /\ sending \in Seq(Transaction)
  BY DEF Mine, Promises, BooksOK
<1>2. ListsOK'
  BY DEF Promises, ListsOK, Mine, deployedTokens
<1>3. rest \in Seq(Transaction)
  BY <1>1, ComingWithout
<1>4. ASSUME ~rejected', NEW a \in Addresses, NEW x \in People
      PROVE  owed'[a][x] = held'[a][x] + Coming(sending', a, x)
  <2>1. owed[a][x] = held[a][x] + Coming(sending, a, x)
    BY <1>1, <1>4 DEF Promises, Balanced
  <2>2. held[a][x] \in Int /\ balances[a][x] \in Int
    BY <1>1 DEF Books
  <2>3. /\ Coming(sending, a, x) \in Int /\ Coming(rest, a, x) \in Int
        /\ Coming(sending, a, x) = Coming(rest, a, x) + Effect(sending[i], a, x)
    BY <1>1, ComingWithout
  <2> HIDE DEF rest
  <2>4. /\ Coming(next, a, x) \in Int
        /\ Coming(rest \o next, a, x) = Coming(rest, a, x) + Coming(next, a, x)
    BY <1>3, ComingConcat
  <2>5. Effect(sending[i], a, x) \in Int
    <3>1. sending[i] \in Transaction
      BY <1>1
    <3> QED
      BY <3>1, EffectType
  <2>6. balances[a][x] + Coming(next, a, x) = held[a][x] + Effect(sending[i], a, x)
    OBVIOUS
  <2>7. owed[a][x] = balances[a][x] + (Coming(rest, a, x) + Coming(next, a, x))
    <3> DEFINE o == owed[a][x]
               h == held[a][x]
               b == balances[a][x]
               cs == Coming(sending, a, x)
               cr == Coming(rest, a, x)
               cn == Coming(next, a, x)
               e == Effect(sending[i], a, x)
    <3>1. /\ h \in Int /\ b \in Int /\ cs \in Int /\ cr \in Int /\ cn \in Int /\ e \in Int
          /\ o = h + cs /\ cs = cr + e /\ b + cn = h + e
      BY <2>1, <2>2, <2>3, <2>4, <2>5, <2>6
    <3> HIDE DEF o, h, b, cs, cr, cn, e
    <3>2. o = b + (cr + cn)
      BY <3>1
    <3> QED
      BY <3>2 DEF o, b, cr, cn
  <2> QED
    BY <1>1, <2>4, <2>7
<1> HIDE DEF rest
<1>5. sending' \in Seq(Transaction)
  BY <1>1, <1>3, ConcatProperties
<1>6. BooksOK'
  BY <1>1, <1>5 DEF BooksOK
<1>7. Balanced'
  BY <1>4 DEF Balanced
<1> QED
  BY <1>2, <1>6, <1>7 DEF Promises

(* Each kind of transaction, when it is mined.                             *)
LEMMA MinedKeeps ==
  ASSUME Promises, NEW i \in DOMAIN sending,
         Deposit(i) \/ MineMint(i) \/ MineTransfer(i) \/ MineBurn(i)
  PROVE  Promises'
<1> DEFINE tx == sending[i]
<1>1. /\ tx \in Transaction /\ held \in Books
      /\ \A a \in Addresses, x \in People : held[a][x] \in Int
  BY DEF Promises, BooksOK, Books
<1>2. /\ tx.from \in People /\ tx.to \in People /\ tx.amount \in Int /\ -tx.amount \in Int
  BY <1>1 DEF Transaction
<1>3. <<>> \in Seq(Transaction) /\ \A a \in Addresses, x \in People : Coming(<<>>, a, x) = 0
  <2>1. DOMAIN <<>> = {} /\ <<>> \in Seq(Transaction)
    OBVIOUS
  <2> QED
    BY <2>1, SumEmpty DEF Coming
<1>4. ASSUME Deposit(i)
      PROVE  Promises'
  <2> DEFINE b == Plus(held, tx, tx.from, tx.amount)
             t == [tx EXCEPT !.do = "transfer"]
             next == <<t>>
  <2>1. Mine(i, "deposit", b, next) /\ tx.do = "deposit"
    BY <1>4 DEF Deposit, Deposited, Mine
  <2> DEFINE y == tx.from
             more == tx.amount
  <2>2. b \in Books /\ \A a \in Addresses, x \in People :
           b[a][x] = held[a][x] + (IF tx.address = a /\ tx.from = x THEN tx.amount ELSE 0)
    <3>1. y \in People /\ more \in Int
      BY <1>2
    <3> HIDE DEF y, more, tx
    <3>2. /\ Plus(held, tx, y, more) \in Books
          /\ \A a \in Addresses, x \in People :
                Plus(held, tx, y, more)[a][x] = held[a][x] + (IF tx.address = a /\ y = x THEN more ELSE 0)
      BY <1>1, <3>1, PlusIs
    <3> QED
      BY <3>2 DEF y, more
  <2> HIDE DEF b
  <2>3. t \in Transaction /\ t.do = "transfer" /\ t.amount = tx.amount /\ t.to = tx.to
        /\ t.from = tx.from /\ t.address = tx.address
    BY <1>1 DEF Transaction
  <2> HIDE DEF t, tx
  <2>4. next \in Seq(Transaction)
    BY <2>3
  <2>5. ASSUME NEW a \in Addresses, NEW x \in People
        PROVE  b[a][x] + Coming(next, a, x) = held[a][x] + Effect(tx, a, x)
    <3>1. Coming(next, a, x) = Effect(t, a, x)
      BY <2>3, ComingFew
    <3>2. Effect(t, a, x) = (IF tx.address = a /\ tx.to = x THEN tx.amount ELSE 0)
                              - (IF tx.address = a /\ tx.from = x THEN tx.amount ELSE 0)
      BY <2>3 DEF Effect
    <3>3. Effect(tx, a, x) = IF tx.address = a /\ tx.to = x THEN tx.amount ELSE 0
      BY <1>2, <2>1 DEF Effect
    <3>4. b[a][x] = held[a][x] + (IF tx.address = a /\ tx.from = x THEN tx.amount ELSE 0)
      BY <2>2
    <3> QED
      BY <1>1, <1>2, <3>1, <3>2, <3>3, <3>4
  <2> HIDE DEF next
  <2> QED
    BY <2>1, <2>2, <2>4, <2>5, MineKeeps DEF tx
<1>5. ASSUME NEW do, NEW b \in Books, Mine(i, do, b, <<>>),
             \A a \in Addresses, x \in People : b[a][x] = held[a][x] + Effect(tx, a, x)
      PROVE  Promises'
  <2>1. \A a \in Addresses, x \in People : b[a][x] + Coming(<<>>, a, x) = held[a][x] + Effect(tx, a, x)
    <3>1. \A a \in Addresses, x \in People : b[a][x] \in Int
      BY DEF Books
    <3> QED
      BY <1>3, <1>5, <3>1
  <2> QED
    BY <1>3, <1>5, <2>1, MineKeeps
<1>6. Promised(tx, held) \in Books
      /\ \A a \in Addresses, x \in People : Promised(tx, held)[a][x] = held[a][x] + Effect(tx, a, x)
  BY <1>1, PromisedIs
<1>7. ASSUME MineMint(i)
      PROVE  Promises'
  <2>1. Mine(i, "mint", Promised(tx, held), <<>>)
    BY <1>7 DEF MineMint, Mine, Promised
  <2> QED
    BY <1>5, <1>6, <2>1
<1>8. ASSUME MineTransfer(i)
      PROVE  Promises'
  <2>1. Mine(i, "transfer", Promised(tx, held), <<>>)
    BY <1>8 DEF MineTransfer, Mine, Promised
  <2> QED
    BY <1>5, <1>6, <2>1
<1>9. ASSUME MineBurn(i)
      PROVE  Promises'
  <2>1. Mine(i, "burn", Promised(tx, held), <<>>)
    BY <1>9 DEF MineBurn, Mine, Promised
  <2> QED
    BY <1>5, <1>6, <2>1
<1> QED
  BY <1>4, <1>7, <1>8, <1>9

(* An approval moves nothing; a transaction that fails is remembered.      *)
LEMMA OthersKeep ==
  ASSUME Promises, NEW i \in DOMAIN sending, MineApproval(i) \/ Reject(i)
  PROVE  Promises'
<1> DEFINE rest == RemoveAt(sending, i)
<1>1. /\ sending' = rest /\ held' = held /\ owed' = owed
      /\ held \in Books /\ owed \in Books /\ sending \in Seq(Transaction)
  BY DEF MineApproval, Reject, Promises, BooksOK
<1>2. ListsOK'
  BY DEF Promises, ListsOK, MineApproval, Reject, deployedTokens
<1>3. rest \in Seq(Transaction)
  BY <1>1, ComingWithout
<1>4. BooksOK'
  BY <1>1, <1>3 DEF BooksOK
<1>5. CASE MineApproval(i)
  <2>1. sending[i].do = "approve" /\ rejected' = rejected /\ sending[i] \in Transaction
    BY <1>1, <1>5 DEF MineApproval
  <2>2. \A a \in Addresses, x \in People : Effect(sending[i], a, x) = 0
    BY <2>1 DEF Effect, Transaction
  <2>3. ASSUME ~rejected', NEW a \in Addresses, NEW x \in People
        PROVE  owed'[a][x] = held'[a][x] + Coming(sending', a, x)
    <3>1. owed[a][x] = held[a][x] + Coming(sending, a, x)
      BY <2>1, <2>3 DEF Promises, Balanced
    <3>2. /\ Coming(sending, a, x) \in Int /\ Coming(rest, a, x) \in Int
          /\ Coming(sending, a, x) = Coming(rest, a, x) + Effect(sending[i], a, x)
      BY <1>1, ComingWithout
    <3> QED
      BY <1>1, <2>2, <3>1, <3>2
  <2>4. Balanced'
    BY <2>3 DEF Balanced
  <2> QED
    BY <1>2, <1>4, <2>4 DEF Promises
<1>6. CASE Reject(i)
  <2>1. Balanced'
    BY <1>6 DEF Reject, Balanced
  <2> QED
    BY <1>2, <1>4, <2>1 DEF Promises
<1> QED
  BY <1>5, <1>6

(* A call that sends no transaction.                                       *)
LEMMA QuietKeeps ==
  ASSUME Promises, ListsOK', UNCHANGED transactions
  PROVE  Promises'
BY DEF Promises, BooksOK, Balanced, transactions

(* Nothing is promised at first.                                           *)
LEMMA PromisesInitially == ASSUME TokenListInit
                           PROVE  Promises
<1> USE DEF TokenListInit, TokenListInitAfter
<1>1. ListsOK
  <2>1. arrays \in Seq(Seq(TokenObject)) /\ lists \in Seq(Nat) /\ DOMAIN lists = {}
    OBVIOUS
  <2>2. contracts \in [DOMAIN contracts -> Contract] /\ DOMAIN contracts = {}
    OBVIOUS
  <2> QED
    BY <2>1, <2>2 DEF ListsOK
<1>2. BooksOK
  BY DEF BooksOK, Books
<1>3. \A a \in Addresses, x \in People : Coming(sending, a, x) = 0
  <2>1. DOMAIN sending = {}
    OBVIOUS
  <2> QED
    BY <2>1, SumEmpty DEF Coming
<1>4. Balanced
  BY <1>3 DEF Balanced
<1> QED
  BY <1>1, <1>2, <1>4 DEF Promises

(* Every step keeps the promises.                                          *)
LEMMA PromisesKept ==
  ASSUME Promises, [TokenListNext]_tokenListVars
  PROVE  Promises'
<1>0. ListsOK
  BY DEF Promises
<1>1. ASSUME NEW i \in DOMAIN sending,
             \/ Deposit(i) \/ MineMint(i) \/ MineTransfer(i) \/ MineBurn(i) \/ MineApproval(i)
             \/ Reject(i)
      PROVE  Promises'
  BY <1>1, MinedKeeps, OthersKeep
<1>2. ASSUME NEW params \in Deployments, NEW sorted \in BOOLEAN, NEW vary \in BOOLEAN,
             Create(params, sorted, vary)
      PROVE  Promises'
  <2>1. UNCHANGED transactions
    BY <1>2 DEF Create
  <2> QED
    BY <1>0, <1>2, <2>1, CreateKeeps, QuietKeeps
<1>3. ASSUME NEW a \in Addresses, DeployedAt(a)
      PROVE  Promises'
  <2>1. UNCHANGED transactions
    BY <1>3 DEF DeployedAt
  <2> QED
    BY <1>0, <1>3, <2>1, DeployedAtKeeps, QuietKeeps
<1>4. ASSUME NEW l \in DOMAIN lists, Sort(l) \/ Subset(l, 1, 1)
      PROVE  Promises'
  <2>1. UNCHANGED transactions
    BY <1>4 DEF Sort, Subset
  <2> QED
    BY <1>0, <1>4, <2>1, SortKeeps, SubsetKeeps, QuietKeeps
<1>5. ASSUME NEW l \in DOMAIN lists,
             \/ \E raws \in RawMints : MintTokens(l, raws) \/ MintScaled(l, raws)
             \/ \E raw \in RawApprovals : ApproveTokens(l, raw)
             \/ \E p \in Spends :
                   \/ Spend("transfer", l, FindIndexBySymbol(l, "WETH"), p)
                   \/ Spend("burn", l, 1, p)
      PROVE  Promises'
  BY <1>5, CallsKeep
<1>6. ASSUME MakeRequest \/ UNCHANGED tokenListVars
      PROVE  Promises'
  <2>1. UNCHANGED transactions /\ UNCHANGED deployedTokens
    BY <1>6 DEF MakeRequest, tokenListVars
  <2>2. ListsOK'
    BY <1>0, <2>1 DEF ListsOK, deployedTokens
  <2> QED
    BY <2>1, <2>2, QuietKeeps
<1> QED
  BY <1>1, <1>2, <1>3, <1>4, <1>5, <1>6 DEF TokenListNext

(* With no transaction on the way everybody has what was promised.         *)
LEMMA PromisesArrive == ASSUME Promises
                        PROVE  MintsArrive
<1> SUFFICES ASSUME sending = <<>>, ~rejected
             PROVE  held = owed
  BY DEF MintsArrive
<1>1. \A a \in Addresses, x \in People : Coming(sending, a, x) = 0
  <2>1. DOMAIN sending = {}
    OBVIOUS
  <2> QED
    BY <2>1, SumEmpty DEF Coming
<1>2. /\ held \in [Addresses -> [People -> Int]] /\ owed \in [Addresses -> [People -> Int]]
  BY DEF Promises, BooksOK, Books
<1>3. \A a \in Addresses, x \in People : owed[a][x] = held[a][x]
  BY <1>1, <1>2 DEF Promises, Balanced
<1>4. \A a \in Addresses : owed[a] = held[a]
  <2>1. \A a \in Addresses : owed[a] \in [People -> Int] /\ held[a] \in [People -> Int]
    BY <1>2
  <2> QED
    BY <1>3, <2>1
<1> QED
  BY <1>2, <1>4

(* However the transactions of all calls are mined, with the calls of      *)
(* others in between, when none is left and none has failed everybody has  *)
(* what the calls promised, for any tokens, people, lists and amounts      *)
(* (TokenList.mint, mintScaled; Token.mint, transfer, burn).               *)
THEOREM MintsAlwaysArrive ==
  TokenListInit /\ [][TokenListNext]_tokenListVars => []MintsArrive
<1>1. TokenListInit => Promises
  BY PromisesInitially
<1>2. Promises /\ [TokenListNext]_tokenListVars => Promises'
  BY PromisesKept
<1>3. Promises => MintsArrive
  BY PromisesArrive
<1> QED
  BY <1>1, <1>2, <1>3, PTL

---------------------------------------------------------------------------
(* The weights of a Pool.                                                  *)

(* A quotient rounded down, times its divisor, is short of the dividend by *)
(* less than the divisor.                                                  *)
LEMMA QuotientBounds ==
  ASSUME NEW x \in Nat, NEW d \in Nat \ {0}
  PROVE  x \div d \in Nat /\ 0 <= x - d * (x \div d) /\ x - d * (x \div d) < d
OBVIOUS

(* n times the same.                                                       *)
LEMMA SumOfFill ==
  ASSUME NEW n \in Nat, NEW x \in Int
  PROVE  Fill(n, x) \in Seq(Int) /\ Len(Fill(n, x)) = n /\ SumOfSeq(Fill(n, x)) = n * x
<1> DEFINE one == [i \in 1 .. n |-> 1]
           f == Fill(n, x)
           T == {k \in 0 .. n : SumOf(one, 1 .. k) = k}
<1>1. f \in [1 .. n -> Int] /\ DOMAIN f = 1 .. n /\ f \in Seq(Int) /\ Len(f) = n
  BY DEF Fill
<1>2. \A i \in 1 .. n : one[i] = 1 /\ one[i] \in Int /\ f[i] = one[i] * x
  BY DEF Fill
<1> HIDE DEF one, f
<1>3. 0 \in T
  <2>1. 1 .. 0 = {}
    OBVIOUS
  <2> QED
    BY <2>1, SumEmpty
<1>4. ASSUME NEW k \in 0 .. n, k + 1 \in 0 .. n, k \in T
      PROVE  k + 1 \in T
  <2>1. k \in Nat /\ \A i \in 1 .. k + 1 : one[i] \in Int
    BY <1>2, <1>4
  <2>2. SumOf(one, 1 .. k + 1) = SumOf(one, 1 .. k) + one[k + 1]
    BY <2>1, SumUpToNext
  <2> QED
    BY <1>2, <1>4, <2>1, <2>2
<1> HIDE DEF T
<1>5. n \in T
  <2>1. 0 .. n \subseteq T
    BY <1>3, <1>4, UpTo
  <2> QED
    BY <2>1
<1>6. SumOf(one, 1 .. n) = n
  BY <1>5 DEF T
<1>7. SumOf(f, 1 .. n) = SumOf(one, 1 .. n) * x
  <2>1. IsFiniteSet(1 .. n)
    BY FS_Interval
  <2> QED
    BY <1>2, <2>1, SumOfMultiples
<1> QED
  BY <1>1, <1>6, <1>7, SumOfSeqIs DEF f

(* The sum of all but the last, and the last.                              *)
LEMMA SumOfLast ==
  ASSUME NEW s \in Seq(Int), Len(s) > 0
  PROVE  /\ SumOf(s, 1 .. Len(s) - 1) \in Int
         /\ SumOfSeq(s) = SumOf(s, 1 .. Len(s) - 1) + s[Len(s)]
<1> DEFINE m == Len(s) - 1
<1>1. m \in Nat /\ m + 1 = Len(s) /\ DOMAIN s = 1 .. m + 1 /\ \A i \in 1 .. m + 1 : s[i] \in Int
  OBVIOUS
<1> HIDE DEF m
<1>2. SumOf(s, 1 .. m) \in Int /\ SumOf(s, 1 .. m + 1) = SumOf(s, 1 .. m) + s[m + 1]
  BY <1>1, SumUpToNext
<1> QED
  BY <1>1, <1>2, SumOfSeqIs DEF m

Share(w, i) == (w[i] * WEI) \div SumOfSeq(w)

\* the first m of the weights w, in parts of a whole of `total`
Shares(w, m) == [i \in 1 .. m |-> Share(w, i)]

(* Each share is its weight's part of the whole, rounded down; what all of *)
(* them lost in rounding is at most a unit each.                           *)
LEMMA SharesRound ==
  ASSUME NEW w \in Seq(Nat), NEW m \in Nat, m <= Len(w), NEW total \in Nat \ {0},
         total = SumOfSeq(w)
  PROVE  /\ Shares(w, m) \in [1 .. m -> Nat]
         /\ \A i \in 1 .. m : /\ 0 <= w[i] * WEI - total * Share(w, i)
                              /\ w[i] * WEI - total * Share(w, i) < total
         /\ SumOf(Shares(w, m), 1 .. m) \in Int /\ SumOf(w, 1 .. m) \in Int
         /\ 0 <= SumOf(w, 1 .. m) * WEI - total * SumOf(Shares(w, m), 1 .. m)
         /\ SumOf(w, 1 .. m) * WEI - total * SumOf(Shares(w, m), 1 .. m) <= m * total
<1> DEFINE s == Shares(w, m)
           lost(k) == SumOf(w, 1 .. k) * WEI - total * SumOf(s, 1 .. k)
           T == {k \in 0 .. m : 0 <= lost(k) /\ lost(k) <= k * total}
<1>1. WEI \in Nat /\ \A i \in 1 .. m : w[i] \in Nat
  BY TokenAssumption
<1>2. ASSUME NEW i \in 1 .. m
      PROVE  /\ s[i] = Share(w, i) /\ s[i] \in Nat
             /\ 0 <= w[i] * WEI - total * s[i] /\ w[i] * WEI - total * s[i] < total
  <2> DEFINE x == w[i] * WEI
  <2>1. x \in Nat
    BY <1>1
  <2>2. s[i] = x \div total /\ s[i] = Share(w, i)
    BY DEF Shares, Share
  <2> HIDE DEF x, s
  <2>3. /\ x \div total \in Nat
        /\ 0 <= x - total * (x \div total) /\ x - total * (x \div total) < total
    BY <2>1, QuotientBounds
  <2> QED
    BY <2>2, <2>3 DEF x
<1>3. s \in [1 .. m -> Nat]
  <2>1. s = [i \in 1 .. m |-> s[i]]
    BY DEF Shares
  <2> HIDE DEF s
  <2> QED
    BY <1>2, <2>1
<1> HIDE DEF s
<1>4. \A k \in 0 .. m : SumOf(s, 1 .. k) \in Int /\ SumOf(w, 1 .. k) \in Int
  <2> SUFFICES ASSUME NEW k \in 0 .. m
               PROVE  SumOf(s, 1 .. k) \in Int /\ SumOf(w, 1 .. k) \in Int
    OBVIOUS
  <2>1. IsFiniteSet(1 .. k)
    BY FS_Interval
  <2>2. \A i \in 1 .. k : s[i] \in Int /\ w[i] \in Int
    BY <1>1, <1>3
  <2> QED
    BY <2>1, <2>2, SumOfInt
<1>5. 0 \in T
  <2>1. 1 .. 0 = {}
    OBVIOUS
  <2>2. SumOf(s, 1 .. 0) = 0 /\ SumOf(w, 1 .. 0) = 0
    BY <2>1, SumEmpty
  <2>3. lost(0) = 0
    BY <1>1, <2>2
  <2> HIDE DEF lost
  <2> QED
    BY <2>3
<1>6. ASSUME NEW k \in 0 .. m, k + 1 \in 0 .. m, k \in T
      PROVE  k + 1 \in T
  <2>1. k \in Nat /\ k + 1 \in 1 .. m /\ \A i \in 1 .. k + 1 : s[i] \in Int /\ w[i] \in Int
    BY <1>1, <1>3, <1>6
  <2>2. /\ SumOf(s, 1 .. k + 1) = SumOf(s, 1 .. k) + s[k + 1]
        /\ SumOf(w, 1 .. k + 1) = SumOf(w, 1 .. k) + w[k + 1]
    BY <2>1, SumUpToNext
  <2> DEFINE a == SumOf(w, 1 .. k)
             b == SumOf(s, 1 .. k)
             x == w[k + 1]
             y == s[k + 1]
  <2>3. a \in Int /\ b \in Int /\ x \in Int /\ y \in Int
    BY <1>4, <2>1
  <2>4. 0 <= x * WEI - total * y /\ x * WEI - total * y < total
    BY <1>2, <2>1
  <2>5. 0 <= a * WEI - total * b /\ a * WEI - total * b <= k * total
    BY <1>6
  <2>6. lost(k + 1) = (a + x) * WEI - total * (b + y)
    BY <2>2
  <2> HIDE DEF a, b, x, y, lost
  <2>7. /\ (a + x) * WEI = a * WEI + x * WEI /\ total * (b + y) = total * b + total * y
        /\ (k + 1) * total = k * total + total
    BY <1>1, <2>1, <2>3
  <2>8. /\ a * WEI \in Int /\ x * WEI \in Int /\ total * b \in Int /\ total * y \in Int
        /\ k * total \in Int
    BY <1>1, <2>1, <2>3
  <2>9. lost(k + 1) = (a * WEI - total * b) + (x * WEI - total * y)
    BY <2>6, <2>7, <2>8
  <2>10. 0 <= lost(k + 1) /\ lost(k + 1) <= (k + 1) * total
    <3> DEFINE d == a * WEI - total * b
               e == x * WEI - total * y
               f == k * total
    <3>1. d \in Int /\ e \in Int /\ f \in Int /\ 0 <= e /\ e < total /\ 0 <= d /\ d <= f
      BY <2>4, <2>5, <2>8
    <3>2. lost(k + 1) = d + e /\ (k + 1) * total = f + total
      BY <2>7, <2>9
    <3> HIDE DEF d, e, f
    <3> QED
      BY <3>1, <3>2
  <2> QED
    BY <1>6, <2>10
<1> HIDE DEF lost, T
<1>7. m \in T
  <2>1. 0 .. m \subseteq T
    BY <1>5, <1>6, UpTo
  <2> QED
    BY <2>1
<1>8. 0 <= lost(m) /\ lost(m) <= m * total
  BY <1>7 DEF T
<1>9. \A i \in 1 .. m : Share(w, i) = s[i]
  BY <1>2
<1>10. m \in 0 .. m
  OBVIOUS
<1>11. /\ \A i \in 1 .. m : /\ 0 <= w[i] * WEI - total * Share(w, i)
                             /\ w[i] * WEI - total * Share(w, i) < total
  BY <1>2, <1>9
<1>12. SumOf(s, 1 .. m) \in Int /\ SumOf(w, 1 .. m) \in Int
  BY <1>4, <1>10
<1>13. /\ 0 <= SumOf(w, 1 .. m) * WEI - total * SumOf(s, 1 .. m)
       /\ SumOf(w, 1 .. m) * WEI - total * SumOf(s, 1 .. m) <= m * total
  BY <1>8 DEF lost
<1> QED
  BY <1>3, <1>11, <1>12, <1>13 DEF s

(* Cross products of two rounded shares: the whole is divided by `total`,  *)
(* and the asked proportions are the weights up to a common factor.        *)
LEMMA SharesInProportion ==
  ASSUME NEW n \in Nat, n > 0, NEW total \in Nat \ {0}, NEW c \in Nat \ {0},
         NEW x \in Int, NEW y \in Int, NEW a \in Nat, NEW b \in Nat,
         total * x - (c * a) * WEI <= n * total,
         (c * b) * WEI - total * y <= total
  PROVE  x * b - y * a <= n * (a + b)
<1>0. WEI \in Nat
  BY TokenAssumption
<1> DEFINE u == (c * a) * WEI
           v == (c * b) * WEI
<1>1. u \in Int /\ v \in Int /\ u * b = v * a
  <2>1. u = (c * WEI) * a /\ v = (c * WEI) * b /\ c * WEI \in Int
    BY <1>0
  <2> DEFINE e == c * WEI
  <2> HIDE DEF e, u, v
  <2>2. e \in Int /\ u = e * a /\ v = e * b
    BY <2>1 DEF e
  <2> QED
    BY <2>2
<1>2. total * x - u <= n * total /\ v - total * y <= total
  OBVIOUS
<1> HIDE DEF u, v
<1>3. (total * x - u) * b <= (n * total) * b
  <2> DEFINE p == n * total - (total * x - u)
  <2>1. p \in Nat
    BY <1>1, <1>2
  <2>2. p * b >= 0
    <3> HIDE DEF p
    <3> QED
      BY <2>1
  <2>3. p * b = (n * total) * b - (total * x - u) * b
    BY <1>1
  <2>4. (n * total) * b \in Int /\ (total * x - u) * b \in Int
    BY <1>1
  <2> HIDE DEF p
  <2> QED
    BY <2>2, <2>3, <2>4
<1>4. (v - total * y) * a <= total * a
  <2> DEFINE p == total - (v - total * y)
  <2>1. p \in Nat
    BY <1>1, <1>2
  <2>2. p * a >= 0
    <3> HIDE DEF p
    <3> QED
      BY <2>1
  <2>3. p * a = total * a - (v - total * y) * a
    BY <1>1
  <2>4. total * a \in Int /\ (v - total * y) * a \in Int
    BY <1>1
  <2> HIDE DEF p
  <2> QED
    BY <2>2, <2>3, <2>4
<1>5. total * a <= n * (total * a)
  <2>1. total * a \in Nat
    OBVIOUS
  <2> DEFINE g == total * a
  <2> HIDE DEF g
  <2>2. g \in Nat => g <= n * g
    OBVIOUS
  <2> QED
    BY <2>1, <2>2 DEF g
<1>6. (total * x - u) * b + (v - total * y) * a = total * (x * b - y * a)
  <2>1. (total * x - u) * b = total * (x * b) - u * b
    BY <1>1
  <2>2. (v - total * y) * a = v * a - total * (y * a)
    BY <1>1
  <2>3. total * (x * b - y * a) = total * (x * b) - total * (y * a)
    OBVIOUS
  <2>4. total * (x * b) \in Int /\ total * (y * a) \in Int /\ u * b \in Int /\ v * a \in Int
    BY <1>1
  <2> QED
    BY <1>1, <2>1, <2>2, <2>3, <2>4
<1>7. n * (total * a) + (n * total) * b = total * (n * (a + b))
  OBVIOUS
<1>8. total * (x * b - y * a) <= total * (n * (a + b))
  <2>1. /\ total * (x * b - y * a) \in Int /\ total * (n * (a + b)) \in Int
        /\ (total * x - u) * b \in Int /\ (v - total * y) * a \in Int
        /\ (n * total) * b \in Int /\ total * a \in Int /\ n * (total * a) \in Int
    BY <1>1
  <2> QED
    BY <1>3, <1>4, <1>5, <1>6, <1>7, <2>1
<1> DEFINE f == x * b - y * a
           g == n * (a + b)
<1>9. f \in Int /\ g \in Int /\ total * f <= total * g
  BY <1>8
<1> HIDE DEF f, g
<1>10. f <= g
  <2> SUFFICES ASSUME g + 1 <= f
               PROVE  FALSE
    BY <1>9
  <2>1. f - g \in Nat /\ f - g > 0
    BY <1>9
  <2> DEFINE h == f - g
  <2>2. total * f = total * g + total * h
    BY <1>9
  <2>3. total * h > 0
    <3> HIDE DEF h
    <3>1. h \in Nat /\ h > 0
      BY <2>1 DEF h
    <3> QED
      BY <3>1
  <2> HIDE DEF h
  <2>4. total * f \in Int /\ total * g \in Int /\ total * h \in Int
    BY <1>9, <2>1 DEF h
  <2> QED
    BY <1>9, <2>2, <2>3, <2>4
<1> QED
  BY <1>10 DEF f, g

\* the weights w are `asked`, up to a factor
ProportionalTo(w, asked) ==
    /\ \A i \in DOMAIN w : asked[i] \in Nat
    /\ \E c \in Nat \ {0} : \A i \in DOMAIN w : w[i] = c * asked[i]

(* The normalized weights, of which the last takes what the others leave.  *)
LEMMA DividedWeights ==
  ASSUME NEW w \in Seq(Nat), Len(w) > 0, Len(w) > 1 => SumOfSeq(w) > 0, NEW share,
         share = [i \in 1 .. Len(w) - 1 |-> (w[i] * WEI) \div SumOfSeq(w)],
         NEW r, r = Append(share, WEI - SumOfSeq(share))
  PROVE  /\ r \in Seq(Int) /\ Len(r) = Len(w) /\ SumOfSeq(r) = WEI
         /\ Len(w) > 1 => \A i \in 1 .. Len(w) :
                /\ SumOfSeq(w) * r[i] - w[i] * WEI <= Len(w) * SumOfSeq(w)
                /\ w[i] * WEI - SumOfSeq(w) * r[i] <= SumOfSeq(w)
<1> DEFINE n == Len(w)
           m == n - 1
           total == SumOfSeq(w)
<1>1. /\ n \in Nat /\ m \in Nat /\ n = m + 1 /\ m <= Len(w) /\ WEI \in Int /\ w \in Seq(Int)
      /\ \A i \in 1 .. n : w[i] \in Nat
  BY TokenAssumption
<1>2. total = SumOf(w, 1 .. m) + w[n] /\ SumOf(w, 1 .. m) \in Int
  BY <1>1, SumOfLast
<1>3. total \in Int /\ (n > 1 => total \in Nat \ {0})
  BY <1>1, <1>2
<1>4. share = Shares(w, m)
  BY DEF Shares, Share
<1> HIDE DEF n, m, total
<1>5. n > 1 => /\ share \in [1 .. m -> Nat]
               /\ \A i \in 1 .. m : /\ 0 <= w[i] * WEI - total * Share(w, i)
                                    /\ w[i] * WEI - total * Share(w, i) < total
               /\ SumOf(share, 1 .. m) \in Int
               /\ 0 <= SumOf(w, 1 .. m) * WEI - total * SumOf(share, 1 .. m)
               /\ SumOf(w, 1 .. m) * WEI - total * SumOf(share, 1 .. m) <= m * total
  <2> SUFFICES ASSUME n > 1
               PROVE  /\ share \in [1 .. m -> Nat]
                      /\ \A i \in 1 .. m : /\ 0 <= w[i] * WEI - total * Share(w, i)
                                           /\ w[i] * WEI - total * Share(w, i) < total
                      /\ SumOf(share, 1 .. m) \in Int
                      /\ 0 <= SumOf(w, 1 .. m) * WEI - total * SumOf(share, 1 .. m)
                      /\ SumOf(w, 1 .. m) * WEI - total * SumOf(share, 1 .. m) <= m * total
    OBVIOUS
  <2>1. total \in Nat \ {0} /\ total = SumOfSeq(w)
    BY <1>3 DEF total
  <2> HIDE DEF total
  <2> QED
    BY <1>1, <1>4, <2>1, SharesRound
<1>6. share \in [1 .. m -> Nat]
  <2>1. CASE n > 1
    BY <1>5, <2>1
  <2>2. CASE n = 1
    <3>1. m = 0
      BY <1>1, <2>2
    <3>2. share = [i \in 1 .. m |-> share[i]]
      BY <1>4 DEF Shares
    <3> QED
      BY <3>1, <3>2
  <2> QED
    BY <1>1, <2>1, <2>2 DEF n
<1>7. /\ share \in Seq(Int) /\ Len(share) = m /\ DOMAIN share = 1 .. m
      /\ SumOfSeq(share) = SumOf(share, 1 .. m)
  <2>1. share \in Seq(Nat) /\ DOMAIN share = 1 .. m /\ Len(share) = m
    BY <1>1, <1>6
  <2> QED
    BY <1>1, <2>1, SumOfSeqIs
<1>8. SumOf(share, 1 .. m) \in Int
  <2>1. IsFiniteSet(1 .. m)
    BY FS_Interval, <1>1
  <2>2. \A i \in 1 .. m : share[i] \in Int
    <3>1. \A S, f : f \in [S -> Nat] => \A i \in S : f[i] \in Int
      OBVIOUS
    <3> QED
      BY <1>6, <3>1, Zenon
  <2> QED
    BY <2>1, <2>2, SumOfInt
<1>9. /\ r \in Seq(Int) /\ Len(r) = n /\ DOMAIN r = 1 .. n
      /\ \A i \in 1 .. m : r[i] = share[i] /\ r[i] \in Int
      /\ r[n] = WEI - SumOf(share, 1 .. m)
  BY <1>1, <1>7, <1>8
<1>10. SumOfSeq(r) = WEI
  <2>1. SumOfSeq(r) = SumOf(r, 1 .. m) + r[n]
    <3>1. Len(r) > 0 /\ Len(r) - 1 = m
      BY <1>1, <1>9
    <3> QED
      BY <1>9, <3>1, SumOfLast
  <2>2. SumOf(r, 1 .. m) = SumOf(share, 1 .. m)
    <3>1. IsFiniteSet(1 .. m)
      BY FS_Interval, <1>1
    <3> QED
      BY <1>9, <3>1, SumEqual
  <2> QED
    BY <1>1, <1>8, <1>9, <2>1, <2>2
<1>11. ASSUME n > 1, NEW i \in 1 .. n
       PROVE  total * r[i] - w[i] * WEI <= n * total /\ w[i] * WEI - total * r[i] <= total
  <2>1. total \in Nat \ {0} /\ w[i] \in Nat
    BY <1>1, <1>3, <1>11
  <2> DEFINE u == w[i] * WEI
             v == total * r[i]
             k == n * total
  <2>2. u \in Int /\ k \in Int /\ total <= k
    <3>1. n * total = m * total + total /\ m * total >= 0 /\ m * total \in Int
      <4>1. m \in Nat
        BY <1>1
      <4> DEFINE g == m * total
      <4>2. g \in Nat /\ (m + 1) * total = g + total
        BY <2>1, <4>1
      <4> QED
        BY <1>1, <4>2
    <3> QED
      BY <1>1, <2>1, <3>1
  <2>3. CASE i \in 1 .. m
    <3>1. /\ r[i] = Share(w, i) /\ r[i] \in Int
          /\ 0 <= w[i] * WEI - total * Share(w, i) /\ w[i] * WEI - total * Share(w, i) < total
      BY <1>4, <1>5, <1>9, <1>11, <2>3 DEF Shares
    <3>2. v \in Int /\ 0 <= u - v /\ u - v < total
      <4>1. u \in Int /\ v \in Int
        <5> DEFINE y == r[i]
                   z == w[i]
        <5>1. y \in Int
          BY <3>1, Zenon
        <5>2. z \in Int
          BY <2>1
        <5>3. u = z * WEI /\ v = total * y
          BY Zenon
        <5> HIDE DEF y, z, u, v
        <5> QED
          BY <1>1, <2>1, <5>1, <5>2, <5>3
      <4>2. 0 <= u - total * r[i] /\ u - total * r[i] < total
        BY <3>1
      <4> QED
        BY <4>1, <4>2
    <3> HIDE DEF u, v, k
    <3>3. v - u <= k /\ u - v <= total
      BY <2>1, <2>2, <3>2
    <3> QED
      BY <3>3 DEF u, v, k
  <2>4. CASE i = n
    <3> DEFINE a == SumOf(w, 1 .. m)
               b == SumOf(share, 1 .. m)
               z == w[n]
    <3>1. total = a + z /\ r[n] = WEI - b /\ a \in Int /\ b \in Int /\ z \in Int
      BY <1>1, <1>2, <1>8, <1>9, <2>1, <2>4
    <3>2. 0 <= a * WEI - total * b /\ a * WEI - total * b <= m * total
      BY <1>5, <1>11
    <3>3. u = z * WEI /\ v = total * (WEI - b)
      BY <2>4, <3>1
    <3> HIDE DEF a, b, z, u, v, k
    <3>4. /\ total * (WEI - b) = total * WEI - total * b
          /\ (a + z) * WEI = a * WEI + z * WEI
      BY <1>1, <2>1, <3>1
    <3>5. v - u = a * WEI - total * b
      <4>1. total * WEI \in Int /\ total * b \in Int /\ a * WEI \in Int /\ z * WEI \in Int
        BY <1>1, <2>1, <3>1
      <4>2. total * WEI = a * WEI + z * WEI
        BY <3>1, <3>4
      <4>3. v = total * WEI - total * b
        BY <3>3, <3>4
      <4> QED
        BY <3>3, <4>1, <4>2, <4>3
    <3>6. m * total <= k /\ m * total \in Int
      <4>1. k = (m + 1) * total
        BY <1>1 DEF k
      <4>2. (m + 1) * total = m * total + total /\ m * total \in Int
        BY <1>1, <2>1
      <4> QED
        BY <2>1, <4>1, <4>2
    <3>7. v \in Int
      BY <1>1, <2>1, <3>1, <3>3
    <3> DEFINE lost == a * WEI - total * b
    <3>8. 0 <= lost /\ lost <= m * total /\ v - u = lost /\ lost \in Int
      BY <2>2, <3>2, <3>5, <3>7
    <3> HIDE DEF lost
    <3>9. v - u <= k /\ u - v <= total
      BY <2>1, <2>2, <3>6, <3>7, <3>8
    <3> QED
      BY <3>9 DEF u, v, k
  <2>5. i \in 1 .. m \/ i = n
    BY <1>1
  <2> QED
    BY <2>3, <2>4, <2>5
<1> QED
  BY <1>9, <1>10, <1>11 DEF n, total

(* A Pool's weights add up to one and, but when they are made equal, are   *)
(* in the proportion asked.                                                *)
LEMMA NormalizedIs ==
  ASSUME NEW w \in Seq(Nat), Len(w) > 1 => SumOfSeq(w) > 0
  PROVE  /\ Len(ToNormalizedWeights(w)) = Len(w)
         /\ Len(w) > 0 => IsNormalizedWeights(ToNormalizedWeights(w))
         /\ Len(w) > 0 /\ Len(w) < MaxWeightedTokens =>
                \A asked : ProportionalTo(w, asked) => InProportion(ToNormalizedWeights(w), asked)
<1> DEFINE n == Len(w)
           share == [i \in 1 .. n - 1 |-> (w[i] * WEI) \div SumOfSeq(w)]
           r == Append(share, WEI - SumOfSeq(share))
<1>0. /\ n \in Nat /\ DOMAIN w = 1 .. n /\ WEI \in Nat \ {0} /\ MaxWeightedTokens \in Nat \ {0}
      /\ \A i \in 1 .. n : w[i] \in Nat
  BY TokenAssumption
<1>1. CASE n = MaxWeightedTokens
  <2> DEFINE q == WEI \div n
  <2>1. q \in Nat /\ n * q = WEI
    <3>1. WEI % n = 0 /\ n \in Nat \ {0}
      BY <1>0, <1>1, TokenAssumption
    <3> QED
      BY <1>0, <3>1
  <2>2. ToNormalizedWeights(w) = Fill(n, q)
    BY <1>1 DEF ToNormalizedWeights
  <2>3. q \in Int /\ n \in Nat
    BY <1>0, <2>1
  <2> HIDE DEF q, n
  <2>4. Len(Fill(n, q)) = n /\ SumOfSeq(Fill(n, q)) = n * q
    BY <2>3, SumOfFill
  <2> QED
    BY <1>0, <1>1, <2>1, <2>2, <2>4 DEF IsNormalizedWeights, n
<1>2. CASE n # MaxWeightedTokens /\ (n = 0 \/ IsNormalizedWeights(w))
  <2>1. ToNormalizedWeights(w) = w
    BY <1>2 DEF ToNormalizedWeights
  <2>2. ASSUME n > 0, NEW asked, ProportionalTo(w, asked)
        PROVE  InProportion(w, asked)
    <3>1. PICK c \in Nat \ {0} : \A i \in DOMAIN w : w[i] = c * asked[i]
      BY <2>2 DEF ProportionalTo
    <3>2. ASSUME NEW i \in DOMAIN w, NEW j \in DOMAIN w
          PROVE  w[i] * asked[j] - w[j] * asked[i] <= n * (asked[i] + asked[j])
      <4> DEFINE a == asked[i]
                 b == asked[j]
      <4>1. a \in Nat /\ b \in Nat /\ w[i] = c * a /\ w[j] = c * b
        BY <2>2, <3>1 DEF ProportionalTo
      <4> HIDE DEF a, b
      <4>2. (c * a) * b = (c * b) * a /\ (c * a) * b \in Int
        BY <4>1
      <4>3. n * (a + b) \in Nat
        BY <1>0, <4>1
      <4>4. w[i] * b - w[j] * a <= n * (a + b)
        BY <4>1, <4>2, <4>3
      <4> QED
        BY <4>4 DEF a, b
    <3> QED
      BY <3>2 DEF InProportion
  <2> QED
    BY <1>2, <2>1, <2>2
<1>3. CASE n # MaxWeightedTokens /\ n # 0 /\ ~IsNormalizedWeights(w)
  <2>1. ToNormalizedWeights(w) = r
    BY <1>3 DEF ToNormalizedWeights
  <2> DEFINE total == SumOfSeq(w)
  <2>2. /\ r \in Seq(Int) /\ Len(r) = n /\ SumOfSeq(r) = WEI
        /\ n > 1 => \A i \in 1 .. n :
              /\ total * r[i] - w[i] * WEI <= n * total
              /\ w[i] * WEI - total * r[i] <= total
    <3>1. Len(w) > 0
      <4>1. \A k \in Nat : k # 0 => k > 0
        OBVIOUS
      <4> HIDE DEF share, r, total
      <4> QED
        BY <1>0, <1>3, <4>1
    <3> DEFINE s == share
               q == r
    <3>2. s = [i \in 1 .. Len(w) - 1 |-> (w[i] * WEI) \div SumOfSeq(w)]
          /\ q = Append(s, WEI - SumOfSeq(s))
      OBVIOUS
    <3> HIDE DEF s, q
    <3>3. /\ q \in Seq(Int) /\ Len(q) = Len(w) /\ SumOfSeq(q) = WEI
          /\ Len(w) > 1 => \A i \in 1 .. Len(w) :
                /\ SumOfSeq(w) * q[i] - w[i] * WEI <= Len(w) * SumOfSeq(w)
                /\ w[i] * WEI - SumOfSeq(w) * q[i] <= SumOfSeq(w)
      BY <3>1, <3>2, DividedWeights
    <3> QED
      BY <3>3 DEF q
  <2> HIDE DEF r, share
  <2>3. ASSUME NEW asked, ProportionalTo(w, asked)
        PROVE  InProportion(r, asked)
    <3>1. PICK c \in Nat \ {0} : \A i \in DOMAIN w : w[i] = c * asked[i]
      BY <2>3 DEF ProportionalTo
    <3>2. ASSUME NEW i \in 1 .. n, NEW j \in 1 .. n
          PROVE  r[i] * asked[j] - r[j] * asked[i] <= n * (asked[i] + asked[j])
      <4> DEFINE a == asked[i]
                 b == asked[j]
                 x == r[i]
                 y == r[j]
      <4>1. a \in Nat /\ b \in Nat /\ w[i] = c * a /\ w[j] = c * b /\ x \in Int /\ y \in Int
        BY <1>0, <2>2, <2>3, <3>1 DEF ProportionalTo
      <4>2. CASE n = 1
        <5>1. i = j
          BY <4>2
        <5>2. n * (a + b) \in Nat /\ x * b \in Int /\ x * b = y * a
          BY <1>0, <4>1, <5>1
        <5> QED
          BY <5>2
      <4>3. CASE n > 1
        <5>1. /\ total * x - (c * a) * WEI <= n * total
              /\ (c * b) * WEI - total * y <= total
          BY <2>2, <4>1, <4>3
        <5>2. total \in Nat \ {0}
          <6>1. total \in Int
            <7>1. w \in Seq(Int) /\ Len(w) > 0
              BY <1>0, <4>3
            <7>2. w[n] \in Int
              BY <1>0, <4>3
            <7> QED
              BY <7>1, <7>2, SumOfLast
          <6> QED
            BY <4>3, <6>1
        <5> HIDE DEF a, b, x, y, total, n
        <5>3. x * b - y * a <= n * (a + b)
          <6>1. n \in Nat /\ n > 0
            BY <1>0, <4>3
          <6>2. a \in Nat /\ b \in Nat /\ x \in Int /\ y \in Int
            BY <4>1
          <6> QED
            BY <5>1, <5>2, <6>1, <6>2, SharesInProportion, Zenon
        <5> QED
          BY <5>3 DEF a, b, x, y
      <4> QED
        BY <1>0, <4>2, <4>3
    <3> QED
      BY <2>2, <3>2 DEF InProportion
  <2> QED
    BY <2>1, <2>2, <2>3 DEF IsNormalizedWeights
<1> QED
  BY <1>1, <1>2, <1>3

---------------------------------------------------------------------------
(* The answers.                                                            *)

\* order is the answer to a request that was put in the order p
Answers(order, p, erc) ==
    LET tokens == order.tokens
    IN  /\ tokens \in Seq(Nat) /\ p \in Orders(Len(tokens))
        /\ IsAscending(erc) /\ DOMAIN erc = DOMAIN tokens /\ DOMAIN order.sorted = DOMAIN tokens
        /\ \A i \in DOMAIN tokens :
            erc[i] = TranslateToERC20(tokens[p[i]]) /\ order.sorted[i] = BackToETH(tokens, erc[i])
        /\ \A k \in DOMAIN order.others : \A i \in DOMAIN tokens :
            order.sortedOthers[k][i] = order.others[k][p[i]]

(* An order is of the indices.                                             *)
LEMMA OrdersAre ==
  ASSUME NEW tokens \in Seq(Nat), NEW p \in Orders(Len(tokens))
  PROVE  DOMAIN tokens = 1 .. Len(tokens) /\ \A i \in 1 .. Len(tokens) : p[i] \in 1 .. Len(tokens)
BY DEF Orders

(* A request's answer is in order, each asset with its own elements.       *)
LEMMA SortedIs ==
  ASSUME NEW order, NEW p, NEW erc, Answers(order, p, erc)
  PROVE  SortedTogether(order)
<1> DEFINE tokens == order.tokens
           others == order.others
           n == Len(tokens)
<1>1. /\ tokens \in Seq(Nat) /\ p \in Orders(n)
      /\ DOMAIN tokens = 1 .. n /\ \A i \in 1 .. n : p[i] \in 1 .. n
  BY OrdersAre DEF Answers
<1>2. /\ DOMAIN order.sorted = 1 .. n /\ DOMAIN erc = 1 .. n /\ IsAscending(erc)
      /\ \A i \in 1 .. n : /\ erc[i] = TranslateToERC20(tokens[p[i]])
                           /\ order.sorted[i] = BackToETH(tokens, erc[i])
      /\ \A k \in DOMAIN others, i \in 1 .. n : order.sortedOthers[k][i] = others[k][p[i]]
  BY <1>1 DEF Answers
<1> HIDE DEF n, tokens, others
<1> DEFINE erc20(token) == IF token = ETH THEN WethAddress ELSE token
<1>3. ASSUME NEW i \in 1 .. n
      PROVE  /\ erc[i] = erc20(tokens[p[i]]) /\ erc20(order.sorted[i]) = erc[i]
             /\ ~({ETH, WethAddress} \subseteq Range(tokens)) => order.sorted[i] = tokens[p[i]]
  <2>1. tokens[p[i]] \in Range(tokens) /\ erc[i] = erc20(tokens[p[i]])
    BY <1>1, <1>2 DEF Range, TranslateToERC20
  <2> QED
    BY <1>2, <2>1 DEF BackToETH
<1>4. IsAscending([i \in DOMAIN order.sorted |-> erc20(order.sorted[i])])
  <2>1. \A i, j \in 1 .. n : i < j => erc[i] <= erc[j]
    BY <1>2 DEF IsAscending
  <2> QED
    BY <1>1, <1>2, <1>3, <2>1 DEF IsAscending
<1>5. \A i \in DOMAIN order.sorted :
            /\ erc20(order.sorted[i]) = erc20(tokens[p[i]])
            /\ ~({ETH, WethAddress} \subseteq Range(tokens)) => order.sorted[i] = tokens[p[i]]
            /\ \A k \in DOMAIN others : order.sortedOthers[k][i] = others[k][p[i]]
  BY <1>1, <1>2, <1>3
<1> QED
  BY <1>1, <1>4, <1>5 DEF SortedTogether, tokens, others, n

\* the lengths that WellDeployed looks at
OfLength(arraysOf, n) == \A k \in DOMAIN arraysOf : Len(arraysOf[k]) = n

(* Every array of a deployment has an element for each token, the          *)
(* normalized weights among them.                                          *)
LEMMA ArraysOf ==
  ASSUME NEW p \in PoolParams
  PROVE  /\ p.tokens \in Seq(Nat)
         /\ WeightsOf(p) \in Seq(Nat) /\ Len(WeightsOf(p)) = Len(p.tokens)
         /\ Len(RateProvidersOf(p)) = Len(p.tokens) /\ Len(AssetManagersOf(p)) = Len(p.tokens)
         /\ \A x : Len(Fill(Len(p.tokens), x)) = Len(p.tokens)
<1> DEFINE n == Len(p.tokens)
<1>1. /\ p.tokens \in Seq(Nat) /\ n \in Nat
      /\ \A given \in p.weights : given \in Seq(Nat) /\ Len(given) = n
      /\ \A given \in p.rateProviders : Len(given) = n
  BY CallerAssumption
<1> HIDE DEF n
<1>2. \A x : Len(Fill(n, x)) = n
  <2> SUFFICES ASSUME NEW x
               PROVE  Len(Fill(n, x)) = n
    OBVIOUS
  <2>1. Fill(n, x) \in Seq({x}) /\ DOMAIN Fill(n, x) = 1 .. n
    BY <1>1 DEF Fill
  <2> QED
    BY <1>1, <2>1
<1>3. Fill(n, WEI) \in Seq(Nat)
  BY <1>1, TokenAssumption DEF Fill
<1>4. \A given, default : OrElse(given, default) = default \/ OrElse(given, default) \in given
  BY DEF OrElse
<1>5. WeightsOf(p) \in Seq(Nat) /\ Len(WeightsOf(p)) = n
  BY <1>1, <1>2, <1>3, <1>4 DEF WeightsOf, n
<1>6. Len(RateProvidersOf(p)) = n
  BY <1>1, <1>2, <1>4 DEF RateProvidersOf, n
<1> QED
  BY <1>1, <1>2, <1>5, <1>6 DEF AssetManagersOf, n

(* Weights that were not given are asked for in equal parts.               *)
LEMMA AskedIs ==
  ASSUME NEW p \in PoolParams
  PROVE  ProportionalTo(WeightsOf(p), OrElse(p.weights, Fill(Len(p.tokens), 1)))
<1> DEFINE n == Len(p.tokens)
           w == WeightsOf(p)
           asked == OrElse(p.weights, Fill(n, 1))
<1>1. n \in Nat /\ DOMAIN w = 1 .. n /\ \A i \in 1 .. n : w[i] \in Nat
  BY ArraysOf
<1>2. CASE p.weights = {}
  <2>1. w = Fill(n, WEI) /\ asked = Fill(n, 1)
    BY <1>2 DEF WeightsOf, OrElse
  <2>2. \A i \in 1 .. n : w[i] = WEI /\ asked[i] = 1
    BY <2>1 DEF Fill
  <2> HIDE DEF w, asked
  <2>3. WEI \in Nat \ {0} /\ \A i \in DOMAIN w : asked[i] \in Nat /\ w[i] = WEI * asked[i]
    BY <1>1, <2>2, TokenAssumption
  <2> QED
    BY <2>3 DEF ProportionalTo, w, asked
<1>3. CASE p.weights # {}
  <2>1. asked = w
    BY <1>3 DEF WeightsOf, OrElse
  <2> HIDE DEF w, asked
  <2>2. 1 \in Nat \ {0} /\ \A i \in DOMAIN w : asked[i] \in Nat /\ w[i] = 1 * asked[i]
    BY <1>1, <2>1
  <2> QED
    BY <2>2 DEF ProportionalTo, w, asked
<1> QED
  BY <1>2, <1>3

(* A converted Pool is well deployed.                                      *)
LEMMA DeploymentIs ==
  ASSUME NEW p \in PoolParams, NEW kind, NEW arraysOf, NEW longest, OfLength(arraysOf, Len(p.tokens)),
         kind \in {"Weighted", "LBP", "Managed"} => arraysOf[1] = ToNormalizedWeights(WeightsOf(p)),
         Len(p.tokens) > 1 => SumOfSeq(WeightsOf(p)) > 0
  PROVE  WellDeployed(Deployment(kind, p, arraysOf, longest))
<1> DEFINE pool == Deployment(kind, p, arraysOf, longest)
           asked == OrElse(p.weights, Fill(Len(p.tokens), 1))
<1>1. pool.tokens = p.tokens /\ pool.asked = p /\ pool.arrays = arraysOf /\ pool.kind = kind
  BY DEF Deployment
<1>2. WeightsOf(p) \in Seq(Nat) /\ Len(WeightsOf(p)) = Len(p.tokens)
  BY ArraysOf
<1>3. ProportionalTo(WeightsOf(p), asked)
  BY AskedIs
<1> HIDE DEF asked
<1>4. /\ Len(p.tokens) > 0 => IsNormalizedWeights(ToNormalizedWeights(WeightsOf(p)))
      /\ Len(p.tokens) > 0 /\ Len(p.tokens) < MaxWeightedTokens =>
             InProportion(ToNormalizedWeights(WeightsOf(p)), asked)
  <2> DEFINE w == WeightsOf(p)
  <2>1. w \in Seq(Nat) /\ Len(w) = Len(p.tokens) /\ (Len(w) > 1 => SumOfSeq(w) > 0) /\ ProportionalTo(w, asked)
    BY <1>2, <1>3
  <2> HIDE DEF w
  <2>2. /\ Len(w) > 0 => IsNormalizedWeights(ToNormalizedWeights(w))
        /\ Len(w) > 0 /\ Len(w) < MaxWeightedTokens => InProportion(ToNormalizedWeights(w), asked)
    BY <2>1, NormalizedIs
  <2> QED
    BY <2>1, <2>2 DEF w
<1> HIDE DEF pool
<1>5. pool.kind \in {"Weighted", "LBP", "Managed"} /\ Len(pool.tokens) > 0 =>
            /\ IsNormalizedWeights(pool.arrays[1])
            /\ Len(pool.tokens) < MaxWeightedTokens =>
                   InProportion(pool.arrays[1], OrElse(pool.asked.weights, Fill(Len(pool.tokens), 1)))
  BY <1>1, <1>4 DEF asked
<1>6. \A k \in DOMAIN pool.arrays : Len(pool.arrays[k]) = Len(pool.tokens)
  BY <1>1 DEF OfLength
<1> QED
  BY <1>5, <1>6 DEF WellDeployed, pool

(* A request answers what is aligned; nothing else answers.                *)
LEMMA AnswersAreAligned ==
  ASSUME RequestsStayAligned, [TokenListNext]_tokenListVars
  PROVE  RequestsStayAligned'
<1>1. ASSUME answer' = answer
      PROVE  RequestsStayAligned'
  BY <1>1 DEF RequestsStayAligned
<1>2. ASSUME NEW i \in DOMAIN sending,
             \/ Deposit(i) \/ MineMint(i) \/ MineTransfer(i) \/ MineBurn(i) \/ MineApproval(i)
             \/ Reject(i)
      PROVE  answer' = answer
  BY <1>2 DEF Deposit, Deposited, MineMint, MineTransfer, MineBurn, MineApproval, Reject, Mine
<1>3. ASSUME \/ \E params \in Deployments, sorted, vary \in BOOLEAN : Create(params, sorted, vary)
             \/ \E a \in Addresses : DeployedAt(a)
             \/ \E l \in DOMAIN lists :
                 \/ Sort(l)
                 \/ Subset(l, 1, 1)
                 \/ \E raws \in RawMints : MintTokens(l, raws) \/ MintScaled(l, raws)
                 \/ \E raw \in RawApprovals : ApproveTokens(l, raw)
                 \/ \E p \in Spends :
                     \/ Spend("transfer", l, FindIndexBySymbol(l, "WETH"), p)
                     \/ Spend("burn", l, 1, p)
      PROVE  answer' = answer
  BY <1>3 DEF Create, DeployedAt, Sort, Subset, MintTokens, MintScaled, ApproveTokens, Spend, Send
<1>4. ASSUME NEW r \in Requests, SortTokens(r[1], r[2])
      PROVE  RequestsStayAligned'
  <2> DEFINE tokens == r[1]
             others == r[2]
  <2>1. tokens \in Seq(Nat)
    BY CallerAssumption
  <2> HIDE DEF tokens, others
  <2>2. SortTokens(tokens, others)
    BY <1>4 DEF tokens, others
  <2>3. PICK p \in Orders(Len(tokens)) :
           LET erc == [i \in DOMAIN tokens |-> TranslateToERC20(tokens[p[i]])]
           IN  /\ IsAscending(erc)
               /\ answer' =
                   [of |-> "order", tokens |-> tokens, others |-> others,
                    sorted |-> [i \in DOMAIN tokens |-> BackToETH(tokens, erc[i])],
                    sortedOthers |-> [k \in DOMAIN others |-> [i \in DOMAIN tokens |-> others[k][p[i]]]]]
    BY <2>2 DEF SortTokens
  <2>4. answer'.of = "order"
    BY <2>3
  <2>5. SortedTogether(answer')
    <3> SUFFICES ASSUME NEW order, order = answer'
                 PROVE  SortedTogether(order)
      OBVIOUS
    <3>1. PICK erc : erc = [i \in DOMAIN tokens |-> TranslateToERC20(tokens[p[i]])]
      OBVIOUS
    <3>2. /\ IsAscending(erc) /\ DOMAIN erc = DOMAIN tokens
          /\ order.tokens = tokens /\ order.others = others
          /\ order.sorted = [i \in DOMAIN tokens |-> BackToETH(tokens, erc[i])]
          /\ order.sortedOthers = [k \in DOMAIN others |-> [i \in DOMAIN tokens |-> others[k][p[i]]]]
      BY <2>3, <3>1
    <3>3. /\ DOMAIN order.sorted = DOMAIN tokens
          /\ \A i \in DOMAIN tokens :
                erc[i] = TranslateToERC20(tokens[p[i]]) /\ order.sorted[i] = BackToETH(tokens, erc[i])
      BY <3>1, <3>2
    <3>4. \A k \in DOMAIN others : \A i \in DOMAIN tokens :
            order.sortedOthers[k][i] = others[k][p[i]]
      BY <3>2
    <3>5. /\ IsAscending(erc) /\ DOMAIN erc = DOMAIN tokens
          /\ order.tokens = tokens /\ order.others = others
      BY <3>2
    <3>6. Answers(order, p, erc)
      BY <2>1, <3>3, <3>4, <3>5 DEF Answers
    <3> QED
      BY <3>6, SortedIs
  <2> QED
    BY <2>4, <2>5 DEF RequestsStayAligned
<1>5. ASSUME NEW p \in PoolParams, NEW kind, NEW arraysOf, NEW longest, OfLength(arraysOf, Len(p.tokens)),
             kind \in {"Weighted", "LBP", "Managed"} => arraysOf[1] = ToNormalizedWeights(WeightsOf(p)),
             Convert(p, Deployment(kind, p, arraysOf, longest))
      PROVE  RequestsStayAligned'
  <2>1. answer' = Deployment(kind, p, arraysOf, longest) /\ (Len(p.tokens) > 1 => SumOfSeq(WeightsOf(p)) > 0)
    BY <1>5 DEF Convert
  <2>2. WellDeployed(answer')
    BY <1>5, <2>1, DeploymentIs
  <2>3. answer'.of = "deployment"
    BY <2>1 DEF Deployment
  <2> QED
    BY <2>2, <2>3 DEF RequestsStayAligned
<1>6. ASSUME NEW p \in PoolParams,
             \/ Convert(p, ToWeightedPoolDeployment(p))
             \/ Convert(p, ToLiquidityBootstrappingPoolDeployment(p))
             \/ Convert(p, ToManagedPoolDeployment(p))
             \/ Convert(p, ToStablePoolDeployment(p))
             \/ Convert(p, ToLinearPoolDeployment(p))
      PROVE  RequestsStayAligned'
  <2> DEFINE n == Len(p.tokens)
             w == ToNormalizedWeights(WeightsOf(p))
             three == << w, RateProvidersOf(p), AssetManagersOf(p) >>
             one == << w >>
             stable == << RateProvidersOf(p), Fill(n, 1), Fill(n, FALSE) >>
             linear == << AssetManagersOf(p) >>
  <2>1. /\ Len(RateProvidersOf(p)) = n /\ Len(AssetManagersOf(p)) = n
        /\ Len(Fill(n, 1)) = n /\ Len(Fill(n, FALSE)) = n
    BY ArraysOf
  <2>2. Len(w) = n
    <3>1. Len(p.tokens) > 1 => SumOfSeq(WeightsOf(p)) > 0
      BY <1>6 DEF Convert
    <3> DEFINE v == WeightsOf(p)
    <3>2. v \in Seq(Nat) /\ Len(v) = n
      BY ArraysOf
    <3>3. Len(v) > 1 => SumOfSeq(v) > 0
      BY <3>1, <3>2
    <3> HIDE DEF v
    <3>4. Len(ToNormalizedWeights(v)) = Len(v)
      BY <3>2, <3>3, NormalizedIs
    <3> QED
      BY <3>2, <3>4 DEF v
  <2> HIDE DEF n, w
  <2>3. OfLength(three, n) /\ OfLength(one, n) /\ OfLength(stable, n) /\ OfLength(linear, n)
    <3>1. OfLength(three, n)
      <4>1. /\ DOMAIN three = {1, 2, 3}
            /\ three[1] = w /\ three[2] = RateProvidersOf(p) /\ three[3] = AssetManagersOf(p)
        OBVIOUS
      <4> HIDE DEF three
      <4> QED
        BY <2>1, <2>2, <4>1 DEF OfLength
    <3>2. OfLength(one, n)
      <4>1. DOMAIN one = {1} /\ one[1] = w
        OBVIOUS
      <4> HIDE DEF one
      <4> QED
        BY <2>2, <4>1 DEF OfLength
    <3>3. OfLength(stable, n)
      <4>1. /\ DOMAIN stable = {1, 2, 3}
            /\ stable[1] = RateProvidersOf(p) /\ stable[2] = Fill(n, 1) /\ stable[3] = Fill(n, FALSE)
        OBVIOUS
      <4> HIDE DEF stable
      <4> QED
        BY <2>1, <4>1 DEF OfLength
    <3>4. OfLength(linear, n)
      <4>1. DOMAIN linear = {1} /\ linear[1] = AssetManagersOf(p)
        OBVIOUS
      <4> HIDE DEF linear
      <4> QED
        BY <2>1, <4>1 DEF OfLength
    <3> QED
      BY <3>1, <3>2, <3>3, <3>4
  <2>4. three[1] = w /\ one[1] = w
    OBVIOUS
  <2>5. /\ ToWeightedPoolDeployment(p) = Deployment("Weighted", p, three, 3)
        /\ ToLiquidityBootstrappingPoolDeployment(p) = Deployment("LBP", p, one, 3)
        /\ ToManagedPoolDeployment(p) = Deployment("Managed", p, three, 9)
        /\ ToStablePoolDeployment(p) = Deployment("Stable", p, stable, 3)
        /\ ToLinearPoolDeployment(p) = Deployment("Linear", p, linear, 3)
    BY DEF ToWeightedPoolDeployment, ToLiquidityBootstrappingPoolDeployment, ToManagedPoolDeployment,
           ToStablePoolDeployment, ToLinearPoolDeployment, n, w
  <2> HIDE DEF three, one, stable, linear
  <2>6. w = ToNormalizedWeights(WeightsOf(p)) /\ n = Len(p.tokens)
    BY DEF w, n
  <2>7. ASSUME Convert(p, Deployment("Weighted", p, three, 3))
        PROVE  RequestsStayAligned'
    BY <1>5, <2>3, <2>4, <2>6, <2>7
  <2>8. ASSUME Convert(p, Deployment("LBP", p, one, 3))
        PROVE  RequestsStayAligned'
    BY <1>5, <2>3, <2>4, <2>6, <2>8
  <2>9. ASSUME Convert(p, Deployment("Managed", p, three, 9))
        PROVE  RequestsStayAligned'
    BY <1>5, <2>3, <2>4, <2>6, <2>9
  <2>10. ASSUME Convert(p, Deployment("Stable", p, stable, 3))
         PROVE  RequestsStayAligned'
    <3>1. "Stable" \notin {"Weighted", "LBP", "Managed"}
      OBVIOUS
    <3> QED
      BY <1>5, <2>3, <2>6, <2>10, <3>1
  <2>11. ASSUME Convert(p, Deployment("Linear", p, linear, 3))
         PROVE  RequestsStayAligned'
    <3>1. "Linear" \notin {"Weighted", "LBP", "Managed"}
      OBVIOUS
    <3> QED
      BY <1>5, <2>3, <2>6, <2>11, <3>1
  <2> QED
    BY <1>6, <2>5, <2>7, <2>8, <2>9, <2>10, <2>11
<1>7. ASSUME UNCHANGED tokenListVars
      PROVE  answer' = answer
  BY <1>7 DEF tokenListVars
<1> QED
  BY <1>1, <1>2, <1>3, <1>4, <1>6, <1>7 DEF TokenListNext

(* Whatever assets, arrays and Pools are asked for: the assets come in the *)
(* Vault's order with their own elements, and a Pool is deployed with one  *)
(* element of every array for each token and with weights that add up to   *)
(* one in the proportion asked, up to a unit for each token                *)
(* (assetHelpers.ts sortTokens, TypesConverter.ts, normalizedWeights.ts).  *)
THEOREM RequestsAlwaysAligned ==
  TokenListInit /\ [][TokenListNext]_tokenListVars => []RequestsStayAligned
<1>1. TokenListInit => RequestsStayAligned
  BY DEF TokenListInit, TokenListInitAfter, RequestsStayAligned
<1>2. RequestsStayAligned /\ [TokenListNext]_tokenListVars => RequestsStayAligned'
  BY AnswersAreAligned
<1> QED
  BY <1>1, <1>2, PTL
===========================================================================
