------------------------ MODULE TimelockAuthorizer ------------------------
(***************************************************************************)
(* The Timelock Authorizer of the Vault (pkg/vault/contracts/authorizer):  *)
(* who may perform which action where, and after how long a notice.        *)
(*                                                                         *)
(* A permissioned action whose id has a delay is only performed by the     *)
(* TimelockExecutionHelper, on behalf of an execution that was scheduled   *)
(* at least that delay before.  Changing a delay, granting or revoking a   *)
(* permission that has a grant or revoke delay, and replacing the root are *)
(* scheduled executions as well, which call back into the authorizer.      *)
(*                                                                         *)
(* One action is one transaction.  An execution may call out to a foreign  *)
(* contract, which may call the authorizer again; by then the execution is *)
(* already marked and `execute` itself is locked by the helper's           *)
(* nonReentrant, so the nested calls have the effect of the same calls     *)
(* made right after the transaction.  A call that reverts changes nothing  *)
(* and is simply not a step.  Events are left out.                         *)
(***************************************************************************)
EXTENDS Integers, Sequences

CONSTANTS
    Accounts,           \* externally owned accounts and contracts that send transactions
    NoAccount,          \* address(0)
    Helper,             \* the TimelockExecutionHelper
    InitialRoot,        \* constructor arguments
    NextRoot,
    RootTransferDelay,
    ActionIds,          \* action ids of permissioned functions
    SetAuthorizer,      \* the action id of Vault.setAuthorizer
    Targets,            \* contracts with permissioned functions
    Everywhere,         \* _EVERYWHERE
    MaxDelay,           \* _MAX_DELAY
    MinChangeDelay      \* _MINIMUM_CHANGE_DELAY_EXECUTION_DELAY

CONSTANTS               \* the arguments that callers try, and the bounds of a run
    RootInputs,         \* accounts proposed as the new root
    DelayInputs,        \* <<kind, action id, new delay>>
    GrantInputs,        \* <<action id, account, where>>, for permissions and granters
    RevokerInputs,      \* <<account, where>>
    CancelerInputs,     \* <<scheduled execution id, account>>
    ExecutorSets,       \* the `executors` arguments
    MaxTime,            \* last timestamp
    MaxExecutions       \* most executions ever scheduled

GlobalId == 0           \* stands for type(uint256).max; execution ids are 1, 2, ...
Wheres == Targets \cup {Everywhere}
Holders == Accounts \cup {Helper}
DelayKinds == {"setDelay", "setGrantDelay", "setRevokeDelay"}

ASSUME AddressAssumption ==
    /\ NoAccount \notin Accounts
    /\ Helper \notin Accounts \cup {NoAccount}
    /\ InitialRoot \in Accounts
    /\ NextRoot \in Accounts \cup {NoAccount}
    /\ Everywhere \notin Targets
    /\ SetAuthorizer \in ActionIds

ASSUME DelayAssumption ==
    /\ RootTransferDelay \in Nat
    /\ MaxDelay \in Nat
    /\ MinChangeDelay \in Nat

ASSUME InputAssumption ==
    /\ RootInputs \subseteq Accounts \cup {NoAccount}
    /\ DelayInputs \subseteq DelayKinds \X ActionIds \X Nat
    /\ GrantInputs \subseteq ActionIds \X Holders \X Wheres
    /\ RevokerInputs \subseteq Accounts \X Wheres
    /\ CancelerInputs \subseteq Nat \X Accounts
    /\ ExecutorSets \subseteq SUBSET Accounts

---------------------------------------------------------------------------
(* The calls an execution can carry: `where` and the decoded `data`.       *)

SetPendingRootCalls == [fn : {"setPendingRoot"}, account : Accounts \cup {NoAccount}]
SetDelayCalls == [fn : DelayKinds, actionId : ActionIds, delay : Nat]
PermissionCalls == [fn : {"grantPermission", "revokePermission"},
                    actionId : ActionIds, account : Holders, where : Wheres]
PerformCalls == [fn : {"perform"}, actionId : ActionIds, where : Targets]
Calls == SetPendingRootCalls \cup SetDelayCalls \cup PermissionCalls \cup PerformCalls

(* ITimelockAuthorizer.ScheduledExecution; `executors` is _isExecutor, and *)
(* `protected` is executors # {}.                                          *)
ScheduledExecution ==
    [data : Calls, executors : SUBSET Accounts,
     scheduledBy : Accounts, scheduledAt : Nat, executableAt : Nat,
     executed : BOOLEAN, executedBy : Accounts \cup {NoAccount}, executedAt : Nat,
     canceled : BOOLEAN, canceledBy : Accounts \cup {NoAccount}, canceledAt : Nat]

VARIABLES
    now,            \* block.timestamp
    root,           \* _root
    pendingRoot,    \* _pendingRoot
    granters,       \* _isGranter, the set of <<action id, account, where>> mapped to true
    revokers,       \* _isRevoker
    cancelers,      \* _isCanceler
    granted,        \* _isPermissionGranted
    delay,          \* _delaysPerActionId, _grantDelays and _revokeDelays, by kind
    scheduled       \* _scheduledExecutions

(* History, which no guard reads: the accounts that were root, each since  *)
(* when and through which execution (0 is the constructor); and the        *)
(* execution that set the pending root.                                    *)
VARIABLES
    reigns,
    announcement

history == <<reigns, announcement>>
vars == <<now, root, pendingRoot, granters, revokers, cancelers, granted, delay, scheduled, history>>

(* The type invariant: the root is always an account that can send        *)
(* transactions, and all times are natural numbers.                        *)
TypeOK ==
    /\ now \in Nat
    /\ root \in Accounts
    /\ pendingRoot \in Accounts \cup {NoAccount}
    /\ granters \subseteq ActionIds \X Holders \X Wheres
    /\ revokers \subseteq Accounts \X Wheres
    /\ cancelers \subseteq Nat \X Accounts
    /\ granted \subseteq ActionIds \X Holders \X Wheres
    /\ delay \in [DelayKinds -> [ActionIds -> Nat]]
    /\ scheduled \in Seq(ScheduledExecution)

HistoryInit ==
    /\ reigns = <<[root |-> InitialRoot, since |-> 0, announcement |-> 0]>>
    /\ announcement = 0

Init ==
    /\ now = 0
    /\ root = InitialRoot
    /\ pendingRoot = NextRoot
    /\ granters = {}
    /\ revokers = {}
    /\ cancelers = {}
    /\ granted = {}
    /\ delay = [k \in DelayKinds |-> [a \in ActionIds |-> 0]]
    /\ scheduled = <<>>
    /\ HistoryInit

---------------------------------------------------------------------------
(* The views.                                                              *)

IsRoot(account) == account = root

IsGranter(a, account, where) ==
    \/ <<a, account, where>> \in granters
    \/ <<a, account, Everywhere>> \in granters
    \/ IsRoot(account)

IsRevoker(account, where) ==
    \/ <<account, where>> \in revokers
    \/ <<account, Everywhere>> \in revokers
    \/ IsRoot(account)

IsCanceler(id, account) ==
    \/ <<id, account>> \in cancelers
    \/ <<GlobalId, account>> \in cancelers
    \/ IsRoot(account)

HasPermission(a, account, where) ==
    \/ <<a, account, where>> \in granted
    \/ <<a, account, Everywhere>> \in granted

CanPerform(a, account, where) ==
    IF delay["setDelay"][a] = 0
    THEN HasPermission(a, account, where)
    ELSE account = Helper

IsPending(e) == ~e.executed /\ ~e.canceled

CanExecuteAnytime(id) == IsPending(scheduled[id])         \* mutant: no wait

\* mutant: what was executed may be executed again
CanExecuteAgain(id) == ~scheduled[id].canceled /\ now >= scheduled[id].executableAt

CanExecute(id) == IsPending(scheduled[id]) /\ now >= scheduled[id].executableAt

---------------------------------------------------------------------------
(* Scheduling.  Every schedule function ends in _scheduleWithDelay.        *)

NewId == Len(scheduled) + 1

ScheduleWithDelay(caller, data, wait, executors) ==
    /\ Len(scheduled) < MaxExecutions
    /\ scheduled' = Append(scheduled,
           [data |-> data, executors |-> executors,
            scheduledBy |-> caller, scheduledAt |-> now, executableAt |-> now + wait,
            executed |-> FALSE, executedBy |-> NoAccount, executedAt |-> 0,
            canceled |-> FALSE, canceledBy |-> NoAccount, canceledAt |-> 0])

(* The scheduler becomes a canceler of what it scheduled, unless it        *)
(* already is one (by being root or a global canceler).                    *)
AddSchedulerAsCanceler(caller) ==
    cancelers' = IF IsCanceler(NewId, caller) THEN cancelers
                                              ELSE cancelers \cup {<<NewId, caller>>}

ScheduleRootChange(caller, newRoot, executors) ==
    /\ IsRoot(caller)
    /\ ScheduleWithDelay(caller, [fn |-> "setPendingRoot", account |-> newRoot],
                         RootTransferDelay, executors)
    /\ UNCHANGED <<now, root, pendingRoot, granters, revokers, cancelers, granted, delay, history>>

MinimumWaitOnly(current, new) == MinChangeDelay          \* mutant: reductions wait no longer

DelayChangeExecutionDelay(current, new) ==
    IF new < current /\ current - new > MinChangeDelay
    THEN current - new
    ELSE MinChangeDelay

(* scheduleDelayChange, scheduleGrantDelayChange, scheduleRevokeDelayChange *)
ScheduleDelayChange(caller, kind, a, new, executors) ==
    /\ IsRoot(caller)
    /\ new <= MaxDelay
    /\ ScheduleWithDelay(caller, [fn |-> kind, actionId |-> a, delay |-> new],
                         DelayChangeExecutionDelay(delay[kind][a], new), executors)
    /\ UNCHANGED <<now, root, pendingRoot, granters, revokers, cancelers, granted, delay, history>>

(* The authorizer and the helper are not among the Targets, which is what  *)
(* the two requires on `where` say.                                        *)
Schedule(caller, a, where, executors) ==
    /\ HasPermission(a, caller, where)
    /\ delay["setDelay"][a] > 0
    /\ ScheduleWithDelay(caller, [fn |-> "perform", actionId |-> a, where |-> where],
                         delay["setDelay"][a], executors)
    /\ AddSchedulerAsCanceler(caller)
    /\ UNCHANGED <<now, root, pendingRoot, granters, revokers, granted, delay, history>>

ScheduleGrantPermission(caller, a, account, where, executors) ==
    /\ IsGranter(a, caller, where)
    /\ delay["setGrantDelay"][a] > 0
    /\ ScheduleWithDelay(caller, [fn |-> "grantPermission", actionId |-> a,
                                  account |-> account, where |-> where],
                         delay["setGrantDelay"][a], executors)
    /\ AddSchedulerAsCanceler(caller)
    /\ UNCHANGED <<now, root, pendingRoot, granters, revokers, granted, delay, history>>

ScheduleRevokePermission(caller, a, account, where, executors) ==
    /\ IsRevoker(caller, where)
    /\ delay["setRevokeDelay"][a] > 0
    /\ ScheduleWithDelay(caller, [fn |-> "revokePermission", actionId |-> a,
                                  account |-> account, where |-> where],
                         delay["setRevokeDelay"][a], executors)
    /\ AddSchedulerAsCanceler(caller)
    /\ UNCHANGED <<now, root, pendingRoot, granters, revokers, granted, delay, history>>

---------------------------------------------------------------------------
(* Functions that accounts call directly, and that executions call as the  *)
(* helper.  Each states only the variables it may change.                  *)

SetDelay(kind, a, new) ==
    /\ <<kind, a>> # <<"setDelay", SetAuthorizer>> => new <= delay["setDelay"][SetAuthorizer]
    /\ delay' = [delay EXCEPT ![kind][a] = new]
    /\ UNCHANGED <<pendingRoot, granted>>

SetPendingRoot(account) ==
    /\ pendingRoot' = account
    /\ UNCHANGED <<granted, delay>>

GrantPermission(sender, a, account, where) ==
    /\ IF delay["setGrantDelay"][a] = 0 THEN IsGranter(a, sender, where) ELSE sender = Helper
    /\ ~HasPermission(a, account, where)
    /\ granted' = granted \cup {<<a, account, where>>}
    /\ UNCHANGED <<pendingRoot, delay>>

TakeLocalPermission(a, account, where) ==                \* mutant: ignores global permissions
    /\ HasPermission(a, account, where)
    /\ granted' = granted \ {<<a, account, where>>}
    /\ UNCHANGED <<pendingRoot, delay>>

(* _revokePermission: a global permission must be revoked globally *)
TakePermission(a, account, where) ==
    /\ HasPermission(a, account, where)
    /\ <<a, account, Everywhere>> \in granted => where = Everywhere
    /\ granted' = granted \ {<<a, account, where>>}
    /\ UNCHANGED <<pendingRoot, delay>>

RevokePermission(sender, a, account, where) ==
    /\ IF delay["setRevokeDelay"][a] = 0 THEN IsRevoker(sender, where) ELSE sender = Helper
    /\ TakePermission(a, account, where)

(* A permissioned function of a target, called by the helper: the target   *)
(* asks canPerform and reverts when the answer is no.                      *)
Perform(a, where) ==
    /\ CanPerform(a, Helper, where)
    /\ UNCHANGED <<pendingRoot, granted, delay>>

(* TimelockExecutionHelper.execute: msg.sender of the call is the helper *)
HelperCall(data) ==
    \/ /\ data.fn = "setPendingRoot"
       /\ SetPendingRoot(data.account)
    \/ /\ data.fn \in DelayKinds
       /\ SetDelay(data.fn, data.actionId, data.delay)
    \/ /\ data.fn = "grantPermission"
       /\ GrantPermission(Helper, data.actionId, data.account, data.where)
    \/ /\ data.fn = "revokePermission"
       /\ RevokePermission(Helper, data.actionId, data.account, data.where)
    \/ /\ data.fn = "perform"
       /\ Perform(data.actionId, data.where)

---------------------------------------------------------------------------
(* The remaining transactions.                                             *)

Execute(caller, id) ==
    /\ id \in 1 .. Len(scheduled)
    /\ CanExecute(id)
    /\ scheduled[id].executors # {} => caller \in scheduled[id].executors
    /\ scheduled' = [scheduled EXCEPT ![id] = [@ EXCEPT !.executed = TRUE,
                                                        !.executedBy = caller,
                                                        !.executedAt = now]]
    /\ HelperCall(scheduled[id].data)
    /\ announcement' = IF scheduled[id].data.fn = "setPendingRoot" THEN id ELSE announcement
    /\ UNCHANGED <<now, root, granters, revokers, cancelers, reigns>>

Cancel(caller, id) ==
    /\ id \in 1 .. Len(scheduled)
    /\ IsPending(scheduled[id])
    /\ IsCanceler(id, caller)
    /\ scheduled' = [scheduled EXCEPT ![id] = [@ EXCEPT !.canceled = TRUE,
                                                        !.canceledBy = caller,
                                                        !.canceledAt = now]]
    /\ UNCHANGED <<now, root, pendingRoot, granters, revokers, cancelers, granted, delay, history>>

BeginReign(account) ==
    /\ reigns' = Append(reigns, [root |-> account, since |-> now, announcement |-> announcement])
    /\ UNCHANGED announcement

ClaimClearedRoot(caller) ==                              \* mutant: resets before it reads
    /\ caller = pendingRoot
    /\ pendingRoot' = NoAccount
    /\ root' = pendingRoot'
    /\ BeginReign(caller)
    /\ UNCHANGED <<now, granters, revokers, cancelers, granted, delay, scheduled>>

ClaimRoot(caller) ==
    /\ caller = pendingRoot
    /\ root' = pendingRoot
    /\ pendingRoot' = NoAccount
    /\ BeginReign(caller)
    /\ UNCHANGED <<now, granters, revokers, cancelers, granted, delay, scheduled>>

GrantDirectly(caller, a, account, where) ==
    /\ GrantPermission(caller, a, account, where)
    /\ UNCHANGED <<now, root, granters, revokers, cancelers, scheduled, history>>

RevokeDirectly(caller, a, account, where) ==
    /\ RevokePermission(caller, a, account, where)
    /\ UNCHANGED <<now, root, granters, revokers, cancelers, scheduled, history>>

RenouncePermission(caller, a, where) ==
    /\ TakePermission(a, caller, where)
    /\ UNCHANGED <<now, root, granters, revokers, cancelers, scheduled, history>>

AddGranter(caller, a, account, where) ==
    /\ IsRoot(caller)
    /\ ~IsGranter(a, account, where)
    /\ granters' = granters \cup {<<a, account, where>>}
    /\ UNCHANGED <<now, root, pendingRoot, revokers, cancelers, granted, delay, scheduled, history>>

RemoveGranter(caller, a, account, where) ==
    /\ IsRoot(caller)
    /\ IsGranter(a, account, where)
    /\ ~IsRoot(account)
    /\ <<a, account, Everywhere>> \in granters => where = Everywhere
    /\ granters' = granters \ {<<a, account, where>>}
    /\ UNCHANGED <<now, root, pendingRoot, revokers, cancelers, granted, delay, scheduled, history>>

AddRevoker(caller, account, where) ==
    /\ IsRoot(caller)
    /\ ~IsRevoker(account, where)
    /\ revokers' = revokers \cup {<<account, where>>}
    /\ UNCHANGED <<now, root, pendingRoot, granters, cancelers, granted, delay, scheduled, history>>

RemoveRevoker(caller, account, where) ==
    /\ IsRoot(caller)
    /\ IsRevoker(account, where)
    /\ ~IsRoot(account)
    /\ <<account, Everywhere>> \in revokers => where = Everywhere
    /\ revokers' = revokers \ {<<account, where>>}
    /\ UNCHANGED <<now, root, pendingRoot, granters, cancelers, granted, delay, scheduled, history>>

AddCanceler(caller, id, account) ==
    /\ IsRoot(caller)
    /\ ~IsCanceler(id, account)
    /\ id # GlobalId => id \in 1 .. Len(scheduled) /\ IsPending(scheduled[id])
    /\ cancelers' = cancelers \cup {<<id, account>>}
    /\ UNCHANGED <<now, root, pendingRoot, granters, revokers, granted, delay, scheduled, history>>

RemoveLocalCanceler(caller, id, account) ==              \* mutant: ignores global cancelers
    /\ IsRoot(caller)
    /\ ~IsRoot(account)
    /\ IsCanceler(id, account)
    /\ cancelers' = cancelers \ {<<id, account>>}
    /\ UNCHANGED <<now, root, pendingRoot, granters, revokers, granted, delay, scheduled, history>>

RemoveCanceler(caller, id, account) ==
    /\ IsRoot(caller)
    /\ ~IsRoot(account)
    /\ IsCanceler(id, account)
    /\ <<GlobalId, account>> \in cancelers => id = GlobalId
    /\ cancelers' = cancelers \ {<<id, account>>}
    /\ UNCHANGED <<now, root, pendingRoot, granters, revokers, granted, delay, scheduled, history>>

Tick ==
    /\ now < MaxTime
    /\ now' = now + 1
    /\ UNCHANGED <<root, pendingRoot, granters, revokers, cancelers, granted, delay, scheduled, history>>

Next ==
    \/ Tick
    \/ \E caller \in Accounts :
        \/ ClaimRoot(caller)
        \/ \E id \in 1 .. Len(scheduled) : Execute(caller, id) \/ Cancel(caller, id)
        \/ \E x \in ExecutorSets :
            \/ \E r \in RootInputs : ScheduleRootChange(caller, r, x)
            \/ \E d \in DelayInputs : ScheduleDelayChange(caller, d[1], d[2], d[3], x)
            \/ \E g \in GrantInputs :
                \/ ScheduleGrantPermission(caller, g[1], g[2], g[3], x)
                \/ ScheduleRevokePermission(caller, g[1], g[2], g[3], x)
            \/ \E a \in ActionIds, t \in Targets : Schedule(caller, a, t, x)
        \/ \E g \in GrantInputs :
            \/ GrantDirectly(caller, g[1], g[2], g[3])
            \/ RevokeDirectly(caller, g[1], g[2], g[3])
            \/ RenouncePermission(caller, g[1], g[3])
            \/ AddGranter(caller, g[1], g[2], g[3])
            \/ RemoveGranter(caller, g[1], g[2], g[3])
        \/ \E r \in RevokerInputs :
            \/ AddRevoker(caller, r[1], r[2])
            \/ RemoveRevoker(caller, r[1], r[2])
        \/ \E c \in CancelerInputs :
            \/ AddCanceler(caller, c[1], c[2])
            \/ RemoveCanceler(caller, c[1], c[2])

Spec == Init /\ [][Next]_vars

---------------------------------------------------------------------------
(* Properties.                                                             *)

(* The earliest moments at which something of this kind could happen: an   *)
(* execution of action a (kind "setDelay"), a grant or a revocation of a   *)
(* permission for a.  It may be asked for now and happen once the delay is *)
(* over, or the delay may first be replaced by a pending delay change, or  *)
(* it is already scheduled.                                                *)
DelayedCall(kind) == CASE kind = "setDelay" -> "perform"
                       [] kind = "setGrantDelay" -> "grantPermission"
                       [] kind = "setRevokeDelay" -> "revokePermission"

Later(s, t) == IF s < t THEN t ELSE s

Pending(fn, a) == {i \in 1 .. Len(scheduled) : /\ IsPending(scheduled[i])
                                               /\ scheduled[i].data.fn = fn
                                               /\ scheduled[i].data.actionId = a}

Feasible(kind, a) ==
    {now + delay[kind][a]}
    \cup {Later(now, scheduled[i].executableAt) + scheduled[i].data.delay : i \in Pending(kind, a)}
    \cup {Later(now, scheduled[i].executableAt) : i \in Pending(DelayedCall(kind), a)}

(* Delays cannot be bypassed: whatever root, the granters, the revokers    *)
(* and the executors do, the earliest feasible moment of an execution, a   *)
(* grant or a revocation never moves closer.  In particular reducing a     *)
(* delay and scheduling right afterwards is never faster than scheduling   *)
(* with the delay that was in force when the reduction was scheduled.      *)
NoticeIsNeverShortened ==
    [][\A kind \in DelayKinds, a \in ActionIds :
          \A t \in Feasible(kind, a)' : \E s \in Feasible(kind, a) : s <= t]_vars

(* The reigns, and that of the pending root as if it were claimed now.     *)
Claims ==
    IF pendingRoot = NoAccount THEN reigns
    ELSE Append(reigns, [root |-> pendingRoot, since |-> now, announcement |-> announcement])

(* An account reigns from when it claims the root to when another does.    *)
WasRoot(account, time) ==
    \E k \in 1 .. Len(reigns) :
        /\ reigns[k].root = account
        /\ reigns[k].since <= time
        /\ k < Len(reigns) => time <= reigns[k + 1].since

(* The account was named by an execution that the root of its time has     *)
(* scheduled, and that was executed RootTransferDelay later or more, before *)
(* the reign.                                                              *)
Announced(reign) ==
    /\ reign.announcement \in 1 .. Len(scheduled)
    /\ LET e == scheduled[reign.announcement]
       IN  /\ e.data = [fn |-> "setPendingRoot", account |-> reign.root]
           /\ WasRoot(e.scheduledBy, e.scheduledAt)
           /\ e.executed /\ ~e.canceled
           /\ e.scheduledAt + RootTransferDelay <= e.executedAt
           /\ e.executedAt <= reign.since

ByConstructor(k, reign) == k = 2 /\ reign.root = NextRoot /\ reign.announcement = 0

(* The root changes hands only to an account that a root announced, and    *)
(* each announcement serves once: an account that was root and is not any  *)
(* more has to be announced again to come back, and the constructor's      *)
(* nextRoot may follow without notice on the initial root and on nobody    *)
(* else.  The announcement may be that of a root that reigns no longer.    *)
RootChangeIsAnnounced ==
    /\ root = reigns[Len(reigns)].root
    /\ \A k \in 2 .. Len(Claims) :
         /\ ByConstructor(k, Claims[k]) \/ Announced(Claims[k])
         /\ \A j \in 2 .. k - 1 : Claims[j].announcement # Claims[k].announcement

(* Nothing happens before it is feasible: a permission is granted, and an  *)
(* execution of a target's action is carried out, only when the earliest   *)
(* feasible moment has come.                                               *)
NothingHappensEarly ==
    [][/\ \A p \in granted' \ granted : \E s \in Feasible("setGrantDelay", p[1]) : s <= now
       /\ \A i \in 1 .. Len(scheduled) :
            /\ ~scheduled[i].executed /\ scheduled'[i].executed
            /\ scheduled[i].data.fn = "perform"
            => \E s \in Feasible("setDelay", scheduled[i].data.actionId) : s <= now]_vars

(* Removing a privilege takes it away: after a permission, granter,        *)
(* revoker or canceler entry is deleted the corresponding query answers no *)
(* and does not fall back on a global entry.                               *)
RemovalIsEffective ==
    [][/\ \A p \in granted \ granted' : ~HasPermission(p[1], p[2], p[3])'
       /\ \A g \in granters \ granters' : ~IsGranter(g[1], g[2], g[3])'
       /\ \A r \in revokers \ revokers' : ~IsRevoker(r[1], r[2])'
       /\ \A c \in cancelers \ cancelers' : ~IsCanceler(c[1], c[2])']_vars

(* A reduction of a delay takes effect only after the difference between   *)
(* the two delays has been waited for.                                     *)
ReductionWaitsDifference ==
    [][\A i \in 1 .. Len(scheduled) :
         LET e == scheduled[i]
         IN  /\ ~e.executed
             /\ scheduled'[i].executed
             /\ e.data.fn = "setDelay"
             => now - e.scheduledAt >= delay["setDelay"][e.data.actionId] - e.data.delay]_vars
=============================================================================
