--------------------------- MODULE VotingEscrow ---------------------------
(***************************************************************************)
(* VotingEscrow.vy (pkg/liquidity-mining/contracts): veBAL.  A user locks  *)
(* tokens until the beginning of some week and has a balance that falls    *)
(* linearly to zero until then.  The total supply falls with the sum of    *)
(* the users' slopes; the slopes that end in a week are subtracted when    *)
(* the history of the total supply is filled up to that week.  Block       *)
(* numbers, kept for queries by block, are left out.                       *)
(***************************************************************************)
EXTENDS Integers, Sequences, FiniteSetsExt

CONSTANTS
    Users,
    WEEK,
    MAXTIME,            \* the longest lock
    CheckpointWeeks,    \* iterations of _checkpoint: 255
    DeployTime,
    MaxTime,            \* last timestamp of a run
    LockAmounts,        \* inputs
    UnlockTimes,
    MaxUserEpoch,       \* bound of the points of each user
    MaxEpoch            \* bound of the points at which anyone calls checkpoint

ASSUME TimeAssumption ==
    /\ IsFiniteSet(Users)
    /\ WEEK \in Nat \ {0}
    /\ MAXTIME \in Nat \ {0}
    /\ CheckpointWeeks \in Nat \ {0}
    /\ DeployTime \in Nat \ {0}
    /\ MaxTime \in Nat /\ DeployTime <= MaxTime
    /\ LockAmounts \subseteq Nat
    /\ UnlockTimes \subseteq Nat
    /\ MaxUserEpoch \in [Users -> Nat]

RoundDown(t) == (t \div WEEK) * WEEK
RoundUp(t) == RoundDown(t + WEEK - 1)
Earlier(s, t) == IF s < t THEN s ELSE t
Later(s, t) == IF s < t THEN t ELSE s

Weeks == {w \in 0 .. MaxTime + MAXTIME : w % WEEK = 0}

VARIABLES
    now,            \* block.timestamp
    locked,         \* user -> [amount, end]
    pointHistory,   \* the points of epochs 1 .. epoch
    userHistory,    \* user -> the points of epochs 1 .. user_point_epoch
    slopeChanges    \* week -> signed slope change

escrowVars == <<now, locked, pointHistory, userHistory, slopeChanges>>

Point == [bias : Nat, slope : Nat, ts : Nat]
Lock(amount, end) == [amount |-> amount, end |-> end]
NoLock == Lock(0, 0)

EscrowTypeOK ==
    /\ now \in Nat
    /\ locked \in [Users -> [amount : Nat, end : Weeks]]
    /\ pointHistory \in Seq(Point)
    /\ userHistory \in [Users -> Seq(Point)]
    /\ slopeChanges \in [Weeks -> Int]

EscrowInit ==
    /\ now = DeployTime
    /\ locked = [u \in Users |-> NoLock]
    /\ pointHistory = <<>>
    /\ userHistory = [u \in Users |-> <<>>]
    /\ slopeChanges = [w \in Weeks |-> 0]

---------------------------------------------------------------------------
(* _checkpoint.                                                            *)

AtLeastZero(n) == IF n < 0 THEN 0 ELSE n

BalanceAtPoint(point, t) == AtLeastZero(point.bias - point.slope * (t - point.ts))

(* A point moved on to t, the beginning of its next week or earlier.       *)
Advance(point, t) ==
    [bias  |-> BalanceAtPoint(point, t),
     slope |-> AtLeastZero(point.slope + IF t \in Weeks /\ t > point.ts THEN slopeChanges[t] ELSE 0),
     ts    |-> t]

(* The points that fill the history: one for each week that began since    *)
(* the last point, and one for now.                                        *)
NewPoints ==
    LET last == IF pointHistory = <<>> THEN [bias |-> 0, slope |-> 0, ts |-> now]
                ELSE pointHistory[Len(pointHistory)]
        at(i) == Earlier(now, RoundDown(last.ts) + i * WEEK)
        weeks == (RoundUp(now) - RoundDown(last.ts)) \div WEEK
        count == Earlier(CheckpointWeeks, Later(1, weeks))
        point[i \in 0 .. count] == IF i = 0 THEN last ELSE Advance(point[i - 1], at(i))
    IN  [i \in 1 .. count |-> point[i]]

FilledHistory == pointHistory \o NewPoints

(* What a lock contributes to the balance of its owner now.                *)
PointOf(lock) ==
    LET slope == lock.amount \div MAXTIME
    IN  IF lock.end > now
        THEN [bias |-> slope * (lock.end - now), slope |-> slope, ts |-> now]
        ELSE [bias |-> 0, slope |-> 0, ts |-> now]

\* mutant: the slope of a prolonged lock also ends at its old end
ChangedSlopesKeepingEnd(old, new) ==
    [w \in Weeks |->
       slopeChanges[w] - IF w = new.end /\ new.end > now THEN PointOf(new).slope ELSE 0]

(* The slope of the old lock no longer ends at its end, that of the new    *)
(* lock does.                                                              *)
ChangedSlopes(old, new) ==
    [w \in Weeks |->
       slopeChanges[w]
         + (IF w = old.end /\ old.end > now THEN PointOf(old).slope ELSE 0)
         - (IF w = new.end /\ new.end > now THEN PointOf(new).slope ELSE 0)]

CheckpointLock(u, old, new) ==
    LET filled == FilledHistory
        last == filled[Len(filled)]
        changed == [bias  |-> AtLeastZero(last.bias + PointOf(new).bias - PointOf(old).bias),
                    slope |-> AtLeastZero(last.slope + PointOf(new).slope - PointOf(old).slope),
                    ts    |-> last.ts]
    IN  /\ pointHistory' = [filled EXCEPT ![Len(filled)] = changed]
        /\ slopeChanges' = ChangedSlopes(old, new)
        /\ userHistory' = [userHistory EXCEPT ![u] = Append(@, PointOf(new))]

---------------------------------------------------------------------------

(* _deposit_for: unlockTime is 0 to leave it.                              *)
Deposit(u, value, unlockTime) ==
    LET old == locked[u]
        new == Lock(old.amount + value, IF unlockTime # 0 THEN unlockTime ELSE old.end)
    IN  /\ locked' = [locked EXCEPT ![u] = new]
        /\ CheckpointLock(u, old, new)
        /\ UNCHANGED now

CreateLock(u, value, unlockTime) ==
    /\ value > 0
    /\ locked[u].amount = 0
    /\ RoundDown(unlockTime) > now
    /\ RoundDown(unlockTime) <= now + MAXTIME
    /\ Deposit(u, value, RoundDown(unlockTime))

(* deposit_for by anyone, and increase_amount by the user.                 *)
DepositFor(u, value) ==
    /\ value > 0
    /\ locked[u].amount > 0
    /\ locked[u].end > now
    /\ Deposit(u, value, 0)

IncreaseUnlockTime(u, unlockTime) ==
    /\ locked[u].end > now
    /\ locked[u].amount > 0
    /\ RoundDown(unlockTime) > locked[u].end
    /\ RoundDown(unlockTime) <= now + MAXTIME
    /\ Deposit(u, 0, RoundDown(unlockTime))

(* The checkpoint is made with the lock that has expired or never was.     *)
Withdraw(u) ==
    /\ now >= locked[u].end
    /\ locked' = [locked EXCEPT ![u] = NoLock]
    /\ CheckpointLock(u, locked[u], NoLock)
    /\ UNCHANGED now

Checkpoint ==
    /\ Len(pointHistory) < MaxEpoch
    /\ pointHistory' = FilledHistory
    /\ UNCHANGED <<now, locked, userHistory, slopeChanges>>

EscrowTick ==
    /\ now < MaxTime
    /\ now' = now + 1
    /\ UNCHANGED <<locked, pointHistory, userHistory, slopeChanges>>

EscrowNext ==
    \/ \E u \in Users :
         /\ Len(userHistory[u]) < MaxUserEpoch[u]
         /\ \/ \E value \in LockAmounts, t \in UnlockTimes : CreateLock(u, value, t)
            \/ \E value \in LockAmounts : DepositFor(u, value)
            \/ \E t \in UnlockTimes : IncreaseUnlockTime(u, t)
            \/ Withdraw(u)
    \/ Checkpoint
    \/ EscrowTick

EscrowSpec == EscrowInit /\ [][EscrowNext]_escrowVars

---------------------------------------------------------------------------
(* Queries.                                                                *)

(* find_timestamp_epoch, find_timestamp_user_epoch: the last epoch that    *)
(* began by t, or 0; a history is in the order of time.                    *)
EpochAt(history, t) == Cardinality({e \in DOMAIN history : history[e].ts <= t})

BalanceOf(u, t) ==
    LET e == EpochAt(userHistory[u], t)
    IN  IF e = 0 THEN 0 ELSE BalanceAtPoint(userHistory[u][e], t)

(* supply_at, from the last point of the history by t.                     *)
TotalSupplyIn(history, t) ==
    LET e == EpochAt(history, t)
        point == history[e]
        ended == {w \in Weeks : point.ts < w /\ w < t}
    IN  IF e = 0 THEN 0
        ELSE AtLeastZero(point.bias - point.slope * (t - point.ts)
                           - MapThenSumSet(LAMBDA w : slopeChanges[w] * (t - w), ended))

TotalSupply(t) == TotalSupplyIn(pointHistory, t)

(* Now and at the beginning of any week, past or future, the total supply  *)
(* is the sum of the users' balances, however locks are made, added to,    *)
(* prolonged and withdrawn and however far the history has been filled     *)
(* (_checkpoint, supply_at).                                               *)
SupplyIsSumOfBalances ==
    \A t \in Weeks \cup {now} :
        TotalSupply(t) = MapThenSumSet(LAMBDA u : BalanceOf(u, t), Users)
===========================================================================
