------------------------- MODULE MCFeeDistributor -------------------------
(* FeeDistributor with two users, from two initial states: one in which    *)
(* user b has locked, and has added to the lock, before the distribution   *)
(* starts, to study the distribution; and the deployment of VotingEscrow,  *)
(* to study the locks of both users.                                       *)
EXTENDS FeeDistributor, TLC

CONSTANTS a, b

MCMaxUserEpoch == (a :> 2 @@ b :> 4)

End == 4

PointAt(slope) == [bias |-> slope * (End - DeployTime), slope |-> slope, ts |-> DeployTime]

LockedInit ==
    /\ now = DeployTime
    /\ locked = (a :> NoLock @@ b :> Lock(2 * MAXTIME, End))
    /\ pointHistory = <<PointAt(1), PointAt(2)>>
    /\ userHistory = (a :> <<>> @@ b :> pointHistory)
    /\ slopeChanges = [w \in Weeks |-> IF w = End THEN -2 ELSE 0]

MCInit ==
    /\ LockedInit \/ EscrowInit
    /\ FeeInit

IsLockedInit ==
    /\ Len(pointHistory) >= 2
    /\ SubSeq(pointHistory, 1, 2) = <<PointAt(1), PointAt(2)>>

(* User a locks before the middle of the second week; or b withdraws as    *)
(* soon as the lock has expired, and locks again at any time; or neither,  *)
(* and tokens arrive twice.                                                *)
DistributionScope ==
    \/ userHistory[a] = <<>> /\ Len(userHistory[b]) = 2
    \/ /\ held <= 5
       /\ Len(userHistory[b]) = 2
       /\ \/ Len(userHistory[a]) = 1 /\ userHistory[a][1].ts <= 2
          \/ Len(userHistory[a]) = 1 /\ userHistory[a][1].ts = 3 /\ locked[a].end = 8
    \/ /\ held <= 5
       /\ userHistory[a] = <<>>
       /\ userHistory[b][3].bias = 0
       /\ userHistory[b][3].ts = End

(* Three calls of both users, and nothing distributed.                     *)
EscrowScope ==
    /\ now <= 5
    /\ Len(userHistory[a]) + Len(userHistory[b]) <= 3
    /\ timeCursor = StartTime
    /\ token.timeCursor = 0
    /\ held = 0
    /\ \A u \in Users : userTokenTimeCursor[u] = 0 /\ userState[u].timeCursor = 0

Scope == IF IsLockedInit THEN DistributionScope ELSE EscrowScope

MCSpec == MCInit /\ [][FeeNext]_feeVars
===========================================================================
