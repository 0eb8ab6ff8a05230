------------------------- MODULE MCGaugeController ------------------------
(***************************************************************************)
(* Two parts, one at a time.  GaugeController with two users and two       *)
(* gauges, in two topics: the votes of users whose locks are prolonged,    *)
(* expire and are made again, after both gauges have been added; and, from *)
(* deployment, the administration of types and gauges between the votes of *)
(* one user with one lock.  And DistributionScheduler with the same        *)
(* gauges, one of which has two reward tokens and shares one of them with  *)
(* the other.                                                              *)
(***************************************************************************)
EXTENDS GaugeController, DistributionScheduler, TLC

CONSTANTS u, v, g, h, s, t

VARIABLE part   \* the one that does not rest

MCLocks == {[slope |-> 2, end |-> 8], [slope |-> 2, end |-> 12]}

After(points, w) == [x \in Weeks |-> IF x = w THEN points ELSE 0]

(* A reachable state: a type of weight 2, gauge g without weight and gauge *)
(* h of weight 5; both users have locks.                                   *)
VotingInit ==
    LET next == RoundDown(DeployTime) + WEEK
        five == Curve([w \in Weeks |-> Point(IF w = next THEN 5 ELSE 0, 0)], [w \in Weeks |-> 0], next)
    IN  /\ now = DeployTime
        /\ locks = (u :> [slope |-> 2, end |-> 8] @@ v :> [slope |-> 2, end |-> 12])
        /\ typeCount = 1
        /\ gaugeTypes = [x \in Gauges |-> 1]
        /\ weights = (g :> [Flat EXCEPT !.time = next] @@ h :> five)
        /\ sums = (0 :> five @@ 1 :> Flat)
        /\ typeWeights = (0 :> Level(After(2, next), next) @@ 1 :> Level(After(0, next), 0))
        /\ total = Level(After(10, next), next)
        /\ votes = [x \in Users |-> [y \in Gauges |-> NoVote]]
        /\ votePower = [x \in Users |-> 0]
        /\ lastVote = [x \in Users |-> [y \in Gauges |-> 0]]
        /\ base = (g :> 0 @@ h :> 5)

MCRewardTokens == (g :> {s, t} @@ h :> {t})

MCInit ==
    /\ \/ part = "votes" /\ (VotingInit \/ GaugeInit)
       \/ part = "rewards" /\ GaugeInit
    /\ SchedulerInit

(* User v votes for g at once or not at all, and user u for h in the first *)
(* week, while u votes for g and moves the lock at any time.               *)
VotingScope ==
    /\ typeCount = 1
    /\ gaugeTypes = [x \in Gauges |-> 1]
    /\ base = (g :> 0 @@ h :> 5)
    /\ TypeWeight(0) = 2
    /\ typeWeights[1].time = 0
    /\ votes[v][g] \in {NoVote, VotedSlope(2, 2, 12)}
    /\ votes[v][h] = NoVote
    /\ lastVote[v][g] \in {0, 4}
    /\ lastVote[v][g] = 4 => votes[v][g] # NoVote
    /\ locks[v].end = 12
    /\ votes[u][h].power \in {0, 1}
    /\ lastVote[u][h] <= 5
    /\ lastVote[u][h] > 0 => votes[u][h] # NoVote
    /\ lastVote[u][g] > 0 => votes[u][g].power > 0

(* User u votes at most once, and the other curves are filled after it.    *)
AdministrationScope ==
    /\ now <= 6
    /\ locks[v] = NoLock
    /\ locks[u].end \in {0, 12}
    /\ locks[u].end = 12 => gaugeTypes[g] = 1
    /\ lastVote[u][g] > 0 => votes[u][g].power = 2
    /\ lastVote[u][h] = 0
    /\ gaugeTypes[g] # 1 => gaugeTypes[h] = 0
    /\ typeCount = 1 => typeWeights[1].time = 0

Scope == VotingScope \/ AdministrationScope

MCNext ==
    \/ part = "votes" /\ GaugeNext /\ UNCHANGED <<part, schedulerVars>>
    \/ part = "rewards" /\ SchedulerNext /\ UNCHANGED <<part, gaugeVars>>

MCSpec == MCInit /\ [][MCNext]_<<gaugeVars, schedulerVars, part>>
===========================================================================
