-------------------------- MODULE GaugeController --------------------------
(***************************************************************************)
(* GaugeController.vy (pkg/liquidity-mining/contracts): users of veBAL     *)
(* divide their voting power among gauges.  The weight of a gauge and the  *)
(* sum of the weights of a type fall linearly as locks run out; the total  *)
(* is the sum over the types, each with a weight of its own.  A curve has  *)
(* a point for each week up to the next one; the weeks since the last call *)
(* are filled by the next call.  Names and the list of gauges are left     *)
(* out.  A call that votes for several gauges is as many votes in a row.   *)
(***************************************************************************)
EXTENDS Integers, FiniteSetsExt

CONSTANTS
    Users,
    Gauges,
    Types,              \* 0, 1, ...
    WEEK,
    WEIGHT_VOTE_DELAY,  \* 10 days
    FillWeeks,          \* iterations of the loops over weeks: 500
    FullPower,          \* 10000
    MULTIPLIER,         \* 10 ** 18
    DeployTime,
    MaxTime,            \* last timestamp of a run
    Powers,             \* inputs
    Weights,
    TypeWeights,
    Locks               \* [slope, end] that VotingEscrow may have for a user

ASSUME GaugeAssumption ==
    /\ WEEK \in Nat \ {0}
    /\ WEIGHT_VOTE_DELAY \in Nat \ {0}
    /\ FillWeeks \in Nat \ {0}
    /\ FullPower \in Nat \ {0}
    /\ DeployTime \in Nat /\ DeployTime >= WEIGHT_VOTE_DELAY
    /\ MaxTime \in Nat /\ DeployTime <= MaxTime
    /\ Powers \subseteq 0 .. FullPower
    /\ Weights \subseteq Nat
    /\ TypeWeights \subseteq Nat
    /\ Locks \subseteq [slope : Nat, end : Nat]
    /\ \A lock \in Locks : lock.end % WEEK = 0
    /\ IsFiniteSet(Users) /\ IsFiniteSet(Gauges) /\ IsFiniteSet(Locks) /\ IsFiniteSet(Types)
    /\ Types = 0 .. Cardinality(Types) - 1

VARIABLES
    now,            \* block.timestamp
    locks,          \* user -> get_last_user_slope and locked__end of VotingEscrow
    typeCount,      \* n_gauge_types
    gaugeTypes,     \* gauge -> its type plus one, or 0
    weights,        \* gauge -> curve: points_weight, changes_weight, time_weight
    sums,           \* type -> curve: points_sum, changes_sum, time_sum
    typeWeights,    \* type -> points_type_weight, time_type_weight
    total,          \* points_total, time_total
    votes,          \* user -> gauge -> vote_user_slopes
    votePower,      \* user -> vote_user_power
    lastVote,       \* user -> gauge -> last_user_vote
    base            \* not in the code: what is not votes of a gauge's weight

voteVars == <<votes, votePower, lastVote>>
setVars == <<typeCount, gaugeTypes>>
curveVars == <<weights, sums, typeWeights, total>>
gaugeVars == <<now, locks, setVars, curveVars, voteVars, base>>

RoundDown(t) == (t \div WEEK) * WEEK
NextWeek == RoundDown(now) + WEEK
Horizon == Max({MaxTime + WEEK} \cup {lock.end : lock \in Locks})
Weeks == {w \in 0 .. Horizon : w % WEEK = 0}
\* The weeks that may have points
FilledWeeks == {w \in Weeks : DeployTime < w /\ w <= NextWeek}
Later(s, t) == IF s < t THEN t ELSE s
Total(Op(_), S) == MapThenSumSet(Op, S)

Point(bias, slope) == [bias |-> bias, slope |-> slope]
VotedSlope(slope, power, end) == [slope |-> slope, power |-> power, end |-> end]
NoVote == VotedSlope(0, 0, 0)
NoLock == [slope |-> 0, end |-> 0]
Overridden == -1
Curve(points, changes, time) == [points |-> points, changes |-> changes, time |-> time]
Flat == Curve([w \in Weeks |-> Point(0, 0)], [w \in Weeks |-> 0], 0)
Level(points, time) == [points |-> points, time |-> time]

GaugeTypeOK ==
    LET Curves == [points : [Weeks -> [bias : Nat, slope : Nat]], changes : [Weeks -> Nat], time : Weeks]
        Levels == [points : [Weeks -> Nat], time : Weeks]
    IN  /\ now \in Nat
        /\ locks \in [Users -> Locks \cup {NoLock}]
        /\ typeCount \in 0 .. Cardinality(Types)
        /\ gaugeTypes \in [Gauges -> 0 .. typeCount]
        /\ weights \in [Gauges -> Curves]
        /\ sums \in [Types -> Curves]
        /\ typeWeights \in [Types -> Levels]
        /\ total \in Levels
        /\ votes \in [Users -> [Gauges -> [slope : Nat, power : Nat, end : Weeks]]]
        /\ votePower \in [Users -> 0 .. FullPower]
        /\ lastVote \in [Users -> [Gauges -> Nat]]
        /\ base \in [Gauges -> Nat \cup {Overridden}]

GaugeInit ==
    /\ now = DeployTime
    /\ locks = [u \in Users |-> NoLock]
    /\ typeCount = 0
    /\ gaugeTypes = [g \in Gauges |-> 0]
    /\ weights = [g \in Gauges |-> Flat]
    /\ sums = [k \in Types |-> Flat]
    /\ typeWeights = [k \in Types |-> Level([w \in Weeks |-> 0], 0)]
    /\ total = Level([w \in Weeks |-> 0], RoundDown(DeployTime))
    /\ votes = [u \in Users |-> [g \in Gauges |-> NoVote]]
    /\ votePower = [u \in Users |-> 0]
    /\ lastVote = [u \in Users |-> [g \in Gauges |-> 0]]
    /\ base = [g \in Gauges |-> 0]

---------------------------------------------------------------------------
(* The weeks that are filled when the last one is time: until it is the    *)
(* next one, or the loop ends.                                             *)
FilledTo(time) ==
    IF time > now THEN time
    ELSE IF NextWeek <= time + FillWeeks * WEEK THEN NextWeek
    ELSE time + FillWeeks * WEEK

\* The time stored: the loop has to reach the next week
TimeAfter(time) == IF FilledTo(time) > now THEN FilledTo(time) ELSE time

\* mutant: a weight may fall below zero
DecayedBelowZero(point, change) == Point(point.bias - point.slope * WEEK, point.slope - change)

(* A point a week later; change is the slope that ends there.              *)
Decayed(point, change) ==
    LET fall == point.slope * WEEK
    IN  IF point.bias > fall THEN Point(point.bias - fall, point.slope - change) ELSE Point(0, 0)

(* The curve week by week, as if no call but these changed it any more.    *)
Projected(curve) ==
    LET point[w \in Weeks] ==
          IF w <= curve.time THEN curve.points[w] ELSE Decayed(point[w - WEEK], curve.changes[w])
    IN  point

(* _get_weight and _get_sum.                                               *)
Filled(curve) ==
    IF curve.time = 0 THEN curve
    ELSE Curve([w \in Weeks |-> IF w > FilledTo(curve.time) THEN curve.points[w] ELSE Projected(curve)[w]],
               curve.changes, TimeAfter(curve.time))

\* What they return
Bias(curve) == IF curve.time = 0 THEN 0 ELSE Filled(curve).points[FilledTo(curve.time)].bias

(* A slope less than the change to subtract makes the call revert.         *)
Fillable(curve) == \A w \in FilledWeeks : Filled(curve).points[w].slope >= 0

(* _get_type_weight *)
FilledLevel(level) ==
    IF level.time = 0 THEN level
    ELSE Level([w \in Weeks |-> IF level.time < w /\ w <= FilledTo(level.time) THEN level.points[level.time]
                                ELSE level.points[w]],
               TimeAfter(level.time))

\* What it returns
TypeWeight(k) == typeWeights[k].points[typeWeights[k].time]

AddedTypes(n) == {k \in Types : k < n}

\* mutant: the next week is not computed again when it has been
FilledTotalOnce(n, curves, levels) ==
    Level([w \in Weeks |->
             IF total.time < w /\ w <= FilledTo(total.time)
             THEN Total(LAMBDA k : curves[k].points[w].bias * levels[k].points[w], AddedTypes(n))
             ELSE total.points[w]],
          TimeAfter(total.time))

\* The next week is computed again
TotalStart == IF total.time > now THEN total.time - WEEK ELSE total.time

(* _get_total, from n types with the curves and levels filled.             *)
FilledTotal(n, curves, levels) ==
    LET last == TotalStart
    IN  Level([w \in Weeks |->
                 IF last < w /\ w <= FilledTo(last)
                 THEN Total(LAMBDA k : curves[k].points[w].bias * levels[k].points[w], AddedTypes(n))
                 ELSE total.points[w]],
              IF FilledTo(last) > now THEN FilledTo(last) ELSE total.time)

FilledSums(n, curves) == [k \in Types |-> IF k < n THEN Filled(curves[k]) ELSE curves[k]]
FilledLevels(n) == [k \in Types |-> IF k < n THEN FilledLevel(typeWeights[k]) ELSE typeWeights[k]]

SumsFillable(n, curves) == \A k \in AddedTypes(n) : Fillable(curves[k])

(* The call of _get_total for n types when the sums are curves.            *)
FillTotal(n, curves) ==
    /\ SumsFillable(n, curves)
    /\ sums' = FilledSums(n, curves)
    /\ typeWeights' = FilledLevels(n)
    /\ total' = FilledTotal(n, FilledSums(n, curves), FilledLevels(n))

---------------------------------------------------------------------------
(* Gauges and types, by the AuthorizerAdaptor.                             *)

NewBias(curve, bias) ==
    Curve([curve.points EXCEPT ![NextWeek] = Point(bias, curve.points[NextWeek].slope)], curve.changes, NextWeek)

\* mutant: the new weight counts in this week already
NewLevelNow(level, n) == Level([level.points EXCEPT ![RoundDown(now)] = n, ![NextWeek] = n], NextWeek)

NewLevel(level, n) == Level([level.points EXCEPT ![NextWeek] = n], NextWeek)

(* The common part of add_gauge and _change_gauge_weight: the next week of *)
(* type k gets a new sum.                                                  *)
ChangeSum(k, newSum) ==
    LET filled == FilledSums(typeCount, sums)
        levels == FilledLevels(typeCount)
        all == FilledTotal(typeCount, filled, levels)
        newTotal == all.points[FilledTo(TotalStart)] + (newSum - Bias(sums[k])) * TypeWeight(k)
    IN  /\ SumsFillable(typeCount, sums)
        /\ newSum >= 0
        /\ newTotal >= 0
        /\ typeWeights' = levels
        /\ sums' = [filled EXCEPT ![k] = NewBias(filled[k], newSum)]
        /\ total' = NewLevel(all, newTotal)

AddGauge(g, k, weight) ==
    /\ k < typeCount
    /\ gaugeTypes[g] = 0
    /\ gaugeTypes' = [gaugeTypes EXCEPT ![g] = k + 1]
    /\ weights' = [weights EXCEPT ![g] = NewBias(weights[g], weight)]
    /\ base' = [base EXCEPT ![g] = weight]
    /\ IF weight > 0 THEN ChangeSum(k, Bias(sums[k]) + weight)
       ELSE /\ sums' = [sums EXCEPT ![k].time = IF sums[k].time = 0 THEN NextWeek ELSE sums[k].time]
            /\ UNCHANGED <<typeWeights, total>>
    /\ UNCHANGED <<now, locks, typeCount, voteVars>>

(* change_gauge_weight: the slope stays.                                   *)
ChangeGaugeWeight(g, weight) ==
    LET k == gaugeTypes[g] - 1
        filled == Filled(weights[g])
    IN  /\ gaugeTypes[g] > 0
        /\ Fillable(weights[g])
        /\ weights' = [weights EXCEPT ![g] = NewBias(filled, weight)]
        /\ ChangeSum(k, Bias(sums[k]) + weight - Bias(weights[g]))
        /\ base' = [base EXCEPT ![g] = IF filled.points[NextWeek].slope = 0 /\ base[g] # Overridden
                                      THEN weight ELSE Overridden]
        /\ UNCHANGED <<now, locks, setVars, voteVars>>

(* _change_type_weight when there are n types.                             *)
SetTypeWeight(n, k, weight) ==
    LET filled == [FilledSums(n, sums) EXCEPT ![k] = Filled(sums[k])]
        levels == [FilledLevels(n) EXCEPT ![k] = FilledLevel(typeWeights[k])]
        all == FilledTotal(n, filled, levels)
        newTotal == all.points[FilledTo(TotalStart)] + Bias(sums[k]) * (weight - TypeWeight(k))
    IN  /\ SumsFillable(n, sums)
        /\ newTotal >= 0
        /\ sums' = filled
        /\ typeWeights' = [levels EXCEPT ![k] = NewLevel(levels[k], weight)]
        /\ total' = NewLevel(all, newTotal)

ChangeTypeWeight(k, weight) ==
    /\ SetTypeWeight(typeCount, k, weight)
    /\ UNCHANGED <<now, locks, setVars, weights, voteVars, base>>

AddType(weight) ==
    /\ typeCount \in Types
    /\ typeCount' = typeCount + 1
    /\ IF weight # 0 THEN SetTypeWeight(typeCount + 1, typeCount, weight)
       ELSE UNCHANGED <<sums, typeWeights, total>>
    /\ UNCHANGED <<now, locks, gaugeTypes, weights, voteVars, base>>
---------------------------------------------------------------------------
(* checkpoint *)
Checkpoint ==
    /\ FillTotal(typeCount, sums)
    /\ UNCHANGED <<now, locks, setVars, weights, voteVars, base>>

(* checkpoint_gauge and gauge_relative_weight_write *)
CheckpointGauge(g) ==
    /\ Fillable(weights[g])
    /\ weights' = [weights EXCEPT ![g] = Filled(weights[g])]
    /\ FillTotal(typeCount, sums)
    /\ UNCHANGED <<now, locks, setVars, voteVars, base>>

(* What is left of a vote in week w.                                       *)
BiasAt(vote, w) == IF vote.end > w THEN vote.slope * (vote.end - w) ELSE 0

VoteBias(vote) == BiasAt(vote, NextWeek)

Changes(curve, old, new) ==
    [w \in Weeks |->
       curve.changes[w] - (IF w = old.end /\ old.end > now THEN old.slope ELSE 0)
                        + (IF w = new.end THEN new.slope ELSE 0)]

\* mutant: the slope of a vote that has run out is subtracted again
VotedAlways(curve, old, new) ==
    LET filled == Filled(curve)
        slope == filled.points[NextWeek].slope
        point == Point(Later(Bias(curve) + VoteBias(new), VoteBias(old)) - VoteBias(old),
                       Later(slope + new.slope, old.slope) - old.slope)
    IN  Curve([filled.points EXCEPT ![NextWeek] = point], Changes(curve, old, new), filled.time)

\* mutant: the slope of a vote that replaces none is left out
VotedWithoutSlope(curve, old, new) ==
    LET filled == Filled(curve)
        slope == filled.points[NextWeek].slope
        point == Point(Later(Bias(curve) + VoteBias(new), VoteBias(old)) - VoteBias(old),
                       IF old.end > NextWeek THEN Later(slope + new.slope, old.slope) - old.slope
                       ELSE slope)
    IN  Curve([filled.points EXCEPT ![NextWeek] = point], Changes(curve, old, new), filled.time)

(* A curve after a vote is replaced.                                       *)
Voted(curve, old, new) ==
    LET filled == Filled(curve)
        slope == filled.points[NextWeek].slope
        point == Point(Later(Bias(curve) + VoteBias(new), VoteBias(old)) - VoteBias(old),
                       IF old.end > NextWeek THEN Later(slope + new.slope, old.slope) - old.slope
                       ELSE slope + new.slope)
    IN  Curve([filled.points EXCEPT ![NextWeek] = point], Changes(curve, old, new), filled.time)

Votable(curve, old) ==
    /\ Fillable(curve)
    /\ old.end > now => curve.changes[old.end] >= old.slope

\* mutant: the power of the vote that is replaced is not released
PowerWithoutRelease(u, g, power) == votePower[u] + power

PowerAfter(u, g, power) == votePower[u] + power - votes[u][g].power

(* vote_for_gauge_weights *)
Vote(u, g, power) ==
    LET k == gaugeTypes[g] - 1
        old == votes[u][g]
        new == VotedSlope((locks[u].slope * power) \div FullPower, power, locks[u].end)
    IN  /\ locks[u].end > NextWeek
        /\ now >= lastVote[u][g] + WEIGHT_VOTE_DELAY
        /\ gaugeTypes[g] > 0
        /\ PowerAfter(u, g, power) <= FullPower
        /\ Votable(weights[g], old)
        /\ Votable(sums[k], old)
        /\ votePower' = [votePower EXCEPT ![u] = PowerAfter(u, g, power)]
        /\ votes' = [votes EXCEPT ![u][g] = new]
        /\ lastVote' = [lastVote EXCEPT ![u][g] = now]
        /\ weights' = [weights EXCEPT ![g] = Voted(weights[g], old, new)]
        /\ FillTotal(typeCount, [sums EXCEPT ![k] = Voted(sums[k], old, new)])
        /\ UNCHANGED <<now, locks, setVars, base>>

---------------------------------------------------------------------------
(* VotingEscrow: a lock only grows until it expires; then it is withdrawn, *)
(* and another one made.                                                   *)
ChangeLock(u, lock) ==
    /\ lock.end > now
    /\ locks[u].end > now => lock.end >= locks[u].end /\ lock.slope >= locks[u].slope
    /\ locks' = [locks EXCEPT ![u] = lock]
    /\ UNCHANGED <<now, setVars, curveVars, voteVars, base>>

Withdraw(u) ==
    /\ locks[u].end <= now
    /\ locks' = [locks EXCEPT ![u] = NoLock]
    /\ UNCHANGED <<now, setVars, curveVars, voteVars, base>>

GaugeTick ==
    /\ now < MaxTime
    /\ now' = now + 1
    /\ UNCHANGED <<locks, setVars, curveVars, voteVars, base>>

GaugeNext ==
    \/ \E weight \in TypeWeights : AddType(weight)
    \/ \E k \in Types, weight \in TypeWeights : ChangeTypeWeight(k, weight)
    \/ \E g \in Gauges, k \in Types, weight \in Weights : AddGauge(g, k, weight)
    \/ \E g \in Gauges, weight \in Weights : ChangeGaugeWeight(g, weight)
    \/ Checkpoint
    \/ \E g \in Gauges : CheckpointGauge(g)
    \/ \E u \in Users, g \in Gauges, power \in Powers : Vote(u, g, power)
    \/ \E u \in Users, lock \in Locks : ChangeLock(u, lock)
    \/ \E u \in Users : Withdraw(u)
    \/ GaugeTick

GaugeSpec == GaugeInit /\ [][GaugeNext]_gaugeVars

---------------------------------------------------------------------------
(* What the curves are once a call has filled them.                        *)

GaugeWeight(g, w) == Filled(weights[g]).points[w].bias
TotalWeight(w) == FilledTotal(typeCount, FilledSums(typeCount, sums), FilledLevels(typeCount)).points[w]
TypedWeight(g, w) ==
    IF gaugeTypes[g] = 0 THEN 0
    ELSE FilledLevel(typeWeights[gaugeTypes[g] - 1]).points[w] * GaugeWeight(g, w)

Added == {g \in Gauges : gaugeTypes[g] > 0}

\* No gauge with votes has had its weight changed (change_gauge_weight)
NotOverridden == \A g \in Gauges : base[g] # Overridden

(* The weight of a gauge in the next week and in every week after it is    *)
(* the weight it was given and what is left of the last vote of each user  *)
(* for it, however votes are repeated, replaced before or after they have  *)
(* run out, and filled (_vote_for_gauge_weights, _get_weight).             *)
VotesAreCounted ==
    NotOverridden =>
      \A gauge \in Added, w \in Weeks : w >= NextWeek =>
        Projected(weights[gauge])[w].bias =
          base[gauge] + Total(LAMBDA user : BiasAt(votes[user][gauge], w), Users)

(* In every week up to the next one the total is the sum of the gauges'    *)
(* weights times those of their types, although gauges, sums, types and    *)
(* the total are filled by different calls (_get_sum, _get_total).         *)
TotalIsWeightedSum ==
    NotOverridden =>
      \A w \in FilledWeeks : TotalWeight(w) = Total(LAMBDA g : TypedWeight(g, w), Gauges)

(* Anyone can fill the weights at any time: no slope that ends is more     *)
(* than the slope there is (checkpoint, checkpoint_gauge).                 *)
CheckpointNeverReverts ==
    NotOverridden =>
      /\ \A g \in Gauges : Fillable(weights[g])
      /\ SumsFillable(typeCount, sums)

(* A user's votes use no more than the user's power, and what is recorded  *)
(* as used is what the votes use (vote_user_power).                        *)
PowerIsDivided ==
    \A u \in Users : votePower[u] = Total(LAMBDA g : votes[u][g].power, Gauges)

(* The relative weights of the weeks that have begun, by which tokens are  *)
(* minted, are final: no vote, weight, gauge or type changes them any      *)
(* more, whether they were filled in time or not                           *)
(* (gauge_relative_weight_write).                                          *)
PastWeightsAreFinal ==
    [][\A w \in FilledWeeks : w <= now =>
         /\ TotalWeight(w)' = TotalWeight(w)
         /\ \A g \in Gauges : TypedWeight(g, w)' = TypedWeight(g, w)]_gaugeVars

(* "Get Gauge relative weight (not more than 1.0)" (GaugeController.vy:    *)
(* gauge_relative_weight_write, after filling).                            *)
RelativeWeightIsAtMostOne ==
    \A w \in FilledWeeks, g \in Gauges :
        TotalWeight(w) > 0 => (MULTIPLIER * TypedWeight(g, w)) \div TotalWeight(w) <= MULTIPLIER
===========================================================================
