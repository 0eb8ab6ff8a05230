SPECIFICATION MCSpec
CONSTANTS
 u = u
 v = v
 g = g
 h = h
 Users = {u,v}
 Gauges = {g,h}
 Types = {0,1}
 WEEK = 2
 WEIGHT_VOTE_DELAY = 3
 FillWeeks = 500
 FullPower = 2
 MULTIPLIER = 100
 DeployTime = 4
 MaxTime = 8
 Powers = {0, 1, 2}
 Weights = {0, 5}
 TypeWeights = {0, 2}
 Locks <- MCLocks
 s = s
 t = t
 RewardGauges = {g, h}
 RewardTokens <- MCRewardTokens
 SecondsInWeek = 2
 YearAhead = 4
 MaxNodeAmount = 2
 RewardAmounts = {1}
 MaxScheduled = 1
 MaxTimestamp = 4
CONSTRAINT Scope
CHECK_DEADLOCK FALSE
INVARIANT RelativeWeightIsAtMostOne
