SPECIFICATION MCSpec
CONSTANTS
 a = a
 b = b
 Users = {a,b}
 WEEK = 2
 MAXTIME = 5
 CheckpointWeeks = 255
 DeployTime = 1
 MaxTime = 6
 LockAmounts = {5}
 UnlockTimes = {4,8}
 MaxUserEpoch <- MCMaxUserEpoch
 MaxEpoch = 2
 StartTime = 2
 SupplyWeeks = 2
 ClaimWeeks = 1
 TokenWeeks = 20
 UserSteps = 3
 SearchThreshold = 1
 NearEnd = 1
 FeeAmounts = {5}
 MaxHeld = 10
CONSTRAINT Scope
CHECK_DEADLOCK FALSE
INVARIANTS SupplyIsSumOfBalances PaidInFull EveryoneCanBePaid
PROPERTIES DepositsAreForThisWeek
