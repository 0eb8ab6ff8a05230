SPECIFICATION MCSpec
CONSTANTS
  TotalBound = 3
  Tokens = {1, 2, 3}
  RegisterLists <- MCLists
  DeregisterLists <- MCDistinctLists
  Amounts = {0, 1}
  MaxTime = 1
  Keys = {k1, k2, k3, k4}
  Values = {v1, v2}
  PauseWindowEnd = 2
  BufferPeriodEnd = 4
  LastTime = 6
  relayer = relayer
  Users = {alice}
  Senders = {relayer, other}
  Relayers = {relayer}
  Nobody = nobody
  PoolCalls <- MCPoolCalls
  CallsToSign <- MCCallsToSign
  Deadlines = {0, 1}
  Nonces = {0, 1}
  AllowanceInputs = {1}
  MaxSignatures = 2
  LastMoment = 1
CONSTRAINT SignatureScope
CHECK_DEADLOCK FALSE
INVARIANTS TypesOK IndexesAgree SignaturesAreUsedOnce
PROPERTIES PoolRefinement BehavesAsFunction UnpausedForGood
