SPECIFICATION PermissionsSpec
CONSTANTS
  u = u
  r = r
  p = p
  auth1 = auth1
  auth2 = auth2
  TotalBound = 4
  Tokens = {1}
  Accounts = {u, r, p}
  PoolContracts = {p}
  VaultAddress = vault
  Collector = collector
  NoAccount = none
  InitialSupply <- MCSupply
  Authorizers = {auth1, auth2}
  InitialAuthorizer = auth1
  InitialPermissions <- MCRelayed
  PermissionInputs <- MCRevocable
  PauseWindowEnd = 1
  BufferPeriodEnd = 2
  One = 2
  MaxFlashLoanFee = 0
  Amounts = {1}
  Limits = {1}
  DueFees = {0, 1}
  Loans = {}
  TokenLists = {}
  Recipients = {u}
  Approvals <- MCApprovals
  MaxTime = 3
  MaxPools = 1
  MaxDepth = 2
CHECK_DEADLOCK FALSE
INVARIANTS FundsAreNeverTrapped
PROPERTIES OnlyAuthorizedDebit PausedOnlyPaysOut PausableRefinement
