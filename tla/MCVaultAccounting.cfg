SPECIFICATION AccountingSpec
CONSTANTS
  u = u
  p = p
  r = r
  auth1 = auth1
  auth2 = auth2
  TotalBound = 4
  Tokens = {1, 2}
  Accounts = {u, p}
  PoolContracts = {p}
  VaultAddress = vault
  Collector = collector
  NoAccount = none
  InitialSupply <- MCSupply
  Authorizers = {auth1}
  InitialAuthorizer = auth1
  InitialPermissions <- MCGoverned
  PermissionInputs = {}
  PauseWindowEnd = 2
  BufferPeriodEnd = 3
  One = 2
  MaxFlashLoanFee = 1
  Amounts = {0, 1, 2}
  Limits = {1, 2}
  DueFees = {0, 1}
  Loans <- MCLoans
  TokenLists = {}
  Recipients = {u, p}
  Approvals = {}
  MaxTime = 1
  MaxPools = 1
  MaxDepth = 2
CHECK_DEADLOCK FALSE
INVARIANTS Solvent NoLostUpdate
PROPERTIES FundsAreConserved TotalChangesAreStamped
