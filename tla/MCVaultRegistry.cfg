SPECIFICATION MCSpec
CONSTANTS
  p = p
  auth = auth
  TotalBound = 3
  Tokens = {1, 2, 3}
  Accounts = {p}
  PoolContracts = {p}
  VaultAddress = vault
  Collector = collector
  NoAccount = none
  InitialSupply <- MCSupply
  Authorizers = {auth}
  InitialAuthorizer = auth
  InitialPermissions = {}
  PermissionInputs = {}
  PauseWindowEnd = 1
  BufferPeriodEnd = 2
  One = 2
  MaxFlashLoanFee = 0
  Amounts = {0, 1}
  Limits = {1}
  DueFees = {0}
  Loans = {}
  TokenLists <- MCTokenLists
  Recipients = {p}
  Approvals = {}
  MaxTime = 0
  MaxPools = 1
  MaxDepth = 2
  Addresses = {2, 3}
  People = {"owner", "lp"}
  WethAddress = 2
  WEI = 12
  MaxWeightedTokens = 3
  TokenDecimals = 2
  DecimalsPeriod = 2
  MaxExactNumber = 150
  MAX_UINT256 = 200
  Deployments <- MCDeployments
  RawMints <- MCRawMints
  RawApprovals <- MCRawApprovals
  Spends <- MCSpends
  Requests <- MCRequests
  PoolParams <- MCPoolParams
  MaxTokenCalls = 3
CONSTRAINT Scope
CHECK_DEADLOCK FALSE
INVARIANTS TypeOK DeregisteredIsEmpty MintsArrive RequestsStayAligned
