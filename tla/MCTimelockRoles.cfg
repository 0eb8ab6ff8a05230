SPECIFICATION MCSpec
CONSTANTS
  r = r
  n = n
  u = u
  a = a
  b = b
  c = c
  w = w
  sa = sa
  t = t
  Accounts = {r, n, u}
  NoAccount = none
  Helper = helper
  InitialRoot = r
  NextRoot = n
  RootTransferDelay = 1
  ActionIds = {a, b, c, w, sa}
  SetAuthorizer = sa
  Targets = {t, u}
  Everywhere = everywhere
  MaxDelay = 1
  MinChangeDelay = 1
  RootInputs = {u, r, none}
  DelayInputs = {}
  GrantInputs <- MCGrantInputs
  RevokerInputs <- MCRevokerInputs
  CancelerInputs <- MCCancelerInputs
  ExecutorSets = {{}, {u}}
  MaxTime = 3
  Signer = r
  FollowedInputs <- MCFollowedInputs
  FeesCollector = t
  FeesProvider = u
  VaultAddress = vault
  SetSwapFee = a
  SetFlashLoanFee = b
  SetFeeType = c
  WithdrawFees = w
  MaxFees <- MCMaxFees
  FeeInputs = {1, 2}
  GlobalGrantInputs <- MCGlobalGrantInputs
  MaxExecutions = 6
CONSTRAINT Scope
CHECK_DEADLOCK FALSE
INVARIANTS TypeOK RootChangeIsAnnounced GrantsSuffice
PROPERTY RemovalIsEffective
