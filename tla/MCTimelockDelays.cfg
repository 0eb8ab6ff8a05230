SPECIFICATION DelaysSpec
CONSTANTS
  r = r
  n = n
  u = u
  a = a
  b = b
  c = c
  w = w
  sa = sa
  t = t
  Accounts = {r}
  NoAccount = none
  Helper = helper
  InitialRoot = r
  NextRoot = r
  RootTransferDelay = 2
  ActionIds = {a, sa}
  SetAuthorizer = sa
  Targets = {t}
  Everywhere = everywhere
  MaxDelay = 3
  MinChangeDelay = 1
  RootInputs = {}
  DelayInputs <- MCDelayInputs
  GrantInputs = {}
  RevokerInputs = {}
  CancelerInputs = {}
  ExecutorSets = {{}}
  MaxTime = 5
  Signer = r
  FollowedInputs = {}
  FeesCollector = t
  FeesProvider = r
  VaultAddress = vault
  SetSwapFee = a
  SetFlashLoanFee = a
  SetFeeType = a
  WithdrawFees = a
  MaxFees <- MCMaxFees
  FeeInputs = {}
  GlobalGrantInputs = {}
  MaxExecutions = 5
VIEW DelaysView
CHECK_DEADLOCK FALSE
PROPERTIES NoticeIsNeverShortened NothingHappensEarly
