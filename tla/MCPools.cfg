CONSTANTS
  One = 10000
  Scale = 20000
  Weights <- MCWeights
  WeightFractions <- MCFractions
  InitRequest <- MCInitRequest
  AmountLists <- MCAmounts
  BptAmounts = {5000}
  MaxCalls = 4
  AmpPrecision = 1
  PREMINTED = 1000000
  bptIndex = 2
  InitialAmp = 10
  MinAmp = 5
  MaxAmp = 20
  MaxAmpUpdateDailyRate = 2
  Day = 1
  MinUpdateTime = 1
  StableInitRequest <- MCStableInitRequest
  StableAmounts <- MCStableAmounts
  StableAmount = 1500
  AmpTargets = {20, 5}
  Accounts = {"alice", "deployer", "zero", "collector"}
  Zero = "zero"
  Collector = "collector"
  Deployer = "deployer"
  Parties <- MCParties
  MinimumBpt = 10
  MinSwapFee = 1
  MaxSwapFee = 1000
  SwapFees = {1000, 500}
  swapFeePercentage = 1000
  ProtocolFees = {5000, 2000}
SPECIFICATION MCSpec
INVARIANTS PoolTypesOK ProtocolIsPaidOnce RateNeverDecreases FollowsReference ReferencesAgree
CHECK_DEADLOCK FALSE
