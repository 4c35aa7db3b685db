SPECIFICATION MCSpec
PROPERTIES
  RedemptionNeverLowersTCR
SYMMETRY UserSymmetry
CONSTANTS
  DECIMAL_PRECISION = 100
  NICR_PRECISION = 10000
  LICR = 103
  MCR = 110
  CCR = 125
  LIQUIDATOR_REWARD = 2
  MIN_NET_STETH_BALANCE = 20
  MIN_CHANGE = 10
  MAX_REWARD_SPLIT = 100
  MAX_TCR = 1000000000
  Users = {u1, u2}
  NoOwner = NoOwner
  MaxCdps = 3
  Prices = {80, 100}
  EthPerShares = {100}
  MaxTime = 0
  MINIMUM_GRACE_PERIOD = 1
  MIN_REDEMPTION_FEE_FLOOR = 1
  SECONDS_IN_ONE_MINUTE = 1
  InitialRewardSplit = 50
  InitialMinuteDecayFactor = 50
  InitialBeta = 2
  OpenStEthBalances = {52, 102}
  OpenDebts = {40}
  CollChanges = {}
  DebtChanges = {}
  GrantedApprovals = {}
  PartialAmounts = {}
  MaxBatch = 1
  RedemptionDebts = {40}
  MaxIterations = {0}
  TwapObservations = {}
  RewardSplits = {}
  FeeFloors = {}
  DecayFactors = {}
  Betas = {}
  GracePeriods = {}
  TransferAmounts = {}
  FeeClaims = {}
  TimeSteps = {1}
  MaxSteps = 6
