SPECIFICATION MCSpec
INVARIANTS
  TypeOK
  BalancesAddUp
  BooksAreKept
PROPERTIES
  GracePeriodFollowsTheMode
  NoBorrowerBecomesLiquidatable
  DecayedRateIsSteady
  SyncedViewsAreStable
SYMMETRY UserSymmetry
CONSTANTS
  DECIMAL_PRECISION = 100
  NICR_PRECISION = 10000
  LICR = 103
  MCR = 110
  CCR = 125
  LIQUIDATOR_REWARD = 2
  MIN_NET_STETH_BALANCE = 20
  MIN_CHANGE = 10
  MAX_REWARD_SPLIT = 100
  MAX_TCR = 1000000000
  Users = {u1, u2}
  NoOwner = NoOwner
  MaxCdps = 2
  Prices = {90, 100}
  EthPerShares = {90, 100, 117}
  MaxTime = 2
  MINIMUM_GRACE_PERIOD = 1
  MIN_REDEMPTION_FEE_FLOOR = 1
  SECONDS_IN_ONE_MINUTE = 2
  InitialRewardSplit = 50
  InitialMinuteDecayFactor = 50
  InitialBeta = 2
  OpenStEthBalances = {102}
  OpenDebts = {80}
  CollChanges = {30}
  DebtChanges = {72}
  GrantedApprovals = {"OneTime", "Persistent"}
  PartialAmounts = {}
  MaxBatch = 1
  RedemptionDebts = {40}
  MaxIterations = {0}
  TwapObservations = {50}
  RewardSplits = {0}
  FeeFloors = {30}
  DecayFactors = {90}
  Betas = {1}
  GracePeriods = {2}
  TransferAmounts = {80}
  FeeClaims = {5}
  TimeSteps = {1}
  MaxSteps = 6
