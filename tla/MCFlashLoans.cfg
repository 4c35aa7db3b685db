SPECIFICATION MCSpec
INVARIANTS
  SupplyIsDebtAndLoans
  PoolAndLoansAreSolvent
CONSTANTS
  DECIMAL_PRECISION = 100
  NICR_PRECISION = 10000
  LICR = 103
  MCR = 110
  CCR = 125
  LIQUIDATOR_REWARD = 2
  MIN_NET_STETH_BALANCE = 20
  MIN_CHANGE = 10
  MAX_REWARD_SPLIT = 100
  MAX_TCR = 1000000000
  Users = {u1, u2}
  NoOwner = NoOwner
  MaxCdps = 2
  Prices = {100, 80}
  EthPerShares = {100, 120}
  MaxTime = 0
  MINIMUM_GRACE_PERIOD = 1
  MIN_REDEMPTION_FEE_FLOOR = 1
  SECONDS_IN_ONE_MINUTE = 1
  InitialRewardSplit = 50
  InitialMinuteDecayFactor = 50
  InitialBeta = 2
  OpenStEthBalances = {102}
  OpenDebts = {80}
  CollChanges = {}
  DebtChanges = {}
  GrantedApprovals = {}
  PartialAmounts = {}
  MaxBatch = 1
  RedemptionDebts = {80}
  MaxIterations = {0}
  TwapObservations = {}
  RewardSplits = {}
  FeeFloors = {}
  DecayFactors = {}
  Betas = {}
  GracePeriods = {}
  TransferAmounts = {}
  FeeClaims = {1}
  TimeSteps = {1}
  MaxSteps = 6
  FeeRecipient = u2
  MAX_BPS = 100
  MAX_FEE_BPS = 20
  MAX_FLASH_LOAN = 1000
  InitialFeeBps = 10
  FlashAmounts = {6, 80}
  FlashFees = {0, 50}
  MaxDepth = 2
