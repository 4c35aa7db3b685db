SPECIFICATION WatchedSpec
INVARIANTS
  TrackedValueIsTheDebt
  AverageIsTimeWeighted
PROPERTIES
  ObservedDebtIsSteadyWithinABlock
CONSTANTS
  PERIOD = 3
  MAX_UINT128 = 14
  Amounts = {2, 4}
  TimeSteps = {1, 2}
  MaxTime = 7
