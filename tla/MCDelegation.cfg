SPECIFICATION MCSpec
INVARIANTS
  SpentWithinAllowance
  OneTimeMeansOnce
  PermitsTakeEffectInOrder
CONSTANTS
  Owners = {o1}
  Delegates = {d1}
  MAX_UINT256 = 9
  Allowances = {2, 9}
  Amounts = {1, 2}
  Deadlines = {0, 1}
  MaxTime = 1
  MaxNonce = 1
  MaxCalls = 5
