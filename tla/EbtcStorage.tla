----------------------------- MODULE EbtcStorage ----------------------------
(***************************************************************************)
(* The storage of the eBTC contracts, the initial state and the views that *)
(* read it.  One variable per storage slot that the protocol's accounting  *)
(* reads; a transaction is one atomic step (the EVM runs transactions one  *)
(* at a time and a revert leaves no trace, so a revert is a disabled step) *)
(***************************************************************************)
EXTENDS EbtcBase, SequencesExt

CONSTANTS
  Users,          \* the accounts that borrow, liquidate, redeem and hold eBTC
  NoOwner,        \* the owner of a CDP id that was never issued
  MaxCdps,        \* bound: how many CDP ids SortedCdps ever issues
  Prices,         \* what the price feed may answer: BTC per stETH
  EthPerShares,   \* the share rates the stETH token may move to
  MaxTime,        \* bound: the last block timestamp
  MINIMUM_GRACE_PERIOD,      \* 15 minutes
  MIN_REDEMPTION_FEE_FLOOR,  \* 0.5%
  SECONDS_IN_ONE_MINUTE,     \* 60: the step in which the base rate decays
  InitialRewardSplit,        \* stakingRewardSplit, minuteDecayFactor and beta
  InitialMinuteDecayFactor,  \*   once deployed
  InitialBeta

CdpIds == 1 .. MaxCdps

UNSET_TIMESTAMP == -1

Statuses == {"nonExistent", "active", "closedByOwner", "closedByLiquidation",
             "closedByRedemption"}

Approvals == {"None", "OneTime", "Persistent"}

ASSUME InputAssumption ==
  /\ NoOwner \notin Users
  /\ MaxCdps \in Nat /\ MaxTime \in Nat /\ MINIMUM_GRACE_PERIOD \in Nat
  /\ MIN_REDEMPTION_FEE_FLOOR \in 0 .. DECIMAL_PRECISION
  /\ SECONDS_IN_ONE_MINUTE \in Nat \ {0}
  /\ InitialMinuteDecayFactor \in 1 .. DECIMAL_PRECISION - 1 /\ InitialBeta \in Nat
  /\ InitialRewardSplit \in 0 .. MAX_REWARD_SPLIT
  /\ Prices \subseteq Nat \ {0}
  /\ EthPerShares \subseteq Nat \ {0}
  /\ DECIMAL_PRECISION \in EthPerShares

ASSUME AccountAssumption == IsFiniteSet(Users)

VARIABLES
  \* CdpManagerStorage
  Cdps,                              \* id -> the CDP and its two indices
  totalStakes,
  totalStakesSnapshot, totalCollateralSnapshot,
  stEthIndex,                        \* the share rate last accounted for
  systemStEthFeePerUnitIndex, systemStEthFeePerUnitIndexError,
  systemDebtRedistributionIndex, lastEBTCDebtErrorRedistribution,
  lastGracePeriodStartTimestamp,
  recoveryModeGracePeriodDuration, stakingRewardSplit, redemptionFeeFloor,
  minuteDecayFactor, beta, redemptionsPaused,
  baseRate, lastRedemptionTimestamp,
  \* SortedCdps, as the sequence of ids from head to tail
  sortedCdps, nextCdpNonce,
  \* ActivePool
  systemCollShares, systemDebt, feeRecipientCollShares,
  \* CollSurplusPool
  surplusCollShares, totalSurplusCollShares,
  \* EBTCToken
  eBTCBalance, eBTCSupply,
  \* BorrowerOperations
  positionManagers,                  \* <<borrower, manager>> -> approval
  \* stETH: the shares of the two pools, and the token's share rate
  activePoolShares, collSurplusPoolShares, ethPerShare,
  \* price feed and block
  price, now

stakeVars == <<totalStakes, totalStakesSnapshot, totalCollateralSnapshot>>
feeIndexVars == <<stEthIndex, systemStEthFeePerUnitIndex, systemStEthFeePerUnitIndexError>>
redistributionVars == <<systemDebtRedistributionIndex, lastEBTCDebtErrorRedistribution>>
listVars == <<sortedCdps, nextCdpNonce>>
poolVars == <<systemCollShares, systemDebt, feeRecipientCollShares>>
surplusVars == <<surplusCollShares, totalSurplusCollShares, collSurplusPoolShares>>
tokenVars == <<eBTCBalance, eBTCSupply>>
governanceVars == <<recoveryModeGracePeriodDuration, stakingRewardSplit, redemptionFeeFloor,
                    minuteDecayFactor, beta, redemptionsPaused>>
baseRateVars == <<baseRate, lastRedemptionTimestamp>>
envVars == <<ethPerShare, price, now>>

vars == <<Cdps, stakeVars, feeIndexVars, redistributionVars,
          lastGracePeriodStartTimestamp, governanceVars, baseRateVars, listVars,
          poolVars, surplusVars, tokenVars, positionManagers, activePoolShares, envVars>>

-----------------------------------------------------------------------------
NoCdp == [status |-> "nonExistent", owner |-> NoOwner, coll |-> 0, debt |-> 0,
          stake |-> 0, liquidatorRewardShares |-> 0, debtIndex |-> 0, feeIndex |-> 0]

CdpRecords == [status: Statuses, owner: Users \cup {NoOwner}, coll: Nat, debt: Nat,
               stake: Nat, liquidatorRewardShares: Nat, debtIndex: Nat, feeIndex: Nat]

\* The types the contracts declare, one part for each group of variables.
CdpTypeOK == Cdps \in [CdpIds -> CdpRecords]
StakeTypeOK ==
  totalStakes \in Nat /\ totalStakesSnapshot \in Nat /\ totalCollateralSnapshot \in Nat
FeeIndexTypeOK ==
  /\ stEthIndex \in Nat \ {0}
  /\ systemStEthFeePerUnitIndex \in Nat \ {0} /\ systemStEthFeePerUnitIndexError \in Nat
RedistributionTypeOK ==
  systemDebtRedistributionIndex \in Nat /\ lastEBTCDebtErrorRedistribution \in Nat
GraceTypeOK == lastGracePeriodStartTimestamp \in Nat \cup {UNSET_TIMESTAMP}
GovernanceTypeOK ==
  /\ recoveryModeGracePeriodDuration \in Nat
  /\ stakingRewardSplit \in 0 .. MAX_REWARD_SPLIT
  /\ redemptionFeeFloor \in 0 .. DECIMAL_PRECISION
  /\ minuteDecayFactor \in 1 .. DECIMAL_PRECISION - 1 /\ beta \in Nat
  /\ redemptionsPaused \in BOOLEAN
BaseRateTypeOK ==
  baseRate \in 0 .. DECIMAL_PRECISION /\ lastRedemptionTimestamp \in 0 .. MaxTime
ListTypeOK == sortedCdps \in Seq(CdpIds) /\ nextCdpNonce \in Nat \ {0}
PoolTypeOK ==
  /\ systemCollShares \in Nat /\ systemDebt \in Nat /\ feeRecipientCollShares \in Nat
  /\ activePoolShares \in Nat
SurplusTypeOK ==
  /\ surplusCollShares \in [Users -> Nat]
  /\ totalSurplusCollShares \in Nat /\ collSurplusPoolShares \in Nat
TokenTypeOK == eBTCBalance \in [Users -> Nat] /\ eBTCSupply \in Nat
ApprovalTypeOK == positionManagers \in [Users \X Users -> Approvals]
EnvTypeOK == ethPerShare \in EthPerShares /\ price \in Prices /\ now \in 0 .. MaxTime

\* The storage has the types the contracts declare; the unsigned integers of
\* Solidity never go below zero because every subtraction is checked.
TypeOK ==
  /\ CdpTypeOK /\ StakeTypeOK /\ FeeIndexTypeOK /\ RedistributionTypeOK /\ GraceTypeOK
  /\ GovernanceTypeOK /\ BaseRateTypeOK /\ ListTypeOK /\ PoolTypeOK /\ SurplusTypeOK
  /\ TokenTypeOK /\ ApprovalTypeOK /\ EnvTypeOK

Init ==
  /\ Cdps = [id \in CdpIds |-> NoCdp]
  /\ totalStakes = 0 /\ totalStakesSnapshot = 0 /\ totalCollateralSnapshot = 0
  /\ stEthIndex = DECIMAL_PRECISION
  /\ systemStEthFeePerUnitIndex = DECIMAL_PRECISION
  /\ systemStEthFeePerUnitIndexError = 0
  /\ systemDebtRedistributionIndex = 0 /\ lastEBTCDebtErrorRedistribution = 0
  /\ lastGracePeriodStartTimestamp = UNSET_TIMESTAMP
  /\ recoveryModeGracePeriodDuration = MINIMUM_GRACE_PERIOD
  /\ stakingRewardSplit = InitialRewardSplit
  /\ redemptionFeeFloor = MIN_REDEMPTION_FEE_FLOOR
  /\ minuteDecayFactor = InitialMinuteDecayFactor /\ beta = InitialBeta
  /\ redemptionsPaused = FALSE
  /\ baseRate = 0 /\ lastRedemptionTimestamp = 0
  /\ sortedCdps = <<>> /\ nextCdpNonce = 1
  /\ systemCollShares = 0 /\ systemDebt = 0 /\ feeRecipientCollShares = 0
  /\ surplusCollShares = [u \in Users |-> 0] /\ totalSurplusCollShares = 0
  /\ eBTCBalance = [u \in Users |-> 0] /\ eBTCSupply = 0
  /\ positionManagers = [bm \in Users \X Users |-> "None"]
  /\ activePoolShares = 0 /\ collSurplusPoolShares = 0
  /\ ethPerShare = DECIMAL_PRECISION
  /\ price \in Prices /\ now = 0

-----------------------------------------------------------------------------
(* Views.                                                                  *)

GetPooledEthByShares(shares) == PooledEth(shares, ethPerShare)
GetSharesByPooledEth(stEth) == SharesOf(stEth, ethPerShare)

IsActive(id) == Cdps[id].status = "active"
ActiveCdps == {id \in CdpIds : IsActive(id)}

\* _computeTCRWithGivenSystemValues
TCR(collShares, debt) == ComputeCR(GetPooledEthByShares(collShares), debt, price)

=============================================================================
