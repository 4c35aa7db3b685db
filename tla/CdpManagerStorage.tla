-------------------------- MODULE CdpManagerStorage -------------------------
(***************************************************************************)
(* CdpManagerStorage.sol: what every handler of the protocol does to the   *)
(* accounting before and after its own work.                               *)
(*   - the staking-reward split: when stETH's share rate rises, part of    *)
(*     the collateral moves to the fee recipient at once, and every CDP    *)
(*     pays its part lazily through a per-stake index;                     *)
(*   - bad debt is redistributed lazily through a second per-stake index;  *)
(*   - the grace period of Recovery Mode starts and ends with the TCR.     *)
(* Also the list operations of SortedCdps, on the sequence of ids.         *)
(*                                                                         *)
(* The functions return records of new values; the handlers of the other   *)
(* modules assign them.                                                    *)
(***************************************************************************)
EXTENDS EbtcStorage

(* --- Staking-reward split --------------------------------------------- *)

\* calcFeeUponStakingReward
FeeUponStakingReward ==
  LET deltaIndexFees == ((ethPerShare - stEthIndex) * stakingRewardSplit) \div MAX_REWARD_SPLIT
      feeTaken == GetSharesByPooledEth(deltaIndexFees * systemCollShares) \div DECIMAL_PRECISION
      scaledFee == feeTaken * DECIMAL_PRECISION + systemStEthFeePerUnitIndexError
  IN [feeTaken |-> feeTaken,
      perUnit  |-> scaledFee \div totalStakes,
      error    |-> scaledFee % totalStakes]

FeeIsDue == ethPerShare > stEthIndex /\ totalStakes > 0

\* The globals after _syncGlobalAccounting.
SyncedGlobal ==
  IF FeeIsDue
  THEN LET fee == FeeUponStakingReward
       IN [feeIndex               |-> systemStEthFeePerUnitIndex + fee.perUnit,
           feeError               |-> fee.error,
           systemCollShares       |-> systemCollShares - fee.feeTaken,
           feeRecipientCollShares |-> feeRecipientCollShares + fee.feeTaken,
           stakesSnapshot         |-> totalStakes,
           collSnapshot           |-> systemCollShares - fee.feeTaken]
  ELSE [feeIndex               |-> systemStEthFeePerUnitIndex,
        feeError               |-> systemStEthFeePerUnitIndexError,
        systemCollShares       |-> systemCollShares,
        feeRecipientCollShares |-> feeRecipientCollShares,
        stakesSnapshot         |-> totalStakesSnapshot,
        collSnapshot           |-> totalCollateralSnapshot]

\* _takeSplitAndUpdateFeePerUnit reverts when the fee would take everything.
SyncGlobalSucceeds == FeeIsDue => systemCollShares > FeeUponStakingReward.feeTaken

\* The index part of _syncGlobalAccounting; a lower rate is recorded too.
SyncFeeIndices(g) ==
  /\ SyncGlobalSucceeds
  /\ stEthIndex' = ethPerShare
  /\ systemStEthFeePerUnitIndex' = g.feeIndex
  /\ systemStEthFeePerUnitIndexError' = g.feeError

(* --- Per-CDP accounting ------------------------------------------------ *)

\* getAccumulatedFeeSplitApplied: a fee larger than the CDP is not taken.
CollAfterFeeSplit(cdp, feeIndex) ==
  LET scaledColl == cdp.coll * DECIMAL_PRECISION
      fee == cdp.stake * (feeIndex - cdp.feeIndex)
  IN IF cdp.feeIndex > 0 /\ scaledColl > fee
     THEN (scaledColl - fee) \div DECIMAL_PRECISION
     ELSE cdp.coll

\* _getPendingRedistributedDebt of an active CDP
PendingDebt(cdp) ==
  (cdp.stake * (systemDebtRedistributionIndex - cdp.debtIndex)) \div DECIMAL_PRECISION

\* The active CDP `id' after _syncAccounting, or as _calcSyncedAccounting sees it.
SyncedCdp(id, feeIndex) ==
  LET cdp == Cdps[id]
  IN [status |-> cdp.status, owner |-> cdp.owner, stake |-> cdp.stake,
      coll |-> CollAfterFeeSplit(cdp, feeIndex),
      debt |-> cdp.debt + PendingDebt(cdp),
      liquidatorRewardShares |-> cdp.liquidatorRewardShares,
      debtIndex |-> systemDebtRedistributionIndex,
      feeIndex |-> feeIndex]

\* _calculateCR of a synced CDP
ICR(cdp) == ComputeCR(GetPooledEthByShares(cdp.coll), cdp.debt, price)

\* getCachedNominalICR
CachedNominalICR(id, feeIndex) ==
  LET cdp == SyncedCdp(id, feeIndex) IN ComputeNominalCR(cdp.coll, cdp.debt)

(* --- Stakes ------------------------------------------------------------ *)

\* _computeNewStake reverts on an empty stakes snapshot.
StakeIsDefined(stakesSnapshot, collSnapshot) == collSnapshot = 0 \/ stakesSnapshot > 0

ComputeNewStake(coll, stakesSnapshot, collSnapshot) ==
  IF collSnapshot = 0 THEN coll ELSE (coll * stakesSnapshot) \div collSnapshot

\* The CDP with another position, as updateCdp and the partial operations store it
UpdatedCdp(cdp, coll, debt, stake) ==
  [cdp EXCEPT !.coll = coll, !.debt = debt, !.stake = stake]

\* totalStakes once the stake of `cdp' is replaced, by which
\* _updateStakeAndTotalStakes grows or shrinks it
RestakedTotal(stakes, cdp, newStake) == stakes + newStake - cdp.stake

\* _requireMinDebt, of a CDP or of a change
DebtIsEnough(debt) == debt >= MIN_CHANGE

(* --- Closing ----------------------------------------------------------- *)

\* _closeCdpWithoutRemovingSortedCdps, given the id's owner and new status
ClosedCdp(cdp, closedStatus) ==
  [NoCdp EXCEPT !.status = closedStatus, !.owner = cdp.owner]

\* Mutant: the last CDP may be closed.
AtLeastOneCdp(list) == Len(list) > 0

MoreThanOneCdp(list) == Len(list) > 1

\* Mutant: an unclaimed surplus is overwritten.
SurplusReplaced(surplusOf, owner, shares) ==
  IF shares > 0 THEN [surplusOf EXCEPT ![owner] = shares] ELSE surplusOf

\* CollSurplusPool.increaseSurplusCollShares, for one owner
SurplusCredited(surplusOf, owner, shares) == [surplusOf EXCEPT ![owner] = @ + shares]

(* --- Debt: ActivePool's total and EBTCToken's supply ------------------- *)

IncreaseSystemDebt(amount) == systemDebt' = systemDebt + amount

DecreaseSystemDebt(amount) ==
  /\ systemDebt >= amount
  /\ systemDebt' = systemDebt - amount

Mint(account, amount) ==
  /\ eBTCBalance' = [eBTCBalance EXCEPT ![account] = @ + amount]
  /\ eBTCSupply' = eBTCSupply + amount

\* Mutants: the balance is not checked; only the supply is reduced.
BurnUnchecked(account, amount) ==
  /\ eBTCBalance' = [eBTCBalance EXCEPT ![account] = @ - amount]
  /\ eBTCSupply' = eBTCSupply - amount

BurnSupplyOnly(account, amount) ==
  /\ eBTCBalance[account] >= amount /\ eBTCSupply >= amount
  /\ eBTCBalance' = eBTCBalance
  /\ eBTCSupply' = eBTCSupply - amount

Burn(account, amount) ==
  /\ eBTCBalance[account] >= amount /\ eBTCSupply >= amount
  /\ eBTCBalance' = [eBTCBalance EXCEPT ![account] = @ - amount]
  /\ eBTCSupply' = eBTCSupply - amount

(* --- Grace period ------------------------------------------------------ *)

\* Mutant: the grace period never ends.
GracePeriodNeverEnds(tcr) ==
  IF IsRecoveryMode(tcr) /\ lastGracePeriodStartTimestamp = UNSET_TIMESTAMP
  THEN now ELSE lastGracePeriodStartTimestamp

\* _startGracePeriod and _endGracePeriod, as _syncGracePeriodForGivenValues
\* and BorrowerOperations choose between them
GracePeriodAfter(tcr) ==
  IF ~IsRecoveryMode(tcr) THEN UNSET_TIMESTAMP
  ELSE IF lastGracePeriodStartTimestamp = UNSET_TIMESTAMP THEN now
  ELSE lastGracePeriodStartTimestamp

RecoveryModeGracePeriodPassed ==
  /\ lastGracePeriodStartTimestamp # UNSET_TIMESTAMP
  /\ now > lastGracePeriodStartTimestamp + recoveryModeGracePeriodDuration

\* Mutant: the grace period is not waited for.
CanLiquidateWithoutGrace(icr, tcr) == icr <= tcr

\* canLiquidateRecoveryMode
CanLiquidateRecoveryMode(icr, tcr) == icr <= tcr /\ RecoveryModeGracePeriodPassed

(* --- SortedCdps -------------------------------------------------------- *)

\* _validInsertPosition after the first k ids of a list: the caller's hints
\* may name any such place, and the search that follows a bad hint finds one.
ValidInsertPosition(list, k, nicr, feeIndex) ==
  /\ k \in 0 .. Len(list)
  /\ k > 0 => CachedNominalICR(list[k], feeIndex) >= nicr
  /\ k < Len(list) => nicr >= CachedNominalICR(list[k + 1], feeIndex)

ListContains(list, id) == \E i \in 1 .. Len(list) : list[i] = id

\* sortedCdps.remove; its callers' guards include ListContains
ListWithout(list, id) == RemoveAt(list, CHOOSE i \in 1 .. Len(list) : list[i] = id)

\* The rest of _insert, after the position is known
ListInsert(list, k, id) == InsertAt(list, k + 1, id)

(* --- Entry points of CdpManagerStorage --------------------------------- *)

\* The writes of syncGlobalAccountingAndGracePeriod, which any account may
\* call and which every governance setter makes before it sets its value
SyncGlobalAccountingAndGracePeriod(g) ==
  /\ SyncFeeIndices(g)
  /\ totalStakesSnapshot' = g.stakesSnapshot
  /\ totalCollateralSnapshot' = g.collSnapshot
  /\ systemCollShares' = g.systemCollShares
  /\ lastGracePeriodStartTimestamp' = GracePeriodAfter(TCR(g.systemCollShares, systemDebt))

=============================================================================
