------------------------- MODULE LiquidationLibrary -------------------------
(***************************************************************************)
(* LiquidationLibrary.sol, the code CdpManager delegates to: liquidation   *)
(* of one CDP, in full or in part, and of a batch of CDPs; bad debt is     *)
(* redistributed over the stakes that remain.                              *)
(***************************************************************************)
EXTENDS CdpManagerStorage

CONSTANTS
  PartialAmounts,   \* inputs: debt repaid by a partial liquidation
  MaxBatch          \* bound: the longest array given to batchLiquidateCdps

ASSUME LiquidationInputAssumption == PartialAmounts \subseteq Nat /\ MaxBatch \in Nat

-----------------------------------------------------------------------------
\* The liquidator's incentive, in stETH, for repaying `debt' of a CDP.
IncentiveColl(icr, debt) ==
  (debt * (IF icr > LICR THEN Lesser(icr, MCR) ELSE LICR)) \div price

\* _calculateFullLiquidationSurplusAndCap
CollToLiquidator(icr, cdp) ==
  IF icr > LICR
  THEN Lesser(GetSharesByPooledEth(IncentiveColl(icr, cdp.debt)), cdp.coll)
  ELSE cdp.coll

\* Mutant: the whole debt of a CDP at or below LICR is redistributed.
BadDebtIsAll(icr, cdp) == IF icr <= LICR THEN cdp.debt ELSE 0

BadDebt(icr, cdp) ==
  LET debtToRepay == (GetPooledEthByShares(cdp.coll) * price) \div LICR
  IN IF icr <= LICR /\ debtToRepay < cdp.debt THEN cdp.debt - debtToRepay ELSE 0

\* Mutant: the bad debt is both burnt and redistributed.
LiquidationValuesTwice(cdp) ==
  LET icr == ICR(cdp)
      surplus == IF icr < MCR THEN 0 ELSE cdp.coll - CollToLiquidator(icr, cdp)
  IN [debtToBurn |-> cdp.debt,
      collToSend |-> cdp.coll - surplus,
      debtToRedistribute |-> BadDebt(icr, cdp),
      reward |-> cdp.liquidatorRewardShares,
      surplus |-> surplus]

\* What closing `cdp' yields: _liquidateIndividualCdpSetupCDPInNormalMode and
\* its twin for Recovery Mode.  Collateral above the liquidator's part goes to
\* the owner's surplus only when the CDP is at or above MCR, which happens in
\* Recovery Mode alone; below MCR the liquidator takes it.
LiquidationValues(cdp) ==
  LET icr == ICR(cdp)
      toLiquidator == CollToLiquidator(icr, cdp)
      surplus == IF icr < MCR THEN 0 ELSE cdp.coll - toLiquidator
  IN [debtToBurn |-> cdp.debt - BadDebt(icr, cdp),
      collToSend |-> cdp.coll - surplus,
      debtToRedistribute |-> BadDebt(icr, cdp),
      reward |-> cdp.liquidatorRewardShares,
      surplus |-> surplus]

\* _finalizeLiquidation, with the transfer of the surplus before it and the
\* token and pool calls in it.  `stakes' is totalStakes after the closures.
FinalizeLiquidation(liquidator, g, v, stakes) ==
  LET systemCollAfter == g.systemCollShares - v.collToSend - v.surplus
      poolSharesOut == v.collToSend + v.surplus + v.reward
      scaledDebt == v.debtToRedistribute * DECIMAL_PRECISION + lastEBTCDebtErrorRedistribution
  IN
  /\ SyncFeeIndices(g)
  /\ systemCollAfter >= 0 /\ activePoolShares >= poolSharesOut
  /\ totalStakesSnapshot' = stakes
  /\ totalCollateralSnapshot' = systemCollAfter
  /\ lastGracePeriodStartTimestamp' =
       GracePeriodAfter(TCR(systemCollAfter, systemDebt - v.debtToBurn))
  /\ IF v.debtToRedistribute > 0                     \* _redistributeDebt
     THEN /\ stakes > 0
          /\ systemDebtRedistributionIndex' =
               systemDebtRedistributionIndex + scaledDebt \div stakes
          /\ lastEBTCDebtErrorRedistribution' = scaledDebt % stakes
     ELSE UNCHANGED redistributionVars
  /\ Burn(liquidator, v.debtToBurn)
  /\ DecreaseSystemDebt(v.debtToBurn)
  /\ systemCollShares' = systemCollAfter
  /\ activePoolShares' = activePoolShares - poolSharesOut
  /\ feeRecipientCollShares' = g.feeRecipientCollShares
  /\ totalSurplusCollShares' = totalSurplusCollShares + v.surplus
  /\ collSurplusPoolShares' = collSurplusPoolShares + v.surplus
  /\ UNCHANGED <<governanceVars, baseRateVars, nextCdpNonce, positionManagers, envVars>>

-----------------------------------------------------------------------------
\* The requirement of _liquidateIndividualCdpSetup on a synced CDP
Liquidatable(cdp, tcr) ==
  ICR(cdp) >= MCR => /\ BelowLiqThreshold(ICR(cdp), tcr)
                     /\ RecoveryModeGracePeriodPassed

\* _liquidateCdpInGivenMode
LiquidateInFull(liquidator, id, g, cdp) ==
  LET v == LiquidationValues(cdp)
  IN
  /\ MoreThanOneCdp(sortedCdps)
  /\ totalStakes >= cdp.stake
  /\ totalStakes' = totalStakes - cdp.stake
  /\ Cdps' = [Cdps EXCEPT ![id] = ClosedCdp(cdp, "closedByLiquidation")]
  /\ ListContains(sortedCdps, id)
  /\ sortedCdps' = ListWithout(sortedCdps, id)
  /\ surplusCollShares' = SurplusCredited(surplusCollShares, cdp.owner, v.surplus)
  /\ FinalizeLiquidation(liquidator, g, v, totalStakes - cdp.stake)

\* liquidate
Liquidate(liquidator, id) ==
  LET g == SyncedGlobal
      cdp == SyncedCdp(id, g.feeIndex)
  IN
  /\ IsActive(id)
  /\ Liquidatable(cdp, TCR(g.systemCollShares, systemDebt))
  /\ LiquidateInFull(liquidator, id, g, cdp)

\* _liquidateCDPPartially, when something of the CDP remains
LiquidateInPart(liquidator, id, g, cdp, partialDebt, partialColl, k) ==
  LET newStake == ComputeNewStake(cdp.coll - partialColl, g.stakesSnapshot, g.collSnapshot)
      newCdp == UpdatedCdp(cdp, cdp.coll - partialColl, cdp.debt - partialDebt, newStake)
      stakes == RestakedTotal(totalStakes, cdp, newStake)
      rest == ListWithout(sortedCdps, id)
  IN
  /\ GetPooledEthByShares(newCdp.coll) >= MIN_NET_STETH_BALANCE
  /\ DebtIsEnough(newCdp.debt)
  /\ StakeIsDefined(g.stakesSnapshot, g.collSnapshot)
  /\ ICR(cdp) > LICR => ICR(newCdp) >= ICR(cdp)
  /\ stakes >= 0
  /\ totalStakes' = stakes
  /\ Cdps' = [Cdps EXCEPT ![id] = newCdp]
  /\ ListContains(sortedCdps, id)
  /\ ValidInsertPosition(rest, k, ComputeNominalCR(newCdp.coll, newCdp.debt), g.feeIndex)
  /\ sortedCdps' = ListInsert(rest, k, id)
  /\ UNCHANGED surplusCollShares
  /\ FinalizeLiquidation(liquidator, g,
       [debtToBurn |-> partialDebt, collToSend |-> partialColl,
        debtToRedistribute |-> 0, reward |-> 0, surplus |-> 0], stakes)

\* partiallyLiquidate.  The assertion of
\* _calculatePartialLiquidationSurplusAndCap leaves some collateral, so the
\* code's fallback to a full liquidation is never taken.
PartiallyLiquidate(liquidator, id, partialDebt, k) ==
  LET g == SyncedGlobal
      cdp == SyncedCdp(id, g.feeIndex)
      partialColl == GetSharesByPooledEth(IncentiveColl(ICR(cdp), partialDebt))
  IN
  /\ partialDebt >= MIN_CHANGE
  /\ IsActive(id)
  /\ Liquidatable(cdp, TCR(g.systemCollShares, systemDebt))
  /\ partialDebt + DebtDenominationToBtc(MIN_NET_STETH_BALANCE, price) <= cdp.debt
  /\ partialColl < cdp.coll
  /\ LiquidateInPart(liquidator, id, g, cdp, partialDebt, partialColl, k)

-----------------------------------------------------------------------------
\* Nothing liquidated yet; in Normal Mode only CDPs below MCR ever are.
EmptyBatch(g) ==
  [Cdps |-> Cdps, list |-> sortedCdps, stakes |-> totalStakes, surplusOf |-> surplusCollShares,
   ok |-> TRUE, debtToBurn |-> 0, collToSend |-> 0, debtToRedistribute |-> 0,
   reward |-> 0, surplus |-> 0,
   normalMode |-> ~IsRecoveryMode(TCR(g.systemCollShares, systemDebt))]

\* Mutant: the mode the batch started in is kept.
StaysInMode(normalMode, tcr) == normalMode

\* Whether the batch is back in Normal Mode once a closure leaves the ratio tcr
BackToNormalMode(normalMode, tcr) == normalMode \/ ~IsRecoveryMode(tcr)

\* One iteration of _getTotalFromBatchLiquidate_RecoveryMode; with normalMode
\* from the start it is one of _getTotalsFromBatchLiquidate_NormalMode.  The
\* mode and the TCR are those left by the CDPs liquidated so far.  ok turns
\* false where the code reverts.
BatchStep(b, id, g) ==
  LET cdp == SyncedCdp(id, g.feeIndex)
      tcr == TCR(g.systemCollShares - b.collToSend - b.surplus, systemDebt - b.debtToBurn)
      v == LiquidationValues(cdp)
      newSurplus == b.surplus + v.surplus
      newSend == b.collToSend + v.collToSend
      newBurn == b.debtToBurn + v.debtToBurn
      newTCR == TCR(g.systemCollShares - newSend - newSurplus, systemDebt - newBurn)
  IN IF /\ b.Cdps[id].status = "active"
        /\ \/ ICR(cdp) < MCR
           \/ ~b.normalMode /\ CanLiquidateRecoveryMode(ICR(cdp), tcr)
     THEN [Cdps |-> [b.Cdps EXCEPT ![id] = ClosedCdp(cdp, "closedByLiquidation")],
           list |-> ListWithout(b.list, id),
           stakes |-> b.stakes - cdp.stake,
           surplusOf |-> SurplusCredited(b.surplusOf, cdp.owner, v.surplus),
           ok |-> /\ b.ok /\ MoreThanOneCdp(b.list) /\ b.stakes >= cdp.stake
                  /\ ListContains(b.list, id)
                  /\ b.normalMode \/ (/\ systemDebt >= newBurn
                                      /\ g.systemCollShares >= newSend + newSurplus),
           debtToBurn |-> newBurn, collToSend |-> newSend,
           debtToRedistribute |-> b.debtToRedistribute + v.debtToRedistribute,
           reward |-> b.reward + v.reward, surplus |-> newSurplus,
           normalMode |-> BackToNormalMode(b.normalMode, newTCR)]
     ELSE b

\* The batch after the first n ids of the array.
BatchAfter(ids, g) ==
  LET after[n \in 0 .. Len(ids)] ==
        IF n = 0 THEN EmptyBatch(g)
        ELSE LET b == after[n - 1] IN BatchStep(b, ids[n], g)
  IN after

\* batchLiquidateCdps, by any user: the batch does not depend on whose it is.
BatchLiquidateCdps(ids) ==
  LET g == SyncedGlobal
      b == BatchAfter(ids, g)[Len(ids)]
  IN
  /\ ids # <<>>
  /\ b.ok
  /\ b.debtToBurn > 0
  /\ totalStakes' = b.stakes
  /\ Cdps' = b.Cdps
  /\ sortedCdps' = b.list
  /\ surplusCollShares' = b.surplusOf
  /\ \E liquidator \in Users : FinalizeLiquidation(liquidator, g, b, b.stakes)

-----------------------------------------------------------------------------
LiquidationAction ==
  \/ \E liquidator \in Users, id \in CdpIds : Liquidate(liquidator, id)
  \/ \E liquidator \in Users, id \in CdpIds, partialDebt \in PartialAmounts,
        k \in 0 .. Len(sortedCdps) - 1 : PartiallyLiquidate(liquidator, id, partialDebt, k)
  \/ \E ids \in BoundedSeq(CdpIds, MaxBatch) : BatchLiquidateCdps(ids)

=============================================================================
