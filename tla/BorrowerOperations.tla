------------------------- MODULE BorrowerOperations -------------------------
(***************************************************************************)
(* BorrowerOperations.sol: opening, adjusting and closing a CDP, claiming  *)
(* surplus collateral, and the position-manager approvals.                 *)
(***************************************************************************)
EXTENDS CdpManagerStorage

CONSTANTS
  OpenStEthBalances,   \* inputs: stETH sent with openCdp, reward included
  OpenDebts,           \* inputs: eBTC asked for by openCdp
  CollChanges,         \* inputs: stETH added or withdrawn by an adjustment
  DebtChanges,         \* inputs: eBTC drawn or repaid by an adjustment
  GrantedApprovals     \* inputs: approvals a borrower gives a manager

ASSUME BorrowerInputAssumption ==
  /\ OpenStEthBalances \subseteq Nat /\ OpenDebts \subseteq Nat
  /\ CollChanges \subseteq Nat /\ DebtChanges \subseteq Nat
  /\ GrantedApprovals \subseteq Approvals

-----------------------------------------------------------------------------
\* _requireBorrowerOrPositionManagerAndUpdateManagerApproval: a one-time
\* approval is used up by the call that relies on it.
UseApproval(sender, borrower) ==
  IF sender = borrower
  THEN UNCHANGED positionManagers
  ELSE /\ positionManagers[<<borrower, sender>>] # "None"
       /\ positionManagers' =
            IF positionManagers[<<borrower, sender>>] = "OneTime"
            THEN [positionManagers EXCEPT ![<<borrower, sender>>] = "None"]
            ELSE positionManagers

\* _getNewTCRFromCdpChange, over the synced system collateral; the change of
\* collateral and of debt are signed
NewTCR(g, stEthChange, debtChange) ==
  ComputeCR(GetPooledEthByShares(g.systemCollShares) + stEthChange,
            systemDebt + debtChange, price)

\* _withdrawDebt and _repayDebt
WithdrawDebt(account, debt) ==
  /\ IncreaseSystemDebt(debt)
  /\ Mint(account, debt)

RepayDebt(account, debt) ==
  /\ DecreaseSystemDebt(debt)
  /\ Burn(account, debt)

-----------------------------------------------------------------------------
\* openCdp and openCdpFor.  The ratio that must reach the threshold is that of
\* the stETH sent; the CDP keeps the floor of its value in shares.
OpenCdp(sender, borrower, debt, stEthBalance, k) ==
  LET g == SyncedGlobal
      id == nextCdpNonce
      net == stEthBalance - LIQUIDATOR_REWARD
      collShares == GetSharesByPooledEth(net)
      icr == ComputeCR(net, debt, price)
      newTCR == NewTCR(g, net, debt)
      stake == ComputeNewStake(collShares, g.stakesSnapshot, g.collSnapshot)
  IN
  /\ id <= MaxCdps                                   \* bound on the ids
  /\ DebtIsEnough(debt)
  /\ UseApproval(sender, borrower)
  /\ net >= MIN_NET_STETH_BALANCE
  /\ SyncFeeIndices(g)
  /\ IF IsRecoveryMode(TCR(g.systemCollShares, systemDebt))
     THEN icr >= CCR
     ELSE icr >= MCR /\ newTCR >= CCR
  /\ lastGracePeriodStartTimestamp' = GracePeriodAfter(newTCR)
  /\ ValidInsertPosition(sortedCdps, k, ComputeNominalCR(collShares, debt), g.feeIndex)
  /\ sortedCdps' = ListInsert(sortedCdps, k, id)
  /\ nextCdpNonce' = nextCdpNonce + 1
  /\ Cdps[id].status = "nonExistent"
  /\ StakeIsDefined(g.stakesSnapshot, g.collSnapshot)
  /\ Cdps' = [Cdps EXCEPT ![id] =
       [status |-> "active", owner |-> borrower, coll |-> collShares, debt |-> debt,
        stake |-> stake, liquidatorRewardShares |-> GetSharesByPooledEth(LIQUIDATOR_REWARD),
        debtIndex |-> systemDebtRedistributionIndex, feeIndex |-> g.feeIndex]]
  /\ totalStakes' = totalStakes + stake
  /\ totalStakesSnapshot' = g.stakesSnapshot
  /\ totalCollateralSnapshot' = g.collSnapshot
  /\ WithdrawDebt(sender, debt)
  /\ activePoolShares' = activePoolShares + GetSharesByPooledEth(stEthBalance)
  /\ systemCollShares' = g.systemCollShares + collShares
  /\ feeRecipientCollShares' = g.feeRecipientCollShares
  /\ UNCHANGED <<redistributionVars, governanceVars, baseRateVars, surplusVars, envVars>>

-----------------------------------------------------------------------------
\* Mutant: in Normal Mode an adjustment may take the system below CCR.
ValidAdjustmentAtAnyTCR(inRecoveryMode, stEthDecrease, isDebtIncrease, oldICR, newICR, newTCR) ==
  IF inRecoveryMode
  THEN /\ stEthDecrease = 0
       /\ isDebtIncrease => newICR >= CCR /\ newICR >= oldICR
  ELSE newICR >= MCR

\* _requireValidAdjustmentInCurrentMode
ValidAdjustmentInCurrentMode(inRecoveryMode, stEthDecrease, isDebtIncrease, oldICR, newICR, newTCR) ==
  IF inRecoveryMode
  THEN /\ stEthDecrease = 0
       /\ isDebtIncrease => newICR >= CCR /\ newICR >= oldICR
  ELSE newICR >= MCR /\ newTCR >= CCR

\* _adjustCdpInternal, given the synced globals g and the synced CDP
AdjustSynced(sender, id, stEthIncrease, stEthDecrease, debtChange, isDebtIncrease, k, g, cdp) ==
  LET shares == GetSharesByPooledEth(stEthIncrease + stEthDecrease)
      sharesChange == IF stEthIncrease # 0 THEN shares ELSE -shares
      stEthChange == IF stEthIncrease # 0 THEN GetPooledEthByShares(shares)
                                          ELSE -GetPooledEthByShares(shares)
      signedDebt == IF isDebtIncrease THEN debtChange ELSE -debtChange
      newStake == ComputeNewStake(cdp.coll + sharesChange, g.stakesSnapshot, g.collSnapshot)
      newCdp == UpdatedCdp(cdp, cdp.coll + sharesChange, cdp.debt + signedDebt, newStake)
      newTCR == NewTCR(g, stEthChange, signedDebt)
      rest == ListWithout(sortedCdps, id)
  IN
  /\ IsActive(id)
  /\ UseApproval(sender, cdp.owner)
  /\ SyncFeeIndices(g)
  /\ isDebtIncrease => debtChange >= MIN_CHANGE
  /\ stEthIncrease = 0 \/ stEthDecrease = 0
  /\ stEthIncrease > 0 \/ stEthDecrease > 0 \/ debtChange > 0
  /\ \A change \in {stEthIncrease, stEthDecrease, debtChange} :
        change = 0 \/ change >= MIN_CHANGE
  /\ stEthDecrease <= GetPooledEthByShares(cdp.coll)
  /\ newCdp.coll >= 0 /\ DebtIsEnough(newCdp.debt)
  /\ ~isDebtIncrease => eBTCBalance[sender] >= debtChange
  /\ ValidAdjustmentInCurrentMode(IsRecoveryMode(TCR(g.systemCollShares, systemDebt)),
        stEthDecrease, isDebtIncrease, ICR(cdp), ICR(newCdp), newTCR)
  /\ lastGracePeriodStartTimestamp' = GracePeriodAfter(newTCR)
  /\ GetPooledEthByShares(newCdp.coll) >= MIN_NET_STETH_BALANCE
  /\ StakeIsDefined(g.stakesSnapshot, g.collSnapshot)
  /\ Cdps' = [Cdps EXCEPT ![id] = newCdp]
  /\ totalStakes + newStake >= cdp.stake
  /\ totalStakes' = RestakedTotal(totalStakes, cdp, newStake)
  /\ totalStakesSnapshot' = g.stakesSnapshot
  /\ totalCollateralSnapshot' = g.collSnapshot
  /\ ListContains(sortedCdps, id)
  /\ ValidInsertPosition(rest, k, ComputeNominalCR(newCdp.coll, newCdp.debt), g.feeIndex)
  /\ sortedCdps' = ListInsert(rest, k, id)
  /\ IF isDebtIncrease THEN WithdrawDebt(sender, debtChange) ELSE RepayDebt(sender, debtChange)
  /\ g.systemCollShares + sharesChange >= 0 /\ activePoolShares + sharesChange >= 0
  /\ systemCollShares' = g.systemCollShares + sharesChange
  /\ activePoolShares' = activePoolShares + sharesChange
  /\ feeRecipientCollShares' = g.feeRecipientCollShares
  /\ UNCHANGED <<redistributionVars, governanceVars, baseRateVars, surplusVars, nextCdpNonce,
                 envVars>>

\* _adjustCdpInternal, the body of addColl, withdrawColl, withdrawDebt,
\* repayDebt, adjustCdp and adjustCdpWithColl
AdjustCdp(sender, id, stEthIncrease, stEthDecrease, debtChange, isDebtIncrease, k) ==
  LET g == SyncedGlobal
  IN AdjustSynced(sender, id, stEthIncrease, stEthDecrease, debtChange, isDebtIncrease, k,
                  g, SyncedCdp(id, g.feeIndex))

-----------------------------------------------------------------------------
\* closeCdp: only outside Recovery Mode, only when the rest of the system
\* stays outside it, and never the last CDP
CloseCdp(sender, id) ==
  LET g == SyncedGlobal
      cdp == SyncedCdp(id, g.feeIndex)
      newTCR == NewTCR(g, -GetPooledEthByShares(cdp.coll), -cdp.debt)
      sent == cdp.coll + cdp.liquidatorRewardShares
  IN
  /\ IsActive(id)
  /\ UseApproval(sender, cdp.owner)
  /\ SyncFeeIndices(g)
  /\ ~IsRecoveryMode(TCR(g.systemCollShares, systemDebt))
  /\ newTCR >= CCR
  /\ lastGracePeriodStartTimestamp' = GracePeriodAfter(newTCR)
  /\ MoreThanOneCdp(sortedCdps)
  /\ totalStakes >= cdp.stake
  /\ totalStakes' = totalStakes - cdp.stake
  /\ totalStakesSnapshot' = g.stakesSnapshot
  /\ totalCollateralSnapshot' = g.collSnapshot
  /\ Cdps' = [Cdps EXCEPT ![id] = ClosedCdp(cdp, "closedByOwner")]
  /\ ListContains(sortedCdps, id)
  /\ sortedCdps' = ListWithout(sortedCdps, id)
  /\ RepayDebt(sender, cdp.debt)
  /\ g.systemCollShares >= cdp.coll /\ activePoolShares >= sent
  /\ systemCollShares' = g.systemCollShares - cdp.coll
  /\ activePoolShares' = activePoolShares - sent
  /\ feeRecipientCollShares' = g.feeRecipientCollShares
  /\ UNCHANGED <<redistributionVars, governanceVars, baseRateVars, surplusVars, nextCdpNonce,
                 envVars>>

-----------------------------------------------------------------------------
\* claimSurplusCollShares, with CollSurplusPool.claimSurplusCollShares
ClaimSurplusCollShares(account) ==
  LET claimable == surplusCollShares[account]
  IN
  /\ claimable > 0
  /\ totalSurplusCollShares >= claimable /\ collSurplusPoolShares >= claimable
  /\ surplusCollShares' = [surplusCollShares EXCEPT ![account] = 0]
  /\ totalSurplusCollShares' = totalSurplusCollShares - claimable
  /\ collSurplusPoolShares' = collSurplusPoolShares - claimable
  /\ UNCHANGED <<Cdps, stakeVars, feeIndexVars, redistributionVars,
                 lastGracePeriodStartTimestamp, governanceVars, baseRateVars, listVars,
                 poolVars, tokenVars, positionManagers, activePoolShares, envVars>>

\* setPositionManagerApproval, revoke- and renouncePositionManagerApproval,
\* and permitPositionManagerApproval once the borrower's signature is valid
SetPositionManagerApproval(borrower, manager, approval) ==
  /\ positionManagers' = [positionManagers EXCEPT ![<<borrower, manager>>] = approval]
  /\ UNCHANGED <<Cdps, stakeVars, feeIndexVars, redistributionVars,
                 lastGracePeriodStartTimestamp, governanceVars, baseRateVars, listVars,
                 poolVars, surplusVars, tokenVars, activePoolShares, envVars>>

-----------------------------------------------------------------------------
BorrowerAction ==
  \/ \E sender, borrower \in Users, debt \in OpenDebts, stEthBalance \in OpenStEthBalances,
        k \in 0 .. Len(sortedCdps) :
        OpenCdp(sender, borrower, debt, stEthBalance, k)
  \/ \E sender \in Users, id \in CdpIds, stEthIncrease, stEthDecrease \in CollChanges \cup {0},
        debtChange \in DebtChanges \cup {0}, isDebtIncrease \in BOOLEAN,
        k \in 0 .. Len(sortedCdps) - 1 :
        AdjustCdp(sender, id, stEthIncrease, stEthDecrease, debtChange, isDebtIncrease, k)
  \/ \E sender \in Users, id \in CdpIds : CloseCdp(sender, id)
  \/ \E account \in Users : ClaimSurplusCollShares(account)
  \/ \E borrower, manager \in Users, approval \in GrantedApprovals :
        borrower # manager /\ SetPositionManagerApproval(borrower, manager, approval)

=============================================================================
