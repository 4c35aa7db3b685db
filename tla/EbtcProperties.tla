--------------------------- MODULE EbtcProperties ---------------------------
(***************************************************************************)
(* What the protocol promises.  TypeOK is in EbtcStorage.                  *)
(***************************************************************************)
EXTENDS EbtcProtocol

-----------------------------------------------------------------------------
(* Sums.                                                                   *)

SumOverCdps(f) == SumFunctionOnSet(f, CdpIds)
SumOverUsers(f) == SumFunctionOnSet(f, Users)

\* What a CDP owes and owns once the two indices are applied, unrounded and
\* scaled by DECIMAL_PRECISION
ScaledDebt(cdp) ==
  cdp.debt * DECIMAL_PRECISION + cdp.stake * (systemDebtRedistributionIndex - cdp.debtIndex)
ScaledColl(cdp) ==
  cdp.coll * DECIMAL_PRECISION - cdp.stake * (systemStEthFeePerUnitIndex - cdp.feeIndex)

\* What the system's totals hold above the CDPs: the dust of the roundings
DebtDust ==
  systemDebt * DECIMAL_PRECISION - lastEBTCDebtErrorRedistribution
    - SumOverCdps([id \in CdpIds |-> ScaledDebt(Cdps[id])])
CollDust ==
  systemCollShares * DECIMAL_PRECISION + systemStEthFeePerUnitIndexError
    - SumOverCdps([id \in CdpIds |-> ScaledColl(Cdps[id])])

-----------------------------------------------------------------------------
(* State invariants.                                                       *)

\* The eBTC in circulation is the debt of the system, token for token: minting,
\* burning, redeeming and liquidating change EBTCToken and ActivePool alike.
SupplyIsSystemDebt == eBTCSupply = systemDebt

\* Every token is in someone's balance, so the debt can be repaid in full.
BalancesAddUp == SumOverUsers(eBTCBalance) = eBTCSupply

\* The stakes by which fees and bad debt are shared out add up to the total
\* they are divided by, whatever closed, grew or shrank.
StakesAddUp == totalStakes = SumOverCdps([id \in CdpIds |-> Cdps[id].stake])

\* The active pool can always pay the borrowers' collateral, the fee
\* recipient's claim and the reward of every open CDP at once.
ActivePoolIsSolvent ==
  activePoolShares >= systemCollShares + feeRecipientCollShares
    + SumOverCdps([id \in CdpIds |-> Cdps[id].liquidatorRewardShares])

\* Every owner can claim the surplus of liquidated and redeemed CDPs.
SurplusIsClaimable ==
  /\ collSurplusPoolShares >= totalSurplusCollShares
  /\ totalSurplusCollShares = SumOverUsers(surplusCollShares)

\* The sorted list holds exactly the active CDPs, each of them once.
ListHoldsActiveCdps ==
  /\ IsInjective(sortedCdps)
  /\ ToSet(sortedCdps) = ActiveCdps

\* No partial redemption, partial liquidation or repayment leaves dust debt.
DebtsReachTheMinimum == \A id \in ActiveCdps : Cdps[id].debt >= MIN_CHANGE

\* After every transaction, and at the end of any batch, the books of the
\* contracts agree: CdpManager's with its list, the pools' with what is owed to
\* borrowers, owners and the fee recipient, the token's with the debt.
BooksAreKept ==
  /\ SupplyIsSystemDebt
  /\ StakesAddUp
  /\ DebtsReachTheMinimum
  /\ ListHoldsActiveCdps
  /\ ActivePoolIsSolvent
  /\ SurplusIsClaimable

-----------------------------------------------------------------------------
(* Action properties.                                                      *)

Touched == {id \in CdpIds : Cdps'[id] # Cdps[id]}
Closed(status) == {id \in Touched : Cdps'[id].status = status}
Synced(id) == SyncedCdp(id, SyncedGlobal.feeIndex)
SyncedTCR == TCR(SyncedGlobal.systemCollShares, systemDebt)

\* A transaction loses less than one unit of debt to rounding for each CDP it
\* touches, and creates none: pending debt is applied once, bad debt is passed on
\* in full, and so the CDPs never owe more than the system's total.
DebtLosesOnlyDust == DebtDust' - DebtDust \in 0 .. Cardinality(Touched) * DECIMAL_PRECISION

\* The same of collateral and pending fees: the CDPs never claim more than the
\* system's total.
CollLosesOnlyDust == CollDust' - CollDust \in 0 .. Cardinality(Touched) * DECIMAL_PRECISION

\* Both hold of every transaction, whatever is pending when it comes, as long as
\* no fee due on a touched CDP reaches that CDP's collateral: the code leaves
\* such a fee untaken (CdpManagerStorage.getAccumulatedFeeSplitApplied), and the
\* CDP keeps what the fee recipient was credited with.
OnlyDustIsLost == [][DebtLosesOnlyDust /\ CollLosesOnlyDust]_vars

\* Once a CDP was opened there is always one: neither a batch of liquidations
\* nor a long redemption closes the last.
NeverEmptiedAgain == [][sortedCdps # <<>> => sortedCdps' # <<>>]_vars

\* What the synced views report of a CDP is not changed by what others do:
\* short of a redistribution, a rebase or a new split, a CDP no transaction
\* touches is worth the same before and after, whoever syncs first.
SyncedViewsAreStable ==
  [][/\ UNCHANGED <<ethPerShare, systemDebtRedistributionIndex>>
     => \A id \in ActiveCdps \ Touched :
          /\ Synced(id)'.coll = Synced(id).coll
          /\ Synced(id)'.debt = Synced(id).debt]_vars

\* The seconds since the last redemption that do not make up a minute
SecondsLeftOver == (now - lastRedemptionTimestamp) % SECONDS_IN_ONE_MINUTE

\* The base rate, decayed to the present, is not changed by setting a
\* parameter: the past is decayed at the old factor, and at the old pace.  And
\* nothing, a redemption included, stops the clock: the seconds left over when
\* the rate is decayed count towards the next minute.
DecayedRateIsSteady ==
  [][now' = now =>
       /\ SecondsLeftOver' = SecondsLeftOver
       /\ Touched = {} =>
            Decayed(baseRate', minuteDecayFactor', MinutesPassedSinceLastRedemption')
              = DecayedBaseRate]_vars

\* A redemption takes no debt off a CDP below MCR, in whole or in part: it
\* starts at the weakest healthy CDP, whatever fee and bad debt are pending on
\* the list.  (Stated by the contrapositive, so that TLC looks for a redemption
\* only behind a step that does not do what a redemption promises.)
TakesFromHealthyCdps ==
  \A id \in Touched : Cdps'[id].debt < Synced(id).debt => ICR(Synced(id)) >= MCR

RedemptionSparesUnhealthyCdps == [][~TakesFromHealthyCdps => ~RedemptionAction]_vars

\* Liquidation takes only a CDP below MCR, or one below CCR while the system
\* is in Recovery Mode and its grace period has run out; so too inside a
\* batch, where each liquidation moves the ratio of the system.
LiquidationNeedsCause ==
  [][\A id \in Closed("closedByLiquidation") :
       \/ ICR(Synced(id)) < MCR
       \/ /\ IsRecoveryMode(SyncedTCR) /\ ICR(Synced(id)) < CCR
          /\ RecoveryModeGracePeriodPassed]_vars

\* The ratio of the system after the first n closures of a batch, in that order
TCRAfter(order, n) ==
  LET done == {order[i] : i \in 1 .. n}
      Sum(f(_)) == SumOverCdps([id \in CdpIds |-> IF id \in done THEN f(id) ELSE 0])
  IN TCR(SyncedGlobal.systemCollShares - Sum(LAMBDA id : Synced(id).coll),
         systemDebt - Sum(LAMBDA id : LiquidationValues(Synced(id)).debtToBurn))

\* A batch judges each CDP by what is left when its turn comes: the closures
\* can be put in an order in which each CDP is below the threshold of the mode
\* and the ratio that those before it leave behind.
LiquidatedInTurn ==
  [][\E order \in SetToSeqs(Closed("closedByLiquidation")) :
       \A n \in 1 .. Len(order) :
         BelowLiqThreshold(ICR(Synced(order[n])), TCRAfter(order, n - 1))]_vars

\* Redemption is at face value for the owners: what their CDPs lose beyond
\* the surplus set aside for them is worth no more than the debt taken off.
RedeemsAtFaceValue ==
  \A u \in Users :
    LET mine == {id \in Touched : Cdps[id].owner = u}
        before(id) == Synced(id).coll + Synced(id).liquidatorRewardShares
        after(id) == Cdps'[id].coll + Cdps'[id].liquidatorRewardShares
        lost == SumOverCdps([id \in CdpIds |->
                               IF id \in mine THEN before(id) - after(id) ELSE 0])
                  - (surplusCollShares'[u] - surplusCollShares[u])
        repaid == SumOverCdps([id \in CdpIds |->
                                 IF id \in mine THEN Synced(id).debt - Cdps'[id].debt ELSE 0])
    IN lost * ethPerShare * price <= repaid * DECIMAL_PRECISION * DECIMAL_PRECISION

RedemptionIsAtFaceValue == [][~RedeemsAtFaceValue => ~RedemptionAction]_vars

\* The ratio of the system if its collateral were worth `error' more stETH
TCRWithError(error) ==
  ComputeCR(GetPooledEthByShares(systemCollShares) + error, systemDebt, price)

\* Every transaction that moves a CDP leaves the grace period running exactly
\* when the system is in Recovery Mode, up to two units of stETH: the ratio
\* BorrowerOperations computes ahead adds balances that were rounded apart.
GracePeriodFollowsTheMode ==
  [][Touched # {} =>
       \E error \in -2 .. 2 :
         (lastGracePeriodStartTimestamp' # UNSET_TIMESTAMP) = IsRecoveryMode(TCRWithError(error)')]_vars

\* The owner, or who acts for it, opened the CDP, drew debt on it or took
\* collateral out without repaying.
Risked(id) ==
  /\ Cdps'[id].status = "active"
  /\ \/ Cdps[id].status = "nonExistent"
     \/ Cdps'[id].debt > Synced(id).debt
     \/ Cdps'[id].coll < Synced(id).coll /\ Cdps'[id].debt = Synced(id).debt

\* Nobody makes a CDP liquidatable by operating it: in the mode the operation
\* leaves behind, whichever it began in, the CDP is no candidate for liquidation
\* (BO-07, BO-09).  A unit of stETH is allowed for, twice in the ratio of the
\* system: the checks are of the stETH sent, and a CDP keeps the floor of it in
\* shares.
NoBorrowerBecomesLiquidatable ==
  [][\A id \in {i \in Touched : Risked(i)} :
       \E error \in 0 .. 2 :
         ~BelowLiqThreshold(
            ComputeCR(GetPooledEthByShares(Cdps[id].coll) + 1, Cdps[id].debt, price)',
            TCRWithError(error)')]_vars

\* Liquidating CDPs weaker than the system does not weaken what remains (L-12).
\* It holds with redistributed bad debt too while the system is above MCR;
\* below, the least that a liquidation pays out may be more than its share.
\* A unit of stETH is allowed for each CDP, whose share of the fee is rounded.
LiquidationNeverLowersTCR ==
  [][/\ Closed("closedByLiquidation") # {}
     /\ UNCHANGED redistributionVars \/ SyncedTCR >= MCR
     /\ \A id \in Closed("closedByLiquidation") : ICR(Synced(id)) < SyncedTCR
     => TCRWithError(MaxCdps)' >= SyncedTCR]_vars

-----------------------------------------------------------------------------
(* What the documents of the repository say and the code does not do.      *)

\* Redemption never lowers the ratio of the system (R-07).
RedemptionNeverLowersTCR ==
  [][Closed("closedByRedemption") # {} => SyncedTCR' >= SyncedTCR]_vars

=============================================================================
