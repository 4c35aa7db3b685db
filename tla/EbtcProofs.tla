----------------------------- MODULE EbtcProofs -----------------------------
(***************************************************************************)
(* Machine-checked proofs, for every value of the constants.               *)
(***************************************************************************)
EXTENDS EbtcProperties, SumLemmas, TLAPS

(* --- Arithmetic -------------------------------------------------------- *)

LEMMA DivIsNat == ASSUME NEW n \in Nat, NEW d \in Nat \ {0} PROVE n \div d \in Nat
  OBVIOUS

LEMMA ProductIsNat == ASSUME NEW a \in Nat, NEW b \in Nat PROVE a * b \in Nat
  OBVIOUS

LEMMA ModIsNat == ASSUME NEW n \in Nat, NEW d \in Nat \ {0} PROVE n % d \in Nat
  OBVIOUS

LEMMA DivBound ==
  ASSUME NEW n \in Nat, NEW d \in Nat \ {0} PROVE (n \div d) * d <= n
  OBVIOUS

LEMMA LesserIsNat == ASSUME NEW a \in Nat, NEW b \in Nat
                     PROVE  Lesser(a, b) \in Nat /\ Lesser(a, b) <= a /\ Lesser(a, b) <= b
  BY DEF Lesser

LEMMA PooledEthIsNat ==
  ASSUME NEW shares \in Nat, NEW rate \in Nat PROVE PooledEth(shares, rate) \in Nat
  BY ScaleAssumption, ProductIsNat, DivIsNat DEF PooledEth

LEMMA SharesIsNat ==
  ASSUME NEW stEth \in Nat, NEW rate \in Nat \ {0} PROVE SharesOf(stEth, rate) \in Nat
  BY ScaleAssumption, ProductIsNat, DivIsNat DEF SharesOf

(* --- The environment and the views that read it ------------------------ *)

LEMMA RatesArePositive ==
  ASSUME EnvTypeOK
  PROVE  ethPerShare \in Nat \ {0} /\ price \in Nat \ {0} /\ now \in Nat /\ MaxTime \in Nat
  BY InputAssumption DEF EnvTypeOK

LEMMA GetPooledIsNat ==
  ASSUME EnvTypeOK, NEW shares \in Nat PROVE GetPooledEthByShares(shares) \in Nat
  BY RatesArePositive, PooledEthIsNat DEF GetPooledEthByShares

LEMMA GetSharesIsNat ==
  ASSUME EnvTypeOK, NEW stEth \in Nat PROVE GetSharesByPooledEth(stEth) \in Nat
  BY RatesArePositive, SharesIsNat DEF GetSharesByPooledEth

(* --- Lists ------------------------------------------------------------- *)

LEMMA InsertType ==
  ASSUME NEW S, NEW list \in Seq(S), NEW k \in 0 .. Len(list), NEW e \in S
  PROVE  ListInsert(list, k, e) \in Seq(S)
  BY DEF ListInsert, InsertAt

LEMMA RemoveAtType ==
  ASSUME NEW S, NEW list \in Seq(S), NEW i \in 1 .. Len(list)
  PROVE  RemoveAt(list, i) \in Seq(S)
  BY DEF RemoveAt

LEMMA WithoutType ==
  ASSUME NEW S, NEW list \in Seq(S), NEW e, ListContains(list, e)
  PROVE  ListWithout(list, e) \in Seq(S)
  BY RemoveAtType DEF ListContains, ListWithout

(* --- Accounting -------------------------------------------------------- *)

GlobalRecords ==
  [feeIndex: Nat \ {0}, feeError: Nat, systemCollShares: Nat, feeRecipientCollShares: Nat,
   stakesSnapshot: Nat, collSnapshot: Nat]

LEMMA FeeIsNat ==
  ASSUME TypeOK, FeeIsDue
  PROVE  /\ FeeUponStakingReward.feeTaken \in Nat
         /\ FeeUponStakingReward.perUnit \in Nat
         /\ FeeUponStakingReward.error \in Nat
<1> DEFINE delta == ((ethPerShare - stEthIndex) * stakingRewardSplit) \div MAX_REWARD_SPLIT
           taken == GetSharesByPooledEth(delta * systemCollShares) \div DECIMAL_PRECISION
           scaled == taken * DECIMAL_PRECISION + systemStEthFeePerUnitIndexError
<1>1. ethPerShare \in Nat /\ ethPerShare - stEthIndex \in Nat /\ stakingRewardSplit \in Nat
  BY RatesArePositive, ScaleAssumption
     DEF TypeOK, FeeIsDue, FeeIndexTypeOK, GovernanceTypeOK
<1>2. delta \in Nat
  BY <1>1, ScaleAssumption, ProductIsNat, DivIsNat
<1>3. delta * systemCollShares \in Nat
  BY <1>2, ProductIsNat DEF TypeOK, PoolTypeOK
<1>4. GetSharesByPooledEth(delta * systemCollShares) \in Nat
  BY <1>3, GetSharesIsNat DEF TypeOK
<1>5. taken \in Nat
  BY <1>4, ScaleAssumption, DivIsNat
<1>6. scaled \in Nat
  BY <1>5, ScaleAssumption, ProductIsNat DEF TypeOK, FeeIndexTypeOK
<1>7. totalStakes \in Nat \ {0}
  BY DEF TypeOK, FeeIsDue, StakeTypeOK
<1>8. scaled \div totalStakes \in Nat /\ scaled % totalStakes \in Nat
  BY <1>6, <1>7, DivIsNat, ModIsNat
<1> QED
  BY <1>5, <1>8 DEF FeeUponStakingReward

LEMMA SyncedGlobalType ==
  ASSUME TypeOK, SyncGlobalSucceeds
  PROVE  SyncedGlobal \in GlobalRecords
<1>1. CASE FeeIsDue
  BY <1>1, FeeIsNat
     DEF TypeOK, SyncedGlobal, SyncGlobalSucceeds, GlobalRecords, FeeIndexTypeOK, PoolTypeOK,
         StakeTypeOK
<1>2. CASE ~FeeIsDue
  BY <1>2
     DEF TypeOK, SyncedGlobal, GlobalRecords, FeeIndexTypeOK, PoolTypeOK, StakeTypeOK
<1> QED
  BY <1>1, <1>2

LEMMA StakeIsNat ==
  ASSUME NEW coll \in Nat, NEW stakes \in Nat, NEW total \in Nat
  PROVE  ComputeNewStake(coll, stakes, total) \in Nat
  BY ProductIsNat, DivIsNat DEF ComputeNewStake

LEMMA GraceType ==
  ASSUME TypeOK, NEW tcr
  PROVE  GracePeriodAfter(tcr) \in Nat \cup {UNSET_TIMESTAMP}
  BY RatesArePositive DEF TypeOK, GracePeriodAfter, GraceTypeOK

(* No CDP has seen more redistributions than there were, so that what it has *)
(* still to take on is a natural number.                                     *)
IndicesAreReached == \A id \in CdpIds : Cdps[id].debtIndex <= systemDebtRedistributionIndex

LEMMA CollAfterFeeIsNat ==
  ASSUME NEW cdp \in CdpRecords, NEW feeIndex \in Nat
  PROVE  CollAfterFeeSplit(cdp, feeIndex) \in Nat
<1> DEFINE scaled == cdp.coll * DECIMAL_PRECISION
           fee == cdp.stake * (feeIndex - cdp.feeIndex)
<1>1. cdp.coll \in Nat /\ cdp.stake \in Nat /\ feeIndex - cdp.feeIndex \in Int
  BY DEF CdpRecords
<1>2. scaled \in Int /\ fee \in Int
  BY <1>1, ScaleAssumption
<1> HIDE DEF scaled, fee
<1>3. scaled > fee => (scaled - fee) \div DECIMAL_PRECISION \in Nat
  BY <1>2, ScaleAssumption, DivIsNat
<1> QED
  BY <1>1, <1>3 DEF CollAfterFeeSplit, scaled, fee

LEMMA PendingIsNat ==
  ASSUME RedistributionTypeOK, NEW cdp \in CdpRecords,
         cdp.debtIndex <= systemDebtRedistributionIndex
  PROVE  PendingDebt(cdp) \in Nat
<1>1. cdp.stake \in Nat /\ systemDebtRedistributionIndex - cdp.debtIndex \in Nat
  BY DEF CdpRecords, RedistributionTypeOK
<1> QED
  BY <1>1, ProductIsNat, DivIsNat, ScaleAssumption DEF PendingDebt

LEMMA SyncedCdpType ==
  ASSUME TypeOK, IndicesAreReached, NEW id \in CdpIds, NEW feeIndex \in Nat
  PROVE  /\ SyncedCdp(id, feeIndex) \in CdpRecords
         /\ SyncedCdp(id, feeIndex).debtIndex = systemDebtRedistributionIndex
<1>1. Cdps[id] \in CdpRecords
  BY DEF TypeOK, CdpTypeOK
<1>2. CollAfterFeeSplit(Cdps[id], feeIndex) \in Nat
  BY <1>1, CollAfterFeeIsNat
<1>3. PendingDebt(Cdps[id]) \in Nat
  BY <1>1, PendingIsNat DEF TypeOK, IndicesAreReached
<1> QED
  BY <1>1, <1>2, <1>3 DEF SyncedCdp, CdpRecords, TypeOK, RedistributionTypeOK

LEMMA ClosedCdpType ==
  ASSUME NEW cdp \in CdpRecords, NEW closedStatus \in Statuses
  PROVE  /\ ClosedCdp(cdp, closedStatus) \in CdpRecords
         /\ ClosedCdp(cdp, closedStatus).debtIndex = 0
  BY DEF ClosedCdp, NoCdp, CdpRecords

(* --- What the parts of an action preserve ------------------------------ *)

LEMMA CdpUpdateType ==
  ASSUME TypeOK, IndicesAreReached, NEW id \in CdpIds, NEW cdp \in CdpRecords,
         cdp.debtIndex <= systemDebtRedistributionIndex,
         Cdps' = [Cdps EXCEPT ![id] = cdp],
         systemDebtRedistributionIndex' \in Nat,
         systemDebtRedistributionIndex <= systemDebtRedistributionIndex'
  PROVE  CdpTypeOK' /\ IndicesAreReached'
<1>1. CdpTypeOK'
  BY DEF TypeOK, CdpTypeOK
<1>2. \A i \in CdpIds : Cdps[i].debtIndex \in Nat /\ cdp.debtIndex \in Nat
  BY DEF TypeOK, CdpTypeOK, CdpRecords
<1>3. ASSUME NEW i \in CdpIds PROVE Cdps'[i].debtIndex <= systemDebtRedistributionIndex'
  <2>1. Cdps'[i] = IF i = id THEN cdp ELSE Cdps[i]
    BY DEF TypeOK, CdpTypeOK
  <2>2. systemDebtRedistributionIndex \in Nat
    BY DEF TypeOK, RedistributionTypeOK
  <2> QED
    BY <2>1, <2>2, <1>2 DEF IndicesAreReached
<1> QED
  BY <1>1, <1>3 DEF IndicesAreReached

LEMMA CdpOnlyUpdateType ==
  ASSUME TypeOK, IndicesAreReached, NEW id \in CdpIds, NEW cdp \in CdpRecords,
         cdp.debtIndex <= systemDebtRedistributionIndex,
         Cdps' = [Cdps EXCEPT ![id] = cdp], UNCHANGED redistributionVars
  PROVE  CdpTypeOK' /\ IndicesAreReached' /\ RedistributionTypeOK'
<1>1. /\ systemDebtRedistributionIndex' = systemDebtRedistributionIndex
      /\ lastEBTCDebtErrorRedistribution' = lastEBTCDebtErrorRedistribution
  BY DEF redistributionVars
<1>2. systemDebtRedistributionIndex \in Nat /\ lastEBTCDebtErrorRedistribution \in Nat
  BY DEF TypeOK, RedistributionTypeOK
<1>3. /\ systemDebtRedistributionIndex' \in Nat
      /\ systemDebtRedistributionIndex <= systemDebtRedistributionIndex'
  BY <1>1, <1>2
<1>4. CdpTypeOK' /\ IndicesAreReached'
  BY <1>3, CdpUpdateType
<1> QED
  BY <1>1, <1>2, <1>4 DEF RedistributionTypeOK

LEMMA SyncFeeIndicesType ==
  ASSUME TypeOK, SyncFeeIndices(SyncedGlobal)
  PROVE  FeeIndexTypeOK' /\ SyncedGlobal \in GlobalRecords
<1>1. SyncedGlobal \in GlobalRecords
  BY SyncedGlobalType DEF SyncFeeIndices
<1>2. ethPerShare \in Nat \ {0}
  BY RatesArePositive DEF TypeOK
<1> QED
  BY <1>1, <1>2 DEF SyncFeeIndices, FeeIndexTypeOK, GlobalRecords

LEMMA WithdrawDebtType ==
  ASSUME TypeOK, NEW account \in Users, NEW debt \in Nat, WithdrawDebt(account, debt)
  PROVE  systemDebt' \in Nat /\ TokenTypeOK'
  BY DEF TypeOK, WithdrawDebt, IncreaseSystemDebt, Mint, PoolTypeOK, TokenTypeOK

LEMMA DecreaseSystemDebtType ==
  ASSUME TypeOK, NEW debt \in Nat, DecreaseSystemDebt(debt)
  PROVE  systemDebt' \in Nat
  BY DEF TypeOK, DecreaseSystemDebt, PoolTypeOK

LEMMA BurnType ==
  ASSUME TypeOK, NEW account \in Users, NEW debt \in Nat, Burn(account, debt)
  PROVE  TokenTypeOK'
  BY DEF TypeOK, Burn, TokenTypeOK

LEMMA UseApprovalType ==
  ASSUME TypeOK, NEW sender, NEW borrower, UseApproval(sender, borrower)
  PROVE  ApprovalTypeOK'
  BY DEF TypeOK, ApprovalTypeOK, UseApproval, Approvals

LEMMA GracePeriodType ==
  ASSUME TypeOK, NEW tcr, lastGracePeriodStartTimestamp' = GracePeriodAfter(tcr)
  PROVE  GraceTypeOK'
  BY GraceType DEF GraceTypeOK

LEMMA ListUpdateType ==
  ASSUME TypeOK, NEW list \in Seq(CdpIds), NEW k, NEW id \in CdpIds, NEW nicr, NEW feeIndex,
         ValidInsertPosition(list, k, nicr, feeIndex)
  PROVE  ListInsert(list, k, id) \in Seq(CdpIds)
  BY InsertType DEF ValidInsertPosition

(* --- Borrowers --------------------------------------------------------- *)

LEMMA OpenCdpType ==
  ASSUME TypeOK, IndicesAreReached,
         NEW sender \in Users, NEW borrower \in Users, NEW debt \in Nat,
         NEW stEthBalance \in Nat, NEW k, OpenCdp(sender, borrower, debt, stEthBalance, k)
  PROVE  TypeOK' /\ IndicesAreReached'
<1> DEFINE g == SyncedGlobal
           net == stEthBalance - LIQUIDATOR_REWARD
           collShares == GetSharesByPooledEth(net)
           stake == ComputeNewStake(collShares, g.stakesSnapshot, g.collSnapshot)
           cdp == [status |-> "active", owner |-> borrower, coll |-> collShares, debt |-> debt,
                   stake |-> stake,
                   liquidatorRewardShares |-> GetSharesByPooledEth(LIQUIDATOR_REWARD),
                   debtIndex |-> systemDebtRedistributionIndex, feeIndex |-> g.feeIndex]
<1>1. FeeIndexTypeOK' /\ g \in GlobalRecords
  BY SyncFeeIndicesType DEF OpenCdp
<1>2. net \in Nat
  BY MinimumAssumption DEF OpenCdp
<1>3. EnvTypeOK
  BY DEF TypeOK
<1>4. /\ collShares \in Nat /\ GetSharesByPooledEth(stEthBalance) \in Nat
      /\ GetSharesByPooledEth(LIQUIDATOR_REWARD) \in Nat
  BY <1>2, <1>3, GetSharesIsNat, MinimumAssumption
<1>5. stake \in Nat
  BY <1>1, <1>4, StakeIsNat DEF GlobalRecords
<1>6. systemDebtRedistributionIndex \in Nat
  BY DEF TypeOK, RedistributionTypeOK
<1>7. nextCdpNonce \in CdpIds
  BY InputAssumption DEF OpenCdp, TypeOK, ListTypeOK, CdpIds
<1>8. cdp \in CdpRecords /\ cdp.debtIndex = systemDebtRedistributionIndex
  BY <1>1, <1>4, <1>5, <1>6 DEF CdpRecords, Statuses, GlobalRecords
<1>9. Cdps' = [Cdps EXCEPT ![nextCdpNonce] = cdp] /\ UNCHANGED redistributionVars
  BY DEF OpenCdp
<1>10. CdpTypeOK' /\ IndicesAreReached' /\ RedistributionTypeOK'
  <2> HIDE DEF cdp
  <2>1. cdp.debtIndex <= systemDebtRedistributionIndex
    BY <1>6, <1>8
  <2> QED
    BY <2>1, <1>7, <1>8, <1>9, CdpOnlyUpdateType
<1>11. StakeTypeOK'
  BY <1>1, <1>5 DEF OpenCdp, TypeOK, StakeTypeOK, GlobalRecords
<1>12. GraceTypeOK'
  BY GracePeriodType DEF OpenCdp
<1>13. ListTypeOK'
  <2>1. ListInsert(sortedCdps, k, nextCdpNonce) \in Seq(CdpIds)
    BY <1>7, ListUpdateType DEF OpenCdp, TypeOK, ListTypeOK
  <2> QED
    BY <2>1 DEF OpenCdp, TypeOK, ListTypeOK
<1>14. systemDebt' \in Nat /\ TokenTypeOK'
  BY WithdrawDebtType DEF OpenCdp
<1>15. PoolTypeOK'
  BY <1>1, <1>4, <1>14 DEF OpenCdp, TypeOK, PoolTypeOK, GlobalRecords
<1>16. ApprovalTypeOK'
  BY UseApprovalType DEF OpenCdp
<1>17. GovernanceTypeOK' /\ BaseRateTypeOK' /\ SurplusTypeOK' /\ EnvTypeOK'
  BY DEF OpenCdp, TypeOK, GovernanceTypeOK, BaseRateTypeOK, SurplusTypeOK, EnvTypeOK,
         governanceVars, baseRateVars, surplusVars, envVars
<1> QED
  BY <1>1, <1>10, <1>11, <1>12, <1>13, <1>14, <1>15, <1>16, <1>17 DEF TypeOK

LEMMA AdjustCdpType ==
  ASSUME TypeOK, IndicesAreReached,
         NEW sender \in Users, NEW id \in CdpIds, NEW stEthIncrease \in Nat,
         NEW stEthDecrease \in Nat, NEW debtChange \in Nat, NEW isDebtIncrease \in BOOLEAN,
         NEW k,
         AdjustCdp(sender, id, stEthIncrease, stEthDecrease, debtChange, isDebtIncrease, k)
  PROVE  TypeOK' /\ IndicesAreReached'
<1> DEFINE g == SyncedGlobal
           cdp == SyncedCdp(id, g.feeIndex)
           shares == GetSharesByPooledEth(stEthIncrease + stEthDecrease)
           sharesChange == IF stEthIncrease # 0 THEN shares ELSE -shares
           signedDebt == IF isDebtIncrease THEN debtChange ELSE -debtChange
           coll == cdp.coll + sharesChange
           debt == cdp.debt + signedDebt
           newStake == ComputeNewStake(coll, g.stakesSnapshot, g.collSnapshot)
           newCdp == UpdatedCdp(cdp, coll, debt, newStake)
           rest == ListWithout(sortedCdps, id)
<1>1. FeeIndexTypeOK' /\ g \in GlobalRecords
  BY SyncFeeIndicesType DEF AdjustCdp, AdjustSynced
<1>2. cdp \in CdpRecords /\ cdp.debtIndex = systemDebtRedistributionIndex
  BY <1>1, SyncedCdpType DEF GlobalRecords
<1>3. cdp.coll \in Nat /\ cdp.debt \in Nat /\ cdp.stake \in Nat
  BY <1>2 DEF CdpRecords
<1>4. EnvTypeOK /\ stEthIncrease + stEthDecrease \in Nat
  BY DEF TypeOK
<1>5. shares \in Nat
  BY <1>4, GetSharesIsNat
<1>6. sharesChange \in Int /\ signedDebt \in Int
  BY <1>5
<1>7. newCdp.coll = coll /\ newCdp.debt = debt
  BY <1>2 DEF UpdatedCdp, CdpRecords
<1>8. newCdp.coll >= 0 /\ newCdp.debt >= MIN_CHANGE
  BY DEF AdjustCdp, AdjustSynced, DebtIsEnough
<1>9. coll \in Nat /\ debt \in Nat
  BY <1>3, <1>6, <1>7, <1>8, MinimumAssumption
<1>10. newStake \in Nat
  BY <1>1, <1>9, StakeIsNat DEF GlobalRecords
<1>11. CdpTypeOK' /\ IndicesAreReached' /\ RedistributionTypeOK'
  <2>1. newCdp \in CdpRecords /\ newCdp.debtIndex = cdp.debtIndex
    <3> HIDE DEF cdp, coll, debt, newStake
    <3> QED
      BY <1>2, <1>9, <1>10 DEF UpdatedCdp, CdpRecords
  <2>2. newCdp.debtIndex <= systemDebtRedistributionIndex
    BY <2>1, <1>2 DEF TypeOK, RedistributionTypeOK
  <2>3. Cdps' = [Cdps EXCEPT ![id] = newCdp] /\ UNCHANGED redistributionVars
    BY DEF AdjustCdp, AdjustSynced
  <2> HIDE DEF newCdp
  <2> QED
    BY <2>1, <2>2, <2>3, CdpOnlyUpdateType
<1>12. StakeTypeOK'
  <2>1. /\ totalStakes' = RestakedTotal(totalStakes, cdp, newStake)
        /\ totalStakes + newStake >= cdp.stake
        /\ totalStakesSnapshot' = g.stakesSnapshot
        /\ totalCollateralSnapshot' = g.collSnapshot
    BY DEF AdjustCdp, AdjustSynced
  <2> QED
    BY <2>1, <1>1, <1>3, <1>10 DEF TypeOK, StakeTypeOK, GlobalRecords, RestakedTotal
<1>13. GraceTypeOK'
  BY GracePeriodType DEF AdjustCdp, AdjustSynced
<1>14. ListTypeOK'
  <2>1. rest \in Seq(CdpIds)
    BY WithoutType DEF AdjustCdp, AdjustSynced, TypeOK, ListTypeOK
  <2>2. ListInsert(rest, k, id) \in Seq(CdpIds)
    BY <2>1, ListUpdateType DEF AdjustCdp, AdjustSynced
  <2> QED
    BY <2>2 DEF AdjustCdp, AdjustSynced, TypeOK, ListTypeOK, listVars
<1>15. systemDebt' \in Nat /\ TokenTypeOK'
  <2>1. CASE isDebtIncrease
    <3>1. WithdrawDebt(sender, debtChange)
      BY <2>1 DEF AdjustCdp, AdjustSynced
    <3> QED
      BY <3>1, WithdrawDebtType
  <2>2. CASE ~isDebtIncrease
    <3>1. DecreaseSystemDebt(debtChange) /\ Burn(sender, debtChange)
      BY <2>2 DEF AdjustCdp, AdjustSynced, RepayDebt
    <3> QED
      BY <3>1, DecreaseSystemDebtType, BurnType
  <2> QED
    BY <2>1, <2>2
<1>16. PoolTypeOK'
  <2>1. /\ g.systemCollShares + sharesChange >= 0 /\ activePoolShares + sharesChange >= 0
        /\ systemCollShares' = g.systemCollShares + sharesChange
        /\ activePoolShares' = activePoolShares + sharesChange
        /\ feeRecipientCollShares' = g.feeRecipientCollShares
    BY DEF AdjustCdp, AdjustSynced
  <2> QED
    BY <2>1, <1>1, <1>6, <1>15 DEF TypeOK, PoolTypeOK, GlobalRecords
<1>17. ApprovalTypeOK'
  BY UseApprovalType DEF AdjustCdp, AdjustSynced
<1>18. GovernanceTypeOK' /\ BaseRateTypeOK' /\ SurplusTypeOK' /\ EnvTypeOK'
  BY DEF AdjustCdp, AdjustSynced, TypeOK, GovernanceTypeOK, BaseRateTypeOK, SurplusTypeOK, EnvTypeOK,
         governanceVars, baseRateVars, surplusVars, envVars
<1> QED
  BY <1>1, <1>11, <1>12, <1>13, <1>14, <1>15, <1>16, <1>17, <1>18 DEF TypeOK

LEMMA CloseCdpType ==
  ASSUME TypeOK, IndicesAreReached, NEW sender \in Users, NEW id \in CdpIds,
         CloseCdp(sender, id)
  PROVE  TypeOK' /\ IndicesAreReached'
<1> DEFINE g == SyncedGlobal
           cdp == SyncedCdp(id, g.feeIndex)
           sent == cdp.coll + cdp.liquidatorRewardShares
           closed == ClosedCdp(cdp, "closedByOwner")
<1>1. FeeIndexTypeOK' /\ g \in GlobalRecords
  BY SyncFeeIndicesType DEF CloseCdp
<1>2. cdp \in CdpRecords
  BY <1>1, SyncedCdpType DEF GlobalRecords
<1>3. /\ cdp.coll \in Nat /\ cdp.debt \in Nat /\ cdp.stake \in Nat
      /\ cdp.liquidatorRewardShares \in Nat
  BY <1>2 DEF CdpRecords
<1>4. CdpTypeOK' /\ IndicesAreReached' /\ RedistributionTypeOK'
  <2>1. closed \in CdpRecords /\ closed.debtIndex = 0
    BY <1>2, ClosedCdpType DEF Statuses
  <2>2. closed.debtIndex <= systemDebtRedistributionIndex
    BY <2>1 DEF TypeOK, RedistributionTypeOK
  <2>3. Cdps' = [Cdps EXCEPT ![id] = closed] /\ UNCHANGED redistributionVars
    BY DEF CloseCdp
  <2> HIDE DEF closed
  <2> QED
    BY <2>1, <2>2, <2>3, CdpOnlyUpdateType
<1>5. StakeTypeOK'
  <2>1. /\ totalStakes >= cdp.stake /\ totalStakes' = totalStakes - cdp.stake
        /\ totalStakesSnapshot' = g.stakesSnapshot
        /\ totalCollateralSnapshot' = g.collSnapshot
    BY DEF CloseCdp
  <2> QED
    BY <2>1, <1>1, <1>3 DEF TypeOK, StakeTypeOK, GlobalRecords
<1>6. GraceTypeOK'
  BY GracePeriodType DEF CloseCdp
<1>7. ListTypeOK'
  <2>1. ListWithout(sortedCdps, id) \in Seq(CdpIds)
    BY WithoutType DEF CloseCdp, TypeOK, ListTypeOK
  <2> QED
    BY <2>1 DEF CloseCdp, TypeOK, ListTypeOK
<1>8. systemDebt' \in Nat /\ TokenTypeOK'
  <2>1. DecreaseSystemDebt(cdp.debt) /\ Burn(sender, cdp.debt)
    BY DEF CloseCdp, RepayDebt
  <2> QED
    BY <2>1, <1>3, DecreaseSystemDebtType, BurnType
<1>9. PoolTypeOK'
  <2>1. /\ g.systemCollShares >= cdp.coll /\ activePoolShares >= sent
        /\ systemCollShares' = g.systemCollShares - cdp.coll
        /\ activePoolShares' = activePoolShares - sent
        /\ feeRecipientCollShares' = g.feeRecipientCollShares
    BY DEF CloseCdp
  <2> QED
    BY <2>1, <1>1, <1>3, <1>8 DEF TypeOK, PoolTypeOK, GlobalRecords
<1>10. ApprovalTypeOK'
  BY UseApprovalType DEF CloseCdp
<1>11. GovernanceTypeOK' /\ BaseRateTypeOK' /\ SurplusTypeOK' /\ EnvTypeOK'
  BY DEF CloseCdp, TypeOK, GovernanceTypeOK, BaseRateTypeOK, SurplusTypeOK, EnvTypeOK,
         governanceVars, baseRateVars, surplusVars, envVars
<1> QED
  BY <1>1, <1>4, <1>5, <1>6, <1>7, <1>8, <1>9, <1>10, <1>11 DEF TypeOK

LEMMA ClaimSurplusType ==
  ASSUME TypeOK, IndicesAreReached, NEW account \in Users, ClaimSurplusCollShares(account)
  PROVE  TypeOK' /\ IndicesAreReached'
<1>1. SurplusTypeOK'
  BY DEF ClaimSurplusCollShares, TypeOK, SurplusTypeOK
<1>2. CdpTypeOK' /\ IndicesAreReached' /\ RedistributionTypeOK'
  BY DEF ClaimSurplusCollShares, TypeOK, CdpTypeOK, IndicesAreReached, RedistributionTypeOK,
         redistributionVars
<1>3. /\ StakeTypeOK' /\ FeeIndexTypeOK' /\ GraceTypeOK' /\ ListTypeOK' /\ PoolTypeOK'
      /\ TokenTypeOK' /\ ApprovalTypeOK'
  BY DEF ClaimSurplusCollShares, TypeOK, StakeTypeOK, FeeIndexTypeOK, GraceTypeOK, ListTypeOK,
         PoolTypeOK, TokenTypeOK, ApprovalTypeOK, stakeVars, feeIndexVars, listVars, poolVars,
         tokenVars
<1>4. GovernanceTypeOK' /\ BaseRateTypeOK' /\ EnvTypeOK'
  BY DEF ClaimSurplusCollShares, TypeOK, GovernanceTypeOK, BaseRateTypeOK, EnvTypeOK,
         governanceVars, baseRateVars, envVars
<1> QED
  BY <1>1, <1>2, <1>3, <1>4 DEF TypeOK

LEMMA ApprovalType ==
  ASSUME TypeOK, IndicesAreReached, NEW borrower \in Users, NEW manager \in Users,
         NEW approval \in Approvals, SetPositionManagerApproval(borrower, manager, approval)
  PROVE  TypeOK' /\ IndicesAreReached'
<1>1. ApprovalTypeOK'
  BY DEF SetPositionManagerApproval, TypeOK, ApprovalTypeOK
<1>2. CdpTypeOK' /\ IndicesAreReached' /\ RedistributionTypeOK'
  BY DEF SetPositionManagerApproval, TypeOK, CdpTypeOK, IndicesAreReached,
         RedistributionTypeOK, redistributionVars
<1>3. /\ StakeTypeOK' /\ FeeIndexTypeOK' /\ GraceTypeOK' /\ ListTypeOK' /\ PoolTypeOK'
      /\ TokenTypeOK' /\ SurplusTypeOK'
  BY DEF SetPositionManagerApproval, TypeOK, StakeTypeOK, FeeIndexTypeOK, GraceTypeOK,
         ListTypeOK, PoolTypeOK, TokenTypeOK, SurplusTypeOK, stakeVars, feeIndexVars, listVars,
         poolVars, tokenVars, surplusVars
<1>4. GovernanceTypeOK' /\ BaseRateTypeOK' /\ EnvTypeOK'
  BY DEF SetPositionManagerApproval, TypeOK, GovernanceTypeOK, BaseRateTypeOK, EnvTypeOK,
         governanceVars, baseRateVars, envVars
<1> QED
  BY <1>1, <1>2, <1>3, <1>4 DEF TypeOK

LEMMA BorrowerType ==
  ASSUME TypeOK, IndicesAreReached, BorrowerAction
  PROVE  TypeOK' /\ IndicesAreReached'
<1>1. ASSUME NEW sender \in Users, NEW borrower \in Users, NEW debt \in OpenDebts,
             NEW stEthBalance \in OpenStEthBalances, NEW k \in 0 .. Len(sortedCdps),
             OpenCdp(sender, borrower, debt, stEthBalance, k)
      PROVE  TypeOK' /\ IndicesAreReached'
  <2>1. debt \in Nat /\ stEthBalance \in Nat
    BY BorrowerInputAssumption
  <2> QED
    BY <2>1, <1>1, OpenCdpType
<1>2. ASSUME NEW sender \in Users, NEW id \in CdpIds, NEW stEthIncrease \in CollChanges \cup {0},
             NEW stEthDecrease \in CollChanges \cup {0}, NEW debtChange \in DebtChanges \cup {0},
             NEW isDebtIncrease \in BOOLEAN, NEW k \in 0 .. Len(sortedCdps) - 1,
             AdjustCdp(sender, id, stEthIncrease, stEthDecrease, debtChange, isDebtIncrease, k)
      PROVE  TypeOK' /\ IndicesAreReached'
  <2>1. stEthIncrease \in Nat /\ stEthDecrease \in Nat /\ debtChange \in Nat
    BY BorrowerInputAssumption
  <2> QED
    BY <2>1, <1>2, AdjustCdpType
<1>3. ASSUME NEW borrower \in Users, NEW manager \in Users, NEW approval \in GrantedApprovals,
             SetPositionManagerApproval(borrower, manager, approval)
      PROVE  TypeOK' /\ IndicesAreReached'
  BY <1>3, ApprovalType, BorrowerInputAssumption
<1> QED
  BY <1>1, <1>2, <1>3, CloseCdpType, ClaimSurplusType DEF BorrowerAction

(* --- Accounts and the environment -------------------------------------- *)

LEMMA TransferType ==
  ASSUME TypeOK, NEW sender \in Users, NEW recipient \in Users, NEW amount \in Nat,
         sender # recipient, Transfer(sender, recipient, amount)
  PROVE  TokenTypeOK'
<1> DEFINE after == [eBTCBalance EXCEPT ![sender] = @ - amount, ![recipient] = @ + amount]
<1>1. eBTCBalance \in [Users -> Nat] /\ eBTCSupply \in Nat
  BY DEF TypeOK, TokenTypeOK
<1>2. \A u \in Users : after[u] = IF u = recipient THEN eBTCBalance[u] + amount
                                  ELSE IF u = sender THEN eBTCBalance[u] - amount
                                  ELSE eBTCBalance[u]
  BY <1>1
<1>3. after \in [Users -> Nat]
  BY <1>1, <1>2 DEF Transfer
<1> QED
  BY <1>1, <1>3 DEF Transfer, TokenTypeOK

\* What syncing the globals alone preserves
LEMMA SyncType ==
  ASSUME TypeOK, SyncGlobalAccountingAndGracePeriod(SyncedGlobal), UNCHANGED totalStakes
  PROVE  /\ FeeIndexTypeOK' /\ StakeTypeOK' /\ GraceTypeOK' /\ systemCollShares' \in Nat
         /\ SyncedGlobal.feeRecipientCollShares \in Nat
<1>1. FeeIndexTypeOK' /\ SyncedGlobal \in GlobalRecords
  BY SyncFeeIndicesType DEF SyncGlobalAccountingAndGracePeriod
<1>2. GraceTypeOK'
  BY GracePeriodType DEF SyncGlobalAccountingAndGracePeriod
<1>3. StakeTypeOK'
  BY <1>1 DEF SyncGlobalAccountingAndGracePeriod, TypeOK, StakeTypeOK, GlobalRecords
<1> QED
  BY <1>1, <1>2, <1>3 DEF SyncGlobalAccountingAndGracePeriod, GlobalRecords

LEMMA SyncBeforeSettingType ==
  ASSUME TypeOK, IndicesAreReached, SyncBeforeSetting, GovernanceTypeOK', BaseRateTypeOK'
  PROVE  TypeOK' /\ IndicesAreReached'
<1>1. /\ FeeIndexTypeOK' /\ StakeTypeOK' /\ GraceTypeOK' /\ systemCollShares' \in Nat
      /\ SyncedGlobal.feeRecipientCollShares \in Nat
  BY SyncType DEF SyncBeforeSetting
<1>2. PoolTypeOK'
  BY <1>1 DEF SyncBeforeSetting, TypeOK, PoolTypeOK
<1>3. CdpTypeOK' /\ IndicesAreReached' /\ RedistributionTypeOK'
  BY DEF SyncBeforeSetting, TypeOK, CdpTypeOK, IndicesAreReached, RedistributionTypeOK,
         redistributionVars
<1>4. ListTypeOK' /\ SurplusTypeOK' /\ TokenTypeOK' /\ ApprovalTypeOK' /\ EnvTypeOK'
  BY DEF SyncBeforeSetting, TypeOK, ListTypeOK, SurplusTypeOK, TokenTypeOK, ApprovalTypeOK,
         EnvTypeOK, listVars, surplusVars, tokenVars, envVars
<1> QED
  BY <1>1, <1>2, <1>3, <1>4 DEF TypeOK

LEMMA ClaimFeeType ==
  ASSUME TypeOK, IndicesAreReached, NEW shares \in Nat, ClaimFeeRecipientCollShares(shares)
  PROVE  TypeOK' /\ IndicesAreReached'
<1>1. /\ FeeIndexTypeOK' /\ StakeTypeOK' /\ GraceTypeOK' /\ systemCollShares' \in Nat
      /\ SyncedGlobal.feeRecipientCollShares \in Nat
  BY SyncType DEF ClaimFeeRecipientCollShares
<1>2. PoolTypeOK'
  BY <1>1 DEF ClaimFeeRecipientCollShares, TypeOK, PoolTypeOK
<1>3. CdpTypeOK' /\ IndicesAreReached' /\ RedistributionTypeOK'
  BY DEF ClaimFeeRecipientCollShares, TypeOK, CdpTypeOK, IndicesAreReached,
         RedistributionTypeOK, redistributionVars
<1>4. ListTypeOK' /\ SurplusTypeOK' /\ TokenTypeOK' /\ ApprovalTypeOK' /\ EnvTypeOK'
  BY DEF ClaimFeeRecipientCollShares, TypeOK, ListTypeOK, SurplusTypeOK, TokenTypeOK,
         ApprovalTypeOK, EnvTypeOK, listVars, surplusVars, tokenVars, envVars
<1>5. GovernanceTypeOK' /\ BaseRateTypeOK'
  BY DEF ClaimFeeRecipientCollShares, TypeOK, GovernanceTypeOK, BaseRateTypeOK,
         governanceVars, baseRateVars
<1> QED
  BY <1>1, <1>2, <1>3, <1>4, <1>5 DEF TypeOK

\* A step that leaves the protocol's own storage alone but for the balances
LEMMA UntouchedType ==
  ASSUME TypeOK, IndicesAreReached, TokenTypeOK', EnvTypeOK',
         UNCHANGED <<Cdps, stakeVars, feeIndexVars, redistributionVars,
                     lastGracePeriodStartTimestamp, governanceVars, baseRateVars, listVars,
                     poolVars, surplusVars, positionManagers, activePoolShares>>
  PROVE  TypeOK' /\ IndicesAreReached'
<1>1. CdpTypeOK' /\ IndicesAreReached' /\ RedistributionTypeOK'
  BY DEF TypeOK, CdpTypeOK, IndicesAreReached, RedistributionTypeOK, redistributionVars
<1>2. /\ StakeTypeOK' /\ FeeIndexTypeOK' /\ GraceTypeOK' /\ ListTypeOK' /\ PoolTypeOK'
      /\ SurplusTypeOK' /\ ApprovalTypeOK'
  BY DEF TypeOK, StakeTypeOK, FeeIndexTypeOK, GraceTypeOK, ListTypeOK, PoolTypeOK,
         SurplusTypeOK, ApprovalTypeOK, stakeVars, feeIndexVars, listVars, poolVars, surplusVars
<1>3. GovernanceTypeOK' /\ BaseRateTypeOK'
  BY DEF TypeOK, GovernanceTypeOK, BaseRateTypeOK, governanceVars, baseRateVars
<1> QED
  BY <1>1, <1>2, <1>3 DEF TypeOK

LEMMA AccountType ==
  ASSUME TypeOK, IndicesAreReached, AccountAction
  PROVE  TypeOK' /\ IndicesAreReached'
<1>1. ASSUME NEW sender \in Users, NEW recipient \in Users, NEW amount \in TransferAmounts,
             sender # recipient, Transfer(sender, recipient, amount)
      PROVE  TypeOK' /\ IndicesAreReached'
  <2>1. TokenTypeOK'
    BY <1>1, TransferType, ProtocolInputAssumption
  <2>2. EnvTypeOK'
    BY <1>1 DEF Transfer, TypeOK, EnvTypeOK, envVars
  <2>3. UNCHANGED <<Cdps, stakeVars, feeIndexVars, redistributionVars,
                    lastGracePeriodStartTimestamp, governanceVars, baseRateVars, listVars,
                    poolVars, surplusVars, positionManagers, activePoolShares>>
    BY <1>1 DEF Transfer
  <2> QED
    BY <2>1, <2>2, <2>3, UntouchedType
<1>2. ASSUME NEW shares \in FeeClaims, ClaimFeeRecipientCollShares(shares)
      PROVE  TypeOK' /\ IndicesAreReached'
  BY <1>2, ClaimFeeType, ProtocolInputAssumption
<1>3. ASSUME Sync
      PROVE  TypeOK' /\ IndicesAreReached'
  <2>1. GovernanceTypeOK' /\ BaseRateTypeOK'
    BY <1>3 DEF Sync, TypeOK, GovernanceTypeOK, BaseRateTypeOK, governanceVars, baseRateVars
  <2> QED
    BY <2>1, <1>3, SyncBeforeSettingType DEF Sync
<1> QED
  BY <1>1, <1>2, <1>3 DEF AccountAction

LEMMA EnvironmentType ==
  ASSUME TypeOK, IndicesAreReached, EnvironmentAction
  PROVE  TypeOK' /\ IndicesAreReached'
<1>1. UNCHANGED protocolVars
  BY DEF EnvironmentAction, Rebase, SetPrice, Tick
<1>2. EnvTypeOK'
  BY ProtocolInputAssumption, InputAssumption
     DEF EnvironmentAction, Rebase, SetPrice, Tick, TypeOK, EnvTypeOK
<1>3. TokenTypeOK'
  BY <1>1 DEF protocolVars, TypeOK, TokenTypeOK, tokenVars
<1> QED
  BY <1>1, <1>2, <1>3, UntouchedType DEF protocolVars

(* --- The base rate ----------------------------------------------------- *)

LEMMA DecMulIsNat ==
  ASSUME NEW x \in Nat, NEW y \in Nat PROVE DecMul(x, y) \in Nat
<1>1. x * y \in Nat /\ DECIMAL_PRECISION \div 2 \in Nat
  BY ScaleAssumption, ProductIsNat, DivIsNat
<1>2. x * y + DECIMAL_PRECISION \div 2 \in Nat
  BY <1>1
<1> QED
  BY <1>2, ScaleAssumption, DivIsNat DEF DecMul

LEMMA DecPowAfterUnfolds ==
  ASSUME NEW base, NEW minutes
  PROVE  DecPowAfter(base, minutes) =
           [i \in 0 .. 30 |->
              IF i = 0
              THEN [n |-> Lesser(minutes, DECAY_CAP), x |-> base, y |-> DECIMAL_PRECISION]
              ELSE DecPowStep(DecPowAfter(base, minutes)[i - 1])]
<1> DEFINE start == [n |-> Lesser(minutes, DECAY_CAP), x |-> base, y |-> DECIMAL_PRECISION]
           Solves(f, m) ==
             f = [i \in 0 .. m |-> IF i = 0 THEN start ELSE DecPowStep(f[i - 1])]
           T == {m \in 0 .. 30 : \E f : Solves(f, m)}
<1> HIDE DEF start
<1>1. Solves([i \in 0 .. 0 |-> start], 0)
  OBVIOUS
<1>2. ASSUME NEW m \in 1 .. 30, m - 1 \in T PROVE m \in T
  <2>1. PICK f : Solves(f, m - 1)
    BY <1>2
  <2> DEFINE g == [i \in 0 .. m |-> IF i = m THEN DecPowStep(f[m - 1]) ELSE f[i]]
             h == [i \in 0 .. m |-> IF i = 0 THEN start ELSE DecPowStep(g[i - 1])]
  <2>2. \A i \in 0 .. m : g[i] = h[i]
    BY <2>1
  <2>3. Solves(g, m)
    <3> HIDE DEF h
    <3> QED
      BY <2>2 DEF h
  <2> HIDE DEF Solves, g
  <2> QED
    BY <2>3
<1>3. 0 \in T
  <2> HIDE DEF Solves
  <2> QED
    BY <1>1
<1>4. 30 \in T
  <2> HIDE DEF T
  <2> QED
    BY <1>2, <1>3, IntervalInduction
<1> QED
  BY <1>4 DEF DecPowAfter, start

LEMMA DecPowIsNat ==
  ASSUME NEW base \in Nat, NEW minutes \in Nat
  PROVE  DecPow(base, minutes) \in Nat
<1> DEFINE after == DecPowAfter(base, minutes)
           States == [n: Nat, x: Nat, y: Nat]
           T == {i \in 0 .. 30 : after[i] \in States}
<1>1. after[0] \in States
  <2>1. Lesser(minutes, DECAY_CAP) \in Nat
    BY LesserIsNat DEF DECAY_CAP
  <2> QED
    BY <2>1, DecPowAfterUnfolds, ScaleAssumption
<1>2. ASSUME NEW s \in States PROVE DecPowStep(s) \in States
  <2>1. s.n \in Nat /\ s.x \in Nat /\ s.y \in Nat
    OBVIOUS
  <2>2. DecMul(s.x, s.x) \in Nat /\ DecMul(s.x, s.y) \in Nat
    BY <2>1, DecMulIsNat
  <2>3. s.n \div 2 \in Nat
    BY <2>1, DivIsNat
  <2> QED
    BY <2>1, <2>2, <2>3 DEF DecPowStep
<1>3. ASSUME NEW i \in 1 .. 30 PROVE after[i] = DecPowStep(after[i - 1])
  BY DecPowAfterUnfolds
<1> HIDE DEF after, States
<1>4. ASSUME NEW i \in 1 .. 30, i - 1 \in T PROVE i \in T
  BY <1>2, <1>3, <1>4
<1>5. 0 \in T
  BY <1>1
<1>6. 30 \in T
  <2> HIDE DEF T
  <2> QED
    BY <1>4, <1>5, IntervalInduction
<1> QED
  BY <1>6, DecMulIsNat, ScaleAssumption DEF DecPow, after, States

LEMMA DecayedBaseRateIsNat ==
  ASSUME TypeOK PROVE DecayedBaseRate \in Nat
<1>1. baseRate \in Nat /\ minuteDecayFactor \in Nat /\ lastRedemptionTimestamp \in Nat
  BY InputAssumption, ScaleAssumption DEF TypeOK, BaseRateTypeOK, GovernanceTypeOK
<1>2. MinutesPassedSinceLastRedemption \in Nat
  <2>1. now > lastRedemptionTimestamp => now - lastRedemptionTimestamp \in Nat
    BY <1>1, RatesArePositive DEF TypeOK
  <2> QED
    BY <2>1, DivIsNat, InputAssumption DEF MinutesPassedSinceLastRedemption
<1>3. DecPow(minuteDecayFactor, MinutesPassedSinceLastRedemption) \in Nat
  BY <1>1, <1>2, DecPowIsNat
<1> QED
  BY <1>1, <1>3, ProductIsNat, DivIsNat, ScaleAssumption DEF DecayedBaseRate, Decayed

LEMMA TimestampType ==
  ASSUME TypeOK, UpdateLastRedemptionTimestamp
  PROVE  lastRedemptionTimestamp' \in 0 .. MaxTime
<1> DEFINE passed == now - lastRedemptionTimestamp
           minutes == passed \div SECONDS_IN_ONE_MINUTE
<1>1. now \in 0 .. MaxTime /\ lastRedemptionTimestamp \in 0 .. MaxTime /\ MaxTime \in Nat
  BY InputAssumption DEF TypeOK, EnvTypeOK, BaseRateTypeOK
<1>2. CASE now > lastRedemptionTimestamp
  <2>1. passed \in Nat
    BY <1>1, <1>2
  <2>2. minutes \in Nat /\ minutes * SECONDS_IN_ONE_MINUTE \in Nat
    BY <2>1, DivIsNat, ProductIsNat, InputAssumption
  <2>3. minutes * SECONDS_IN_ONE_MINUTE <= passed
    BY <2>1, DivBound, InputAssumption
  <2>4. lastRedemptionTimestamp' = lastRedemptionTimestamp + minutes * SECONDS_IN_ONE_MINUTE
    BY <1>2 DEF UpdateLastRedemptionTimestamp, MinutesPassedSinceLastRedemption
  <2> QED
    BY <1>1, <1>2, <2>2, <2>3, <2>4
<1>3. CASE ~(now > lastRedemptionTimestamp)
  BY <1>1, <1>3, InputAssumption
     DEF UpdateLastRedemptionTimestamp, MinutesPassedSinceLastRedemption
<1> QED
  BY <1>2, <1>3

LEMMA DecayBaseRateType ==
  ASSUME TypeOK, DecayBaseRate PROVE BaseRateTypeOK'
  BY DecayedBaseRateIsNat, TimestampType, ScaleAssumption DEF DecayBaseRate, BaseRateTypeOK

(* --- Governance -------------------------------------------------------- *)

LEMMA GovernanceType ==
  ASSUME TypeOK, IndicesAreReached, GovernanceAction
  PROVE  TypeOK' /\ IndicesAreReached'
<1>1. ASSUME NEW split \in RewardSplits, SetStakingRewardSplit(split)
      PROVE  TypeOK' /\ IndicesAreReached'
  BY <1>1, SyncBeforeSettingType, RedemptionInputAssumption, ScaleAssumption
     DEF SetStakingRewardSplit, TypeOK, GovernanceTypeOK, BaseRateTypeOK, baseRateVars
<1>2. ASSUME NEW duration \in GracePeriods, SetGracePeriod(duration)
      PROVE  TypeOK' /\ IndicesAreReached'
  BY <1>2, SyncBeforeSettingType, RedemptionInputAssumption
     DEF SetGracePeriod, TypeOK, GovernanceTypeOK, BaseRateTypeOK, baseRateVars
<1>3. ASSUME NEW floor \in FeeFloors, SetRedemptionFeeFloor(floor)
      PROVE  TypeOK' /\ IndicesAreReached'
  BY <1>3, SyncBeforeSettingType, RedemptionInputAssumption, InputAssumption, ScaleAssumption
     DEF SetRedemptionFeeFloor, TypeOK, GovernanceTypeOK, BaseRateTypeOK, baseRateVars
<1>4. ASSUME NEW factor \in DecayFactors, SetMinuteDecayFactor(factor)
      PROVE  TypeOK' /\ IndicesAreReached'
  BY <1>4, SyncBeforeSettingType, DecayBaseRateType
     DEF SetMinuteDecayFactor, TypeOK, GovernanceTypeOK
<1>5. ASSUME NEW divisor \in Betas, SetBeta(divisor)
      PROVE  TypeOK' /\ IndicesAreReached'
  BY <1>5, SyncBeforeSettingType, DecayBaseRateType, RedemptionInputAssumption
     DEF SetBeta, TypeOK, GovernanceTypeOK
<1>6. ASSUME NEW paused \in BOOLEAN, SetRedemptionsPaused(paused)
      PROVE  TypeOK' /\ IndicesAreReached'
  BY <1>6, SyncBeforeSettingType, DecayBaseRateType
     DEF SetRedemptionsPaused, TypeOK, GovernanceTypeOK
<1> QED
  BY <1>1, <1>2, <1>3, <1>4, <1>5, <1>6 DEF GovernanceAction

(* --- Liquidation ------------------------------------------------------- *)

LEMMA ICRIsNat ==
  ASSUME EnvTypeOK, NEW cdp \in CdpRecords PROVE ICR(cdp) \in Nat
<1>1. cdp.coll \in Nat /\ cdp.debt \in Nat
  BY DEF CdpRecords
<1>2. GetPooledEthByShares(cdp.coll) * price \in Nat
  BY <1>1, GetPooledIsNat, RatesArePositive, ProductIsNat
<1>3. cdp.debt > 0 => (GetPooledEthByShares(cdp.coll) * price) \div cdp.debt \in Nat
  BY <1>1, <1>2, DivIsNat
<1> QED
  BY <1>1, <1>3, ThresholdAssumption DEF ICR, ComputeCR

LEMMA IncentiveIsNat ==
  ASSUME EnvTypeOK, NEW icr \in Nat, NEW debt \in Nat
  PROVE  GetSharesByPooledEth(IncentiveColl(icr, debt)) \in Nat
<1> DEFINE factor == IF icr > LICR THEN Lesser(icr, MCR) ELSE LICR
<1>1. factor \in Nat
  BY LesserIsNat, ThresholdAssumption
<1>2. debt * factor \in Nat
  BY <1>1, ProductIsNat
<1>3. IncentiveColl(icr, debt) \in Nat
  BY <1>2, DivIsNat, RatesArePositive DEF IncentiveColl
<1> QED
  BY <1>3, GetSharesIsNat

LEMMA CollToLiquidatorType ==
  ASSUME EnvTypeOK, NEW icr \in Nat, NEW cdp \in CdpRecords
  PROVE  CollToLiquidator(icr, cdp) \in 0 .. cdp.coll
<1>1. cdp.coll \in Nat /\ cdp.debt \in Nat
  BY DEF CdpRecords
<1> DEFINE incentive == GetSharesByPooledEth(IncentiveColl(icr, cdp.debt))
<1>2. incentive \in Nat
  BY <1>1, IncentiveIsNat
<1>3. Lesser(incentive, cdp.coll) \in Nat /\ Lesser(incentive, cdp.coll) <= cdp.coll
  BY <1>1, <1>2, LesserIsNat
<1> QED
  BY <1>1, <1>3 DEF CollToLiquidator

LEMMA BadDebtType ==
  ASSUME EnvTypeOK, NEW icr \in Nat, NEW cdp \in CdpRecords
  PROVE  BadDebt(icr, cdp) \in 0 .. cdp.debt
<1> DEFINE debtToRepay == (GetPooledEthByShares(cdp.coll) * price) \div LICR
<1>1. cdp.coll \in Nat /\ cdp.debt \in Nat
  BY DEF CdpRecords
<1>2. GetPooledEthByShares(cdp.coll) * price \in Nat
  BY <1>1, GetPooledIsNat, RatesArePositive, ProductIsNat
<1>3. debtToRepay \in Nat
  BY <1>2, DivIsNat, ThresholdAssumption, ScaleAssumption
<1> HIDE DEF debtToRepay
<1> QED
  BY <1>1, <1>3 DEF BadDebt, debtToRepay

IsLiquidation(v) ==
  /\ v.debtToBurn \in Nat /\ v.collToSend \in Nat /\ v.debtToRedistribute \in Nat
  /\ v.reward \in Nat /\ v.surplus \in Nat

\* What a liquidation pays out never exceeds what the CDP holds, so none of the
\* subtractions behind it underflows.
LEMMA LiquidationValuesType ==
  ASSUME EnvTypeOK, NEW cdp \in CdpRecords
  PROVE  IsLiquidation(LiquidationValues(cdp))
<1>1. ICR(cdp) \in Nat
  BY ICRIsNat
<1>2. CollToLiquidator(ICR(cdp), cdp) \in 0 .. cdp.coll /\ BadDebt(ICR(cdp), cdp) \in 0 .. cdp.debt
  BY <1>1, CollToLiquidatorType, BadDebtType
<1>3. cdp.coll \in Nat /\ cdp.debt \in Nat /\ cdp.liquidatorRewardShares \in Nat
  BY DEF CdpRecords
<1> QED
  BY <1>1, <1>2, <1>3 DEF LiquidationValues, IsLiquidation

LEMMA RedistributionType ==
  ASSUME TypeOK, NEW debt \in Nat, NEW stakes \in Nat,
         IF debt > 0
         THEN /\ stakes > 0
              /\ systemDebtRedistributionIndex' = systemDebtRedistributionIndex +
                   (debt * DECIMAL_PRECISION + lastEBTCDebtErrorRedistribution) \div stakes
              /\ lastEBTCDebtErrorRedistribution' =
                   (debt * DECIMAL_PRECISION + lastEBTCDebtErrorRedistribution) % stakes
         ELSE UNCHANGED redistributionVars
  PROVE  /\ RedistributionTypeOK'
         /\ systemDebtRedistributionIndex <= systemDebtRedistributionIndex'
<1> DEFINE scaled == debt * DECIMAL_PRECISION + lastEBTCDebtErrorRedistribution
<1>1. scaled \in Nat /\ systemDebtRedistributionIndex \in Nat
      /\ lastEBTCDebtErrorRedistribution \in Nat
  BY ProductIsNat, ScaleAssumption DEF TypeOK, RedistributionTypeOK
<1>2. CASE debt > 0
  <2>1. scaled \div stakes \in Nat /\ scaled % stakes \in Nat
    BY <1>1, <1>2, DivIsNat, ModIsNat
  <2> HIDE DEF scaled
  <2>2. /\ systemDebtRedistributionIndex' = systemDebtRedistributionIndex + scaled \div stakes
        /\ lastEBTCDebtErrorRedistribution' = scaled % stakes
    BY <1>2 DEF scaled
  <2> QED
    BY <2>1, <2>2, <1>1 DEF RedistributionTypeOK
<1>3. CASE ~(debt > 0)
  BY <1>1, <1>3 DEF RedistributionTypeOK, redistributionVars
<1> QED
  BY <1>2, <1>3

\* Everything but the CDPs, their stakes, the list and the owners' surplus
LEMMA FinalizeType ==
  ASSUME TypeOK, NEW liquidator \in Users, NEW v, IsLiquidation(v), NEW stakes \in Nat,
         FinalizeLiquidation(liquidator, SyncedGlobal, v, stakes)
  PROVE  /\ FeeIndexTypeOK' /\ RedistributionTypeOK' /\ GraceTypeOK' /\ PoolTypeOK'
         /\ TokenTypeOK' /\ ApprovalTypeOK' /\ GovernanceTypeOK' /\ BaseRateTypeOK' /\ EnvTypeOK'
         /\ totalStakesSnapshot' \in Nat /\ totalCollateralSnapshot' \in Nat
         /\ totalSurplusCollShares' \in Nat /\ collSurplusPoolShares' \in Nat
         /\ nextCdpNonce' \in Nat \ {0}
         /\ systemDebtRedistributionIndex <= systemDebtRedistributionIndex'
<1> DEFINE g == SyncedGlobal
<1>1. FeeIndexTypeOK' /\ g \in GlobalRecords
  BY SyncFeeIndicesType DEF FinalizeLiquidation
<1>2. /\ v.debtToBurn \in Nat /\ v.collToSend \in Nat /\ v.debtToRedistribute \in Nat
      /\ v.reward \in Nat /\ v.surplus \in Nat
  BY DEF IsLiquidation
<1>3. RedistributionTypeOK' /\ systemDebtRedistributionIndex <= systemDebtRedistributionIndex'
  BY <1>2, RedistributionType DEF FinalizeLiquidation
<1>4. GraceTypeOK'
  BY GracePeriodType DEF FinalizeLiquidation
<1>5. TokenTypeOK' /\ systemDebt' \in Nat
  <2>1. Burn(liquidator, v.debtToBurn) /\ DecreaseSystemDebt(v.debtToBurn)
    BY DEF FinalizeLiquidation
  <2> QED
    BY <2>1, <1>2, BurnType, DecreaseSystemDebtType
<1>6. PoolTypeOK' /\ totalCollateralSnapshot' \in Nat
  <2>1. /\ g.systemCollShares - v.collToSend - v.surplus >= 0
        /\ activePoolShares >= v.collToSend + v.surplus + v.reward
        /\ systemCollShares' = g.systemCollShares - v.collToSend - v.surplus
        /\ totalCollateralSnapshot' = g.systemCollShares - v.collToSend - v.surplus
        /\ activePoolShares' = activePoolShares - (v.collToSend + v.surplus + v.reward)
        /\ feeRecipientCollShares' = g.feeRecipientCollShares
    BY DEF FinalizeLiquidation
  <2> QED
    BY <2>1, <1>1, <1>2, <1>5 DEF TypeOK, PoolTypeOK, GlobalRecords
<1>7. /\ totalStakesSnapshot' \in Nat
      /\ totalSurplusCollShares' \in Nat /\ collSurplusPoolShares' \in Nat
  BY <1>2 DEF FinalizeLiquidation, TypeOK, SurplusTypeOK
<1>8. ApprovalTypeOK' /\ GovernanceTypeOK' /\ BaseRateTypeOK' /\ EnvTypeOK'
      /\ nextCdpNonce' \in Nat \ {0}
  BY DEF FinalizeLiquidation, TypeOK, ApprovalTypeOK, GovernanceTypeOK, BaseRateTypeOK,
         EnvTypeOK, ListTypeOK, governanceVars, baseRateVars, envVars
<1> QED
  BY <1>1, <1>3, <1>4, <1>5, <1>6, <1>7, <1>8

LEMMA SurplusCreditedType ==
  ASSUME NEW surplusOf \in [Users -> Nat], NEW owner, NEW shares \in Nat
  PROVE  SurplusCredited(surplusOf, owner, shares) \in [Users -> Nat]
<1> DEFINE after == SurplusCredited(surplusOf, owner, shares)
<1>1. DOMAIN after = Users
  BY DEF SurplusCredited
<1>2. ASSUME NEW u \in Users PROVE after[u] \in Nat
  <2>1. after[u] = IF u = owner THEN surplusOf[u] + shares ELSE surplusOf[u]
    BY DEF SurplusCredited
  <2>2. surplusOf[u] \in Nat
    OBVIOUS
  <2> QED
    BY <2>1, <2>2
<1>3. after = [u \in Users |-> after[u]]
  BY DEF SurplusCredited
<1> QED
  BY <1>2, <1>3

LEMMA LiquidateInFullType ==
  ASSUME TypeOK, IndicesAreReached, NEW liquidator \in Users, NEW id \in CdpIds,
         Liquidate(liquidator, id)
  PROVE  TypeOK' /\ IndicesAreReached'
<1> DEFINE g == SyncedGlobal
           cdp == SyncedCdp(id, g.feeIndex)
           v == LiquidationValues(cdp)
           closed == ClosedCdp(cdp, "closedByLiquidation")
<1>1. LiquidateInFull(liquidator, id, g, cdp)
  BY DEF Liquidate
<1>2. FinalizeLiquidation(liquidator, g, v, totalStakes - cdp.stake)
  BY <1>1 DEF LiquidateInFull
<1>3. g \in GlobalRecords
  BY <1>2, SyncFeeIndicesType DEF FinalizeLiquidation
<1>4. cdp \in CdpRecords
  BY <1>3, SyncedCdpType DEF GlobalRecords
<1>5. IsLiquidation(v) /\ v.surplus \in Nat
  BY <1>4, LiquidationValuesType DEF TypeOK, IsLiquidation
<1>6. totalStakes - cdp.stake \in Nat /\ totalStakes' = totalStakes - cdp.stake
  <2>1. totalStakes >= cdp.stake /\ totalStakes' = totalStakes - cdp.stake
    BY <1>1 DEF LiquidateInFull
  <2> QED
    BY <2>1, <1>4 DEF TypeOK, StakeTypeOK, CdpRecords
<1> HIDE DEF v
<1>7. /\ FeeIndexTypeOK' /\ RedistributionTypeOK' /\ GraceTypeOK' /\ PoolTypeOK'
      /\ TokenTypeOK' /\ ApprovalTypeOK' /\ GovernanceTypeOK' /\ BaseRateTypeOK' /\ EnvTypeOK'
      /\ totalStakesSnapshot' \in Nat /\ totalCollateralSnapshot' \in Nat
      /\ totalSurplusCollShares' \in Nat /\ collSurplusPoolShares' \in Nat
      /\ nextCdpNonce' \in Nat \ {0}
      /\ systemDebtRedistributionIndex <= systemDebtRedistributionIndex'
  BY <1>2, <1>5, <1>6, FinalizeType
<1>8. CdpTypeOK' /\ IndicesAreReached'
  <2>1. closed \in CdpRecords /\ closed.debtIndex = 0
    BY <1>4, ClosedCdpType DEF Statuses
  <2>2. closed.debtIndex <= systemDebtRedistributionIndex
    BY <2>1 DEF TypeOK, RedistributionTypeOK
  <2>3. Cdps' = [Cdps EXCEPT ![id] = closed]
    BY <1>1 DEF LiquidateInFull
  <2>4. systemDebtRedistributionIndex' \in Nat
    BY <1>7 DEF RedistributionTypeOK
  <2> HIDE DEF closed
  <2> QED
    BY <2>1, <2>2, <2>3, <2>4, <1>7, CdpUpdateType
<1>9. StakeTypeOK'
  BY <1>6, <1>7 DEF StakeTypeOK
<1>10. ListTypeOK'
  <2>1. ListWithout(sortedCdps, id) \in Seq(CdpIds)
    BY <1>1, WithoutType DEF LiquidateInFull, TypeOK, ListTypeOK
  <2>2. sortedCdps' = ListWithout(sortedCdps, id)
    BY <1>1 DEF LiquidateInFull
  <2> QED
    BY <2>1, <2>2, <1>7 DEF ListTypeOK
<1>11. SurplusTypeOK'
  <2>1. surplusCollShares' = SurplusCredited(surplusCollShares, cdp.owner, v.surplus)
    BY <1>1 DEF LiquidateInFull, v
  <2> QED
    BY <2>1, <1>5, <1>7, SurplusCreditedType DEF TypeOK, SurplusTypeOK
<1> QED
  BY <1>7, <1>8, <1>9, <1>10, <1>11 DEF TypeOK

LEMMA PartiallyLiquidateType ==
  ASSUME TypeOK, IndicesAreReached, NEW liquidator \in Users, NEW id \in CdpIds,
         NEW partialDebt \in Nat, NEW k, PartiallyLiquidate(liquidator, id, partialDebt, k)
  PROVE  TypeOK' /\ IndicesAreReached'
<1> DEFINE g == SyncedGlobal
           cdp == SyncedCdp(id, g.feeIndex)
           partialColl == GetSharesByPooledEth(IncentiveColl(ICR(cdp), partialDebt))
           coll == cdp.coll - partialColl
           debt == cdp.debt - partialDebt
           newStake == ComputeNewStake(coll, g.stakesSnapshot, g.collSnapshot)
           newCdp == UpdatedCdp(cdp, coll, debt, newStake)
           stakes == RestakedTotal(totalStakes, cdp, newStake)
           v == [debtToBurn |-> partialDebt, collToSend |-> partialColl,
                 debtToRedistribute |-> 0, reward |-> 0, surplus |-> 0]
           rest == ListWithout(sortedCdps, id)
<1>1. LiquidateInPart(liquidator, id, g, cdp, partialDebt, partialColl, k)
  BY DEF PartiallyLiquidate
<1>2. FinalizeLiquidation(liquidator, g, v, stakes)
  BY <1>1 DEF LiquidateInPart
<1>3. g \in GlobalRecords
  BY <1>2, SyncFeeIndicesType DEF FinalizeLiquidation
<1>4. cdp \in CdpRecords /\ cdp.debtIndex = systemDebtRedistributionIndex
  BY <1>3, SyncedCdpType DEF GlobalRecords
<1>5. cdp.coll \in Nat /\ cdp.debt \in Nat /\ cdp.stake \in Nat
  BY <1>4 DEF CdpRecords
<1>6. EnvTypeOK
  BY DEF TypeOK
<1>7. ICR(cdp) \in Nat
  BY <1>4, <1>6, ICRIsNat
<1>8. partialColl \in Nat
  BY <1>6, <1>7, IncentiveIsNat
<1>9. coll \in Nat /\ debt \in Nat
  <2>1. partialColl < cdp.coll
    BY DEF PartiallyLiquidate
  <2>2. newCdp.debt = debt
    BY <1>4 DEF UpdatedCdp, CdpRecords
  <2>3. newCdp.debt >= MIN_CHANGE
    BY <1>1 DEF LiquidateInPart, DebtIsEnough
  <2> QED
    BY <2>1, <2>2, <2>3, <1>5, <1>8, MinimumAssumption
<1>10. newStake \in Nat
  BY <1>3, <1>9, StakeIsNat DEF GlobalRecords
<1>11. stakes \in Nat /\ totalStakes' = stakes
  <2>1. stakes >= 0 /\ totalStakes' = stakes
    BY <1>1 DEF LiquidateInPart
  <2> QED
    BY <2>1, <1>5, <1>10 DEF RestakedTotal, TypeOK, StakeTypeOK
<1>12. IsLiquidation(v)
  BY <1>8 DEF IsLiquidation
<1>13. /\ FeeIndexTypeOK' /\ RedistributionTypeOK' /\ GraceTypeOK' /\ PoolTypeOK'
       /\ TokenTypeOK' /\ ApprovalTypeOK' /\ GovernanceTypeOK' /\ BaseRateTypeOK' /\ EnvTypeOK'
       /\ totalStakesSnapshot' \in Nat /\ totalCollateralSnapshot' \in Nat
       /\ totalSurplusCollShares' \in Nat /\ collSurplusPoolShares' \in Nat
       /\ nextCdpNonce' \in Nat \ {0}
       /\ systemDebtRedistributionIndex <= systemDebtRedistributionIndex'
  <2> HIDE DEF v, stakes
  <2> QED
    BY <1>2, <1>11, <1>12, FinalizeType
<1>14. CdpTypeOK' /\ IndicesAreReached'
  <2>1. newCdp \in CdpRecords /\ newCdp.debtIndex = cdp.debtIndex
    <3> HIDE DEF cdp, coll, debt, newStake
    <3> QED
      BY <1>4, <1>9, <1>10 DEF UpdatedCdp, CdpRecords
  <2>2. newCdp.debtIndex <= systemDebtRedistributionIndex
    BY <2>1, <1>4 DEF TypeOK, RedistributionTypeOK
  <2>3. Cdps' = [Cdps EXCEPT ![id] = newCdp]
    BY <1>1 DEF LiquidateInPart
  <2>4. systemDebtRedistributionIndex' \in Nat
    BY <1>13 DEF RedistributionTypeOK
  <2> HIDE DEF newCdp
  <2> QED
    BY <2>1, <2>2, <2>3, <2>4, <1>13, CdpUpdateType
<1>15. StakeTypeOK'
  <2> HIDE DEF stakes
  <2> QED
    BY <1>11, <1>13 DEF StakeTypeOK
<1>16. ListTypeOK'
  <2>1. rest \in Seq(CdpIds)
    BY <1>1, WithoutType DEF LiquidateInPart, TypeOK, ListTypeOK
  <2>2. ListInsert(rest, k, id) \in Seq(CdpIds)
    BY <2>1, <1>1, ListUpdateType DEF LiquidateInPart
  <2>3. sortedCdps' = ListInsert(rest, k, id)
    BY <1>1 DEF LiquidateInPart
  <2> QED
    BY <2>2, <2>3, <1>13 DEF ListTypeOK
<1>17. SurplusTypeOK'
  BY <1>1, <1>13 DEF LiquidateInPart, TypeOK, SurplusTypeOK
<1> QED
  BY <1>13, <1>14, <1>15, <1>16, <1>17 DEF TypeOK

(* A batch that has not reverted holds well-typed values. *)
IsBatch(b) ==
  b.ok => /\ b.Cdps \in [CdpIds -> CdpRecords]
          /\ \A i \in CdpIds : b.Cdps[i].debtIndex <= systemDebtRedistributionIndex
          /\ b.list \in Seq(CdpIds) /\ b.stakes \in Nat /\ b.surplusOf \in [Users -> Nat]
          /\ IsLiquidation(b)

LEMMA BatchStepType ==
  ASSUME TypeOK, IndicesAreReached, NEW g \in GlobalRecords, NEW id \in CdpIds, NEW b, IsBatch(b)
  PROVE  IsBatch(BatchStep(b, id, g))
<1> DEFINE cdp == SyncedCdp(id, g.feeIndex)
           tcr == TCR(g.systemCollShares - b.collToSend - b.surplus, systemDebt - b.debtToBurn)
           v == LiquidationValues(cdp)
           closed == ClosedCdp(cdp, "closedByLiquidation")
           taken == /\ b.Cdps[id].status = "active"
                    /\ \/ ICR(cdp) < MCR
                       \/ ~b.normalMode /\ CanLiquidateRecoveryMode(ICR(cdp), tcr)
           after == BatchStep(b, id, g)
<1>1. CASE ~taken
  BY <1>1 DEF BatchStep
<1>2. CASE taken
  <2> SUFFICES ASSUME after.ok
               PROVE  /\ after.Cdps \in [CdpIds -> CdpRecords]
                      /\ \A i \in CdpIds : after.Cdps[i].debtIndex <= systemDebtRedistributionIndex
                      /\ after.list \in Seq(CdpIds) /\ after.stakes \in Nat
                      /\ after.surplusOf \in [Users -> Nat] /\ IsLiquidation(after)
    BY DEF IsBatch
  <2>1. /\ after.Cdps = [b.Cdps EXCEPT ![id] = closed]
        /\ after.list = ListWithout(b.list, id)
        /\ after.stakes = b.stakes - cdp.stake
        /\ after.surplusOf = SurplusCredited(b.surplusOf, cdp.owner, v.surplus)
        /\ after.ok => b.ok /\ b.stakes >= cdp.stake /\ ListContains(b.list, id)
        /\ after.debtToBurn = b.debtToBurn + v.debtToBurn
        /\ after.collToSend = b.collToSend + v.collToSend
        /\ after.debtToRedistribute = b.debtToRedistribute + v.debtToRedistribute
        /\ after.reward = b.reward + v.reward
        /\ after.surplus = b.surplus + v.surplus
    BY <1>2 DEF BatchStep
  <2>2. /\ b.ok /\ b.stakes >= cdp.stake /\ ListContains(b.list, id)
        /\ b.Cdps \in [CdpIds -> CdpRecords] /\ b.list \in Seq(CdpIds)
        /\ \A i \in CdpIds : b.Cdps[i].debtIndex <= systemDebtRedistributionIndex
        /\ b.stakes \in Nat /\ b.surplusOf \in [Users -> Nat] /\ IsLiquidation(b)
    BY <2>1 DEF IsBatch
  <2>3. cdp \in CdpRecords
    BY SyncedCdpType DEF GlobalRecords
  <2>4. IsLiquidation(v)
    BY <2>3, LiquidationValuesType DEF TypeOK
  <2>5. closed \in CdpRecords /\ closed.debtIndex = 0
    BY <2>3, ClosedCdpType DEF Statuses
  <2>6. systemDebtRedistributionIndex \in Nat /\ cdp.stake \in Nat
    BY <2>3 DEF TypeOK, RedistributionTypeOK, CdpRecords
  <2> HIDE DEF after, v, closed, cdp
  <2>7. /\ after.Cdps \in [CdpIds -> CdpRecords]
        /\ \A i \in CdpIds : after.Cdps[i].debtIndex <= systemDebtRedistributionIndex
    BY <2>1, <2>2, <2>5, <2>6
  <2>8. after.list \in Seq(CdpIds)
    BY <2>1, <2>2, WithoutType
  <2>9. after.stakes \in Nat
    BY <2>1, <2>2, <2>6
  <2>10. after.surplusOf \in [Users -> Nat]
    <3>1. v.surplus \in Nat
      BY <2>4 DEF IsLiquidation
    <3>2. SurplusCredited(b.surplusOf, cdp.owner, v.surplus) \in [Users -> Nat]
      BY <3>1, <2>2, SurplusCreditedType
    <3> QED
      BY <3>2, <2>1
  <2>11. IsLiquidation(after)
    <3>1. /\ b.debtToBurn \in Nat /\ b.collToSend \in Nat /\ b.debtToRedistribute \in Nat
          /\ b.reward \in Nat /\ b.surplus \in Nat
      BY <2>2 DEF IsLiquidation
    <3>2. /\ v.debtToBurn \in Nat /\ v.collToSend \in Nat /\ v.debtToRedistribute \in Nat
          /\ v.reward \in Nat /\ v.surplus \in Nat
      BY <2>4 DEF IsLiquidation
    <3> QED
      BY <3>1, <3>2, <2>1 DEF IsLiquidation
  <2> QED
    BY <2>7, <2>8, <2>9, <2>10, <2>11
<1> QED
  BY <1>1, <1>2

LEMMA BatchAfterUnfolds ==
  ASSUME NEW ids \in Seq(CdpIds), NEW g
  PROVE  BatchAfter(ids, g) =
           [n \in 0 .. Len(ids) |->
              IF n = 0 THEN EmptyBatch(g)
              ELSE BatchStep(BatchAfter(ids, g)[n - 1], ids[n], g)]
<1> DEFINE N == Len(ids)
           Solves(f, m) == f = [n \in 0 .. m |-> IF n = 0 THEN EmptyBatch(g)
                                                 ELSE BatchStep(f[n - 1], ids[n], g)]
           T == {m \in 0 .. N : \E f : Solves(f, m)}
<1>1. Solves([n \in 0 .. 0 |-> EmptyBatch(g)], 0)
  OBVIOUS
<1>2. ASSUME NEW m \in 1 .. N, m - 1 \in T PROVE m \in T
  <2>1. PICK f : Solves(f, m - 1)
    BY <1>2
  <2> DEFINE h == [n \in 0 .. m |-> IF n = m THEN BatchStep(f[m - 1], ids[m], g) ELSE f[n]]
             hh == [n \in 0 .. m |-> IF n = 0 THEN EmptyBatch(g)
                                     ELSE BatchStep(h[n - 1], ids[n], g)]
  <2>2. \A n \in 0 .. m : h[n] = hh[n]
    BY <2>1
  <2>3. Solves(h, m)
    <3> HIDE DEF hh
    <3> QED
      BY <2>2 DEF hh
  <2> HIDE DEF Solves, h
  <2> QED
    BY <2>3
<1>3. 0 \in T
  <2> HIDE DEF Solves
  <2> QED
    BY <1>1
<1>4. N \in T
  <2>1. N \in Nat
    OBVIOUS
  <2> HIDE DEF T, N
  <2> QED
    <3>1. \A n \in 0 .. N : n \in T
      BY <2>1, <1>2, <1>3, IntervalInduction
    <3>2. N \in 0 .. N
      BY <2>1
    <3> QED
      BY <3>1, <3>2
<1> QED
  BY <1>4 DEF BatchAfter

LEMMA BatchAfterType ==
  ASSUME TypeOK, IndicesAreReached, NEW ids \in Seq(CdpIds), NEW g \in GlobalRecords
  PROVE  IsBatch(BatchAfter(ids, g)[Len(ids)])
<1> DEFINE after == BatchAfter(ids, g)
           N == Len(ids)
           T == {n \in 0 .. N : IsBatch(after[n])}
<1>1. after[0] = EmptyBatch(g)
  BY BatchAfterUnfolds
<1>2. IsBatch(EmptyBatch(g))
  BY DEF IsBatch, EmptyBatch, IsLiquidation, IndicesAreReached, TypeOK, CdpTypeOK, ListTypeOK,
         StakeTypeOK, SurplusTypeOK
<1>3. ASSUME NEW n \in 1 .. N PROVE after[n] = BatchStep(after[n - 1], ids[n], g) /\ ids[n] \in CdpIds
  BY BatchAfterUnfolds
<1>4. N \in Nat
  OBVIOUS
<1> HIDE DEF after, N
<1>5. ASSUME NEW n \in 1 .. N, n - 1 \in T PROVE n \in T
  BY <1>3, <1>5, BatchStepType
<1>6. 0 \in T
  BY <1>1, <1>2, <1>4
<1>7. N \in T
  <2> HIDE DEF T
  <2> QED
    <3>1. \A n \in 0 .. N : n \in T
      BY <1>4, <1>5, <1>6, IntervalInduction
    <3>2. N \in 0 .. N
      BY <1>4
    <3> QED
      BY <3>1, <3>2
<1> QED
  BY <1>7 DEF after, N

LEMMA BatchLiquidateType ==
  ASSUME TypeOK, IndicesAreReached, NEW ids \in Seq(CdpIds), BatchLiquidateCdps(ids)
  PROVE  TypeOK' /\ IndicesAreReached'
<1> DEFINE g == SyncedGlobal
           b == BatchAfter(ids, g)[Len(ids)]
<1>0. PICK liquidator \in Users : FinalizeLiquidation(liquidator, g, b, b.stakes)
  BY DEF BatchLiquidateCdps
<1>1. /\ b.ok /\ totalStakes' = b.stakes /\ Cdps' = b.Cdps /\ sortedCdps' = b.list
      /\ surplusCollShares' = b.surplusOf
      /\ FinalizeLiquidation(liquidator, g, b, b.stakes)
  BY <1>0 DEF BatchLiquidateCdps
<1>2. g \in GlobalRecords
  BY <1>1, SyncFeeIndicesType DEF FinalizeLiquidation
<1>3. /\ b.Cdps \in [CdpIds -> CdpRecords]
      /\ \A i \in CdpIds : b.Cdps[i].debtIndex <= systemDebtRedistributionIndex
      /\ b.list \in Seq(CdpIds) /\ b.stakes \in Nat /\ b.surplusOf \in [Users -> Nat]
      /\ IsLiquidation(b)
  BY <1>1, <1>2, BatchAfterType DEF IsBatch
<1> HIDE DEF b
<1>4. /\ FeeIndexTypeOK' /\ RedistributionTypeOK' /\ GraceTypeOK' /\ PoolTypeOK'
      /\ TokenTypeOK' /\ ApprovalTypeOK' /\ GovernanceTypeOK' /\ BaseRateTypeOK' /\ EnvTypeOK'
      /\ totalStakesSnapshot' \in Nat /\ totalCollateralSnapshot' \in Nat
      /\ totalSurplusCollShares' \in Nat /\ collSurplusPoolShares' \in Nat
      /\ nextCdpNonce' \in Nat \ {0}
      /\ systemDebtRedistributionIndex <= systemDebtRedistributionIndex'
  BY <1>1, <1>3, FinalizeType
<1>5. CdpTypeOK'
  BY <1>1, <1>3 DEF CdpTypeOK
<1>6. IndicesAreReached'
  <2>1. systemDebtRedistributionIndex \in Nat /\ systemDebtRedistributionIndex' \in Nat
    BY <1>4 DEF TypeOK, RedistributionTypeOK
  <2>2. \A i \in CdpIds : b.Cdps[i].debtIndex \in Nat
    BY <1>3 DEF CdpRecords
  <2>3. \A i \in CdpIds : b.Cdps[i].debtIndex <= systemDebtRedistributionIndex'
    BY <2>1, <2>2, <1>3, <1>4
  <2>4. Cdps' = b.Cdps
    BY <1>1
  <2> QED
    BY <2>3, <2>4 DEF IndicesAreReached
<1>7. StakeTypeOK' /\ ListTypeOK' /\ SurplusTypeOK'
  BY <1>1, <1>3, <1>4 DEF StakeTypeOK, ListTypeOK, SurplusTypeOK
<1> QED
  BY <1>4, <1>5, <1>6, <1>7 DEF TypeOK

LEMMA BatchInputType == \A ids \in BoundedSeq(CdpIds, MaxBatch) : ids \in Seq(CdpIds)
<1>1. ASSUME NEW ids \in BoundedSeq(CdpIds, MaxBatch) PROVE ids \in Seq(CdpIds)
  <2>1. PICK m \in 0 .. MaxBatch : ids \in [1 .. m -> CdpIds]
    BY DEF BoundedSeq, SeqOf
  <2>2. m \in Nat
    BY LiquidationInputAssumption
  <2> QED
    BY <2>1, <2>2
<1> QED
  BY <1>1

LEMMA LiquidationType ==
  ASSUME TypeOK, IndicesAreReached, LiquidationAction
  PROVE  TypeOK' /\ IndicesAreReached'
<1>1. \/ \E liquidator \in Users, id \in CdpIds : Liquidate(liquidator, id)
      \/ \E liquidator \in Users, id \in CdpIds, partialDebt \in PartialAmounts,
            k \in 0 .. Len(sortedCdps) - 1 : PartiallyLiquidate(liquidator, id, partialDebt, k)
      \/ \E ids \in BoundedSeq(CdpIds, MaxBatch) : BatchLiquidateCdps(ids)
  BY DEF LiquidationAction
<1>2. ASSUME NEW liquidator \in Users, NEW id \in CdpIds, NEW partialDebt \in PartialAmounts,
             NEW k \in 0 .. Len(sortedCdps) - 1,
             PartiallyLiquidate(liquidator, id, partialDebt, k)
      PROVE  TypeOK' /\ IndicesAreReached'
  BY <1>2, PartiallyLiquidateType, LiquidationInputAssumption
<1> QED
  BY <1>1, <1>2, BatchInputType, LiquidateInFullType, BatchLiquidateType

(* --- Redemption -------------------------------------------------------- *)

(* A redemption of `debt' that has not reverted, after n CDPs of the list:   *)
(* at most n of them are closed, and fewer when the last is redeemed in part *)
IsRedeemed(r, debt, n) ==
  r.ok => /\ r.Cdps \in [CdpIds -> CdpRecords]
          /\ \A i \in CdpIds : r.Cdps[i].debtIndex <= systemDebtRedistributionIndex
          /\ r.stakes \in Nat /\ r.surplusOf \in [Users -> Nat]
          /\ r.remaining \in 0 .. debt /\ r.drawn \in Nat
          /\ r.surplus \in Nat /\ r.reward \in Nat
          /\ r.closed \in 0 .. n /\ (r.partly # NoCdp => r.closed < n)

LEMMA DrawnIsNat ==
  ASSUME EnvTypeOK, NEW debt \in Nat PROVE CollDrawn(debt) \in Nat
<1>1. debt * DECIMAL_PRECISION \in Nat /\ price \in Nat \ {0}
  BY ScaleAssumption, ProductIsNat, RatesArePositive
<1>2. (debt * DECIMAL_PRECISION) \div price \in Nat
  BY <1>1, DivIsNat
<1> QED
  BY <1>2, GetSharesIsNat DEF CollDrawn

LEMMA RedeemFromCdpType ==
  ASSUME TypeOK, IndicesAreReached, NEW g \in GlobalRecords, NEW id \in CdpIds,
         NEW debt \in Nat, NEW n \in Nat, NEW r, IsRedeemed(r, debt, n), NEW hintMatches
  PROVE  IsRedeemed(RedeemFromCdp(r, id, g, hintMatches), debt, n + 1)
<1> DEFINE cdp == SyncedCdp(id, g.feeIndex)
           debtToRedeem == Lesser(r.remaining, cdp.debt)
           drawn == CollDrawn(debtToRedeem)
           newDebt == cdp.debt - debtToRedeem
           newColl == cdp.coll - drawn
           isPartial == /\ hintMatches
                        /\ GetPooledEthByShares(newColl) >= MIN_NET_STETH_BALANCE
                        /\ DebtIsEnough(newDebt)
           collLeft == IF isPartial THEN newColl ELSE cdp.coll
           debtLeft == IF isPartial THEN newDebt ELSE cdp.debt
           newStake == ComputeNewStake(collLeft, g.stakesSnapshot, g.collSnapshot)
           restaked == UpdatedCdp(cdp, collLeft, debtLeft, newStake)
           closedCdp == ClosedCdp(cdp, "closedByRedemption")
           reward == cdp.liquidatorRewardShares
           after == RedeemFromCdp(r, id, g, hintMatches)
           done == r.remaining = 0 \/ r.cancelled
<1>1. CASE done
  <2>1. after = r
    BY <1>1 DEF RedeemFromCdp
  <2>2. ASSUME r.ok
        PROVE  r.closed \in 0 .. n + 1 /\ (r.partly # NoCdp => r.closed < n + 1)
    <3>1. r.closed \in 0 .. n
      BY <2>2 DEF IsRedeemed
    <3> QED
      BY <3>1
  <2>3. IsRedeemed(r, debt, n + 1)
    BY <2>2 DEF IsRedeemed
  <2> QED
    BY <2>1, <2>3
<1>2. CASE ~done
  <2> SUFFICES ASSUME after.ok
               PROVE  IsRedeemed(after, debt, n + 1)
    BY DEF IsRedeemed
  <2>1. r.ok /\ newColl >= 0
    BY <1>2 DEF RedeemFromCdp
  <2>2. /\ r.Cdps \in [CdpIds -> CdpRecords]
        /\ \A i \in CdpIds : r.Cdps[i].debtIndex <= systemDebtRedistributionIndex
        /\ r.stakes \in Nat /\ r.surplusOf \in [Users -> Nat]
        /\ r.remaining \in 0 .. debt /\ r.drawn \in Nat
        /\ r.surplus \in Nat /\ r.reward \in Nat
        /\ r.closed \in 0 .. n /\ (r.partly # NoCdp => r.closed < n)
    BY <2>1 DEF IsRedeemed
  <2>3. cdp \in CdpRecords /\ cdp.debtIndex = systemDebtRedistributionIndex
    BY SyncedCdpType DEF GlobalRecords
  <2>4. /\ cdp.coll \in Nat /\ cdp.debt \in Nat /\ cdp.stake \in Nat
        /\ reward \in Nat /\ cdp.debtIndex \in Nat
    BY <2>3 DEF CdpRecords
  <2>5. debtToRedeem \in Nat /\ debtToRedeem <= r.remaining /\ debtToRedeem <= cdp.debt
    <3>1. r.remaining \in Nat
      BY <2>2
    <3> QED
      BY <3>1, <2>4, LesserIsNat
  <2>6. drawn \in Nat
    BY <2>5, DrawnIsNat DEF TypeOK
  <2>7. newColl \in Nat /\ newDebt \in Nat
    BY <2>1, <2>4, <2>5, <2>6
  <2>8. CASE newDebt = 0
    <3>1. /\ after.Cdps = [r.Cdps EXCEPT ![id] = closedCdp]
          /\ after.stakes = r.stakes - cdp.stake /\ r.stakes >= cdp.stake
          /\ after.surplusOf = SurplusCredited(r.surplusOf, cdp.owner, newColl + reward)
          /\ after.remaining = r.remaining - debtToRedeem
          /\ after.drawn = r.drawn + drawn /\ after.surplus = r.surplus + newColl
          /\ after.reward = r.reward + reward
          /\ after.closed = r.closed + 1 /\ after.partly = r.partly
      BY <1>2, <2>8 DEF RedeemFromCdp
    <3>2. closedCdp \in CdpRecords /\ closedCdp.debtIndex = 0
      BY <2>3, ClosedCdpType DEF Statuses
    <3>3. newColl + reward \in Nat
      BY <2>4, <2>7
    <3>4. SurplusCredited(r.surplusOf, cdp.owner, newColl + reward) \in [Users -> Nat]
      BY <3>3, <2>2, SurplusCreditedType
    <3>5. systemDebtRedistributionIndex \in Nat
      BY DEF TypeOK, RedistributionTypeOK
    <3> HIDE DEF after, closedCdp, newColl, drawn, debtToRedeem, cdp
    <3>6. /\ after.Cdps \in [CdpIds -> CdpRecords]
          /\ \A i \in CdpIds : after.Cdps[i].debtIndex <= systemDebtRedistributionIndex
      BY <3>1, <3>2, <3>5, <2>2
    <3>7. after.stakes \in Nat /\ after.remaining \in 0 .. debt
      BY <3>1, <2>2, <2>4, <2>5
    <3>8. after.drawn \in Nat /\ after.surplus \in Nat /\ after.reward \in Nat
      BY <3>1, <2>2, <2>4, <2>6, <2>7
    <3>9. after.closed \in 0 .. n + 1 /\ (after.partly # NoCdp => after.closed < n + 1)
      BY <3>1, <2>2
    <3> QED
      BY <3>1, <3>4, <3>6, <3>7, <3>8, <3>9 DEF IsRedeemed
  <2>9. CASE newDebt # 0
    <3>1. /\ after.Cdps = [r.Cdps EXCEPT ![id] = restaked]
          /\ after.stakes = RestakedTotal(r.stakes, cdp, restaked.stake)
          /\ r.stakes + restaked.stake >= cdp.stake
          /\ after.surplusOf = r.surplusOf
          /\ after.remaining = (IF isPartial THEN 0 ELSE r.remaining)
          /\ after.drawn = (IF isPartial THEN r.drawn + drawn ELSE r.drawn)
          /\ after.surplus = r.surplus /\ after.reward = r.reward
          /\ after.closed = r.closed
      BY <1>2, <2>9 DEF RedeemFromCdp
    <3>2. collLeft \in Nat /\ debtLeft \in Nat
      BY <2>4, <2>7
    <3>3. newStake \in Nat
      BY <3>2, StakeIsNat DEF GlobalRecords
    <3>4. /\ restaked \in CdpRecords /\ restaked.debtIndex = cdp.debtIndex
          /\ restaked.stake = newStake
      <4> HIDE DEF cdp, collLeft, debtLeft, newStake
      <4> QED
        BY <2>3, <3>2, <3>3 DEF UpdatedCdp, CdpRecords
    <3>5. restaked.debtIndex <= systemDebtRedistributionIndex
      BY <3>4, <2>3, <2>4
    <3> HIDE DEF after, restaked, newStake, isPartial, drawn, cdp
    <3>6. after.Cdps \in [CdpIds -> CdpRecords]
      BY <3>1, <3>4, <2>2
    <3>7. \A i \in CdpIds : after.Cdps[i].debtIndex <= systemDebtRedistributionIndex
      BY <3>1, <3>5, <2>2
    <3>8. after.stakes \in Nat
      BY <3>1, <3>3, <3>4, <2>2, <2>4 DEF RestakedTotal
    <3>9. /\ after.remaining \in 0 .. debt /\ after.drawn \in Nat
          /\ after.surplus \in Nat /\ after.reward \in Nat /\ after.surplusOf \in [Users -> Nat]
      BY <3>1, <2>2, <2>6
    <3>10. after.closed \in 0 .. n + 1 /\ after.closed < n + 1
      BY <3>1, <2>2
    <3> QED
      BY <3>6, <3>7, <3>8, <3>9, <3>10 DEF IsRedeemed
  <2> QED
    BY <2>8, <2>9
<1> QED
  BY <1>1, <1>2

(* `after' is what the loop has done after 0, 1, ... CDPs.                   *)
IsLoop(after, debt, first, g, hintMatches) ==
  /\ after[0] = NothingRedeemed(debt)
  /\ \A n \in 1 .. first :
       after[n] = RedeemFromCdp(after[n - 1], sortedCdps[first - n + 1], g, hintMatches)

LEMMA RedeemedAfterUnfolds ==
  ASSUME NEW debt, NEW first \in Nat, NEW g, NEW hintMatches
  PROVE  IsLoop(RedeemedAfter(debt, first, g, hintMatches), debt, first, g, hintMatches)
<1> DEFINE Redeem(r, n) == RedeemFromCdp(r, sortedCdps[first - n + 1], g, hintMatches)
           Solves(f, m) == f = [n \in 0 .. m |-> IF n = 0 THEN NothingRedeemed(debt)
                                                 ELSE Redeem(f[n - 1], n)]
           T == {m \in 0 .. first : \E f : Solves(f, m)}
<1> HIDE DEF Redeem
<1>1. Solves([n \in 0 .. 0 |-> NothingRedeemed(debt)], 0)
  OBVIOUS
<1>2. ASSUME NEW m \in 1 .. first, m - 1 \in T PROVE m \in T
  <2>1. PICK f : Solves(f, m - 1)
    BY <1>2
  <2> DEFINE h == [n \in 0 .. m |-> IF n = m THEN Redeem(f[m - 1], m) ELSE f[n]]
             hh == [n \in 0 .. m |-> IF n = 0 THEN NothingRedeemed(debt)
                                     ELSE Redeem(h[n - 1], n)]
  <2>2. \A n \in 0 .. m : h[n] = hh[n]
    BY <2>1
  <2>3. Solves(h, m)
    <3> HIDE DEF hh
    <3> QED
      BY <2>2 DEF hh
  <2> HIDE DEF Solves, h
  <2> QED
    BY <2>3
<1>3. 0 \in T
  <2> HIDE DEF Solves
  <2> QED
    BY <1>1
<1>4. first \in T
  <2> HIDE DEF T
  <2>1. \A n \in 0 .. first : n \in T
    BY <1>2, <1>3, IntervalInduction
  <2>2. first \in 0 .. first
    OBVIOUS
  <2> QED
    BY <2>1, <2>2
<1> DEFINE after == RedeemedAfter(debt, first, g, hintMatches)
<1>5. Solves(after, first)
  BY <1>4 DEF RedeemedAfter, Redeem
<1> HIDE DEF after
<1>6. after[0] = NothingRedeemed(debt)
  BY <1>5
<1>7. ASSUME NEW n \in 1 .. first PROVE after[n] = Redeem(after[n - 1], n)
  BY <1>5
<1> QED
  BY <1>6, <1>7 DEF after, Redeem, IsLoop

LEMMA RedeemedAfterType ==
  ASSUME TypeOK, IndicesAreReached, NEW g \in GlobalRecords, NEW debt \in Nat,
         NEW first \in Nat, first <= Len(sortedCdps), NEW hintMatches
  PROVE  \A n \in 0 .. first :
           IsRedeemed(RedeemedAfter(debt, first, g, hintMatches)[n], debt, n)
<1> DEFINE after == RedeemedAfter(debt, first, g, hintMatches)
           T == {n \in 0 .. first : IsRedeemed(after[n], debt, n)}
<1>1. sortedCdps \in Seq(CdpIds)
  BY DEF TypeOK, ListTypeOK
<1>0. IsLoop(after, debt, first, g, hintMatches)
  BY RedeemedAfterUnfolds
<1>2. after[0] = NothingRedeemed(debt)
  BY <1>0 DEF IsLoop
<1>3. IsRedeemed(NothingRedeemed(debt), debt, 0)
  BY DEF IsRedeemed, NothingRedeemed, IndicesAreReached, TypeOK, CdpTypeOK, StakeTypeOK,
         SurplusTypeOK
<1>4. ASSUME NEW n \in 1 .. first
      PROVE  /\ after[n] = RedeemFromCdp(after[n - 1], sortedCdps[first - n + 1], g, hintMatches)
             /\ sortedCdps[first - n + 1] \in CdpIds
  <2>1. first - n + 1 \in 1 .. Len(sortedCdps)
    BY <1>1
  <2>2. sortedCdps[first - n + 1] \in CdpIds
    BY <1>1, <2>1
  <2>3. after[n] = RedeemFromCdp(after[n - 1], sortedCdps[first - n + 1], g, hintMatches)
    BY <1>0 DEF IsLoop
  <2> QED
    BY <2>2, <2>3
<1> HIDE DEF after
<1>5. ASSUME NEW n \in 1 .. first, n - 1 \in T PROVE n \in T
  <2>1. IsRedeemed(after[n - 1], debt, n - 1)
    BY <1>5
  <2>2. n - 1 \in Nat /\ (n - 1) + 1 = n
    OBVIOUS
  <2> DEFINE id == sortedCdps[first - n + 1]
             m == n - 1
  <2>3. id \in CdpIds /\ m \in Nat /\ IsRedeemed(after[m], debt, m)
    BY <1>4, <2>1, <2>2
  <2>4. after[n] = RedeemFromCdp(after[m], id, g, hintMatches)
    BY <1>4
  <2> HIDE DEF id, m
  <2>5. IsRedeemed(RedeemFromCdp(after[m], id, g, hintMatches), debt, m + 1)
    BY <2>3, RedeemFromCdpType
  <2>6. IsRedeemed(after[n], debt, m + 1)
    BY <2>4, <2>5
  <2> QED
    BY <2>2, <2>6 DEF m
<1>6. 0 \in T
  BY <1>1, <1>2, <1>3
<1>7. \A n \in 0 .. first : n \in T
  <2> HIDE DEF T
  <2> QED
    BY <1>1, <1>5, <1>6, IntervalInduction
<1> QED
  BY <1>7 DEF after

LEMMA LeftType ==
  ASSUME NEW list \in Seq(CdpIds), list = sortedCdps, NEW first \in 1 .. Len(list),
         NEW closed \in 0 .. first
  PROVE  /\ ListAfterRedemption(first, closed) \in Seq(CdpIds)
         /\ closed < first => ListContains(ListAfterRedemption(first, closed),
                                           list[first - closed])
<1> DEFINE upper == SubSeq(list, 1, first - closed)
           lower == SubSeq(list, first + 1, Len(list))
           left == upper \o lower
<1>1. upper \in Seq(CdpIds) /\ Len(upper) = first - closed
  OBVIOUS
<1>2. lower \in Seq(CdpIds)
  OBVIOUS
<1>3. \A i \in 1 .. first - closed : upper[i] = list[i]
  OBVIOUS
<1> HIDE DEF upper, lower
<1>4. left \in Seq(CdpIds)
  BY <1>1, <1>2
<1>5. closed < first => /\ first - closed \in 1 .. Len(left)
                        /\ left[first - closed] = list[first - closed]
  BY <1>1, <1>2, <1>3
<1>6. left = ListAfterRedemption(first, closed)
  BY DEF upper, lower, ListAfterRedemption
<1> QED
  BY <1>4, <1>5, <1>6 DEF ListContains

LEMMA RateIsNat ==
  ASSUME TypeOK, NEW drawn \in Nat, NEW twapDebt \in Nat \ {0}, beta # 0
  PROVE  /\ BaseRateAfterRedemption(drawn, twapDebt) \in 0 .. DECIMAL_PRECISION
         /\ RedemptionFee(BaseRateAfterRedemption(drawn, twapDebt), drawn) \in Nat
<1> DEFINE rate == BaseRateAfterRedemption(drawn, twapDebt)
           share == (GetPooledEthByShares(drawn) * price) \div twapDebt
<1>1. GetPooledEthByShares(drawn) * price \in Nat
  BY GetPooledIsNat, RatesArePositive, ProductIsNat DEF TypeOK
<1>2. share \in Nat /\ beta \in Nat \ {0}
  BY <1>1, DivIsNat DEF TypeOK, GovernanceTypeOK
<1> HIDE DEF share
<1>3. share \div beta \in Nat
  BY <1>2, DivIsNat
<1>4. DecayedBaseRate + share \div beta \in Nat
  BY <1>3, DecayedBaseRateIsNat
<1>5. rate \in Nat /\ rate <= DECIMAL_PRECISION
  BY <1>4, LesserIsNat, ScaleAssumption DEF BaseRateAfterRedemption, share
<1> HIDE DEF rate
<1>6. redemptionFeeFloor + rate \in Nat
  BY <1>5, ScaleAssumption DEF TypeOK, GovernanceTypeOK
<1>7. Lesser(redemptionFeeFloor + rate, DECIMAL_PRECISION) * drawn \in Nat
  BY <1>6, LesserIsNat, ProductIsNat, ScaleAssumption
<1>8. RedemptionFee(rate, drawn) \in Nat
  BY <1>7, DivIsNat, ScaleAssumption DEF RedemptionFee
<1> QED
  BY <1>5, <1>8, ScaleAssumption DEF rate

LEMMA RedeemCollateralType ==
  ASSUME TypeOK, IndicesAreReached, NEW redeemer \in Users, NEW debt \in Nat,
         NEW first \in 1 .. Len(sortedCdps), NEW maxIterations \in Nat, NEW hintMatches,
         NEW twapDebt \in Nat, NEW k,
         RedeemCollateral(redeemer, debt, first, maxIterations, hintMatches, twapDebt, k)
  PROVE  TypeOK' /\ IndicesAreReached'
<1> DEFINE g == SyncedGlobal
           steps == IF maxIterations = 0 THEN first ELSE Lesser(maxIterations, first)
           r == RedeemedAfter(debt, first, g, hintMatches)[steps]
           redeemed == debt - r.remaining
           rate == BaseRateAfterRedemption(r.drawn, twapDebt)
           fee == RedemptionFee(rate, r.drawn)
           out == SharesPaidOut(r, fee)
           last == first - r.closed
           left == ListAfterRedemption(first, r.closed)
           rest == ListWithout(left, sortedCdps[last])
<1>1. FeeIndexTypeOK' /\ g \in GlobalRecords
  BY SyncFeeIndicesType DEF RedeemCollateral, RedeemSynced
<1>2. sortedCdps \in Seq(CdpIds) /\ first \in Nat /\ first <= Len(sortedCdps)
  BY DEF TypeOK, ListTypeOK
<1>3. steps \in 0 .. first
  BY <1>2, LesserIsNat
<1>4. r.ok
  BY DEF RedeemCollateral, RedeemSynced
<1>5. IsRedeemed(r, debt, steps)
  BY <1>1, <1>2, <1>3, RedeemedAfterType
<1>6. /\ Cdps' = r.Cdps /\ totalStakes' = r.stakes
      /\ totalStakesSnapshot' = g.stakesSnapshot /\ totalCollateralSnapshot' = g.collSnapshot
      /\ surplusCollShares' = r.surplusOf
      /\ totalSurplusCollShares' = totalSurplusCollShares + r.surplus + r.reward
      /\ collSurplusPoolShares' = collSurplusPoolShares + r.surplus + r.reward
      /\ UNCHANGED <<redistributionVars, governanceVars, nextCdpNonce, positionManagers,
                     envVars>>
  BY DEF RedeemCollateral, RedeemSynced
<1>7. /\ twapDebt > 0 /\ beta > 0 /\ fee < r.drawn
      /\ baseRate' = rate /\ UpdateLastRedemptionTimestamp
      /\ g.systemCollShares - r.drawn - r.surplus >= 0 /\ activePoolShares >= out
      /\ systemCollShares' = g.systemCollShares - r.drawn - r.surplus
      /\ feeRecipientCollShares' = g.feeRecipientCollShares + fee
      /\ activePoolShares' = activePoolShares - out
      /\ Burn(redeemer, redeemed) /\ DecreaseSystemDebt(redeemed)
  BY DEF RedeemCollateral, RedeemSynced
<1>8. /\ r.partly = NoCdp => sortedCdps' = left
      /\ r.partly # NoCdp => /\ \E nicr : ValidInsertPosition(rest, k, nicr, g.feeIndex)
                             /\ sortedCdps' = ListInsert(rest, k, sortedCdps[last])
  BY DEF RedeemCollateral, RedeemSynced
<1>9. GraceTypeOK'
  BY GracePeriodType DEF RedeemCollateral, RedeemSynced
<1> HIDE DEF r, g, steps
<1>10. /\ r.Cdps \in [CdpIds -> CdpRecords]
       /\ \A i \in CdpIds : r.Cdps[i].debtIndex <= systemDebtRedistributionIndex
       /\ r.stakes \in Nat /\ r.surplusOf \in [Users -> Nat]
       /\ r.remaining \in 0 .. debt /\ r.drawn \in Nat
       /\ r.surplus \in Nat /\ r.reward \in Nat
       /\ r.closed \in 0 .. steps /\ (r.partly # NoCdp => r.closed < steps)
  BY <1>4, <1>5 DEF IsRedeemed
<1>11. r.closed \in 0 .. first /\ (r.partly # NoCdp => r.closed < first)
  BY <1>2, <1>3, <1>10
<1>12. CdpTypeOK' /\ IndicesAreReached' /\ RedistributionTypeOK'
  BY <1>6, <1>10
     DEF CdpTypeOK, IndicesAreReached, RedistributionTypeOK, TypeOK, redistributionVars
<1>13. StakeTypeOK'
  BY <1>1, <1>6, <1>10 DEF StakeTypeOK, GlobalRecords
<1>14. SurplusTypeOK'
  <2>1. /\ surplusCollShares' = r.surplusOf
        /\ totalSurplusCollShares' = totalSurplusCollShares + r.surplus + r.reward
        /\ collSurplusPoolShares' = collSurplusPoolShares + r.surplus + r.reward
    BY <1>6
  <2>2. /\ r.surplusOf \in [Users -> Nat] /\ r.surplus \in Nat /\ r.reward \in Nat
        /\ totalSurplusCollShares \in Nat /\ collSurplusPoolShares \in Nat
    BY <1>10 DEF TypeOK, SurplusTypeOK
  <2>3. totalSurplusCollShares' = totalSurplusCollShares + r.surplus + r.reward
    BY <2>1
  <2>4. totalSurplusCollShares \in Nat /\ r.surplus \in Nat /\ r.reward \in Nat
    BY <2>2
  <2>5. totalSurplusCollShares' \in Nat
    BY <2>3, <2>4
  <2>6. collSurplusPoolShares' = collSurplusPoolShares + r.surplus + r.reward
    BY <2>1
  <2>7. collSurplusPoolShares \in Nat
    BY <2>2
  <2>8. collSurplusPoolShares' \in Nat
    BY <2>4, <2>6, <2>7
  <2> QED
    BY <2>1, <2>2, <2>5, <2>8 DEF SurplusTypeOK
<1>15. BaseRateTypeOK' /\ fee \in Nat
  <2>1. twapDebt \in Nat \ {0} /\ beta # 0
    BY <1>7
  <2>2. rate \in 0 .. DECIMAL_PRECISION /\ fee \in Nat
    BY <2>1, <1>10, RateIsNat
  <2> QED
    BY <2>2, <1>7, TimestampType DEF BaseRateTypeOK
<1> HIDE DEF fee, rate
<1>16. systemDebt' \in Nat /\ TokenTypeOK'
  <2>1. redeemed \in Nat
    BY <1>10
  <2> HIDE DEF redeemed
  <2> QED
    BY <2>1, <1>7, BurnType, DecreaseSystemDebtType
<1>17. PoolTypeOK'
  <2>1. out = r.drawn - fee + r.surplus + r.reward
    BY DEF SharesPaidOut
  <2>2. /\ r.drawn \in Nat /\ fee \in Nat /\ fee < r.drawn
        /\ r.surplus \in Nat /\ r.reward \in Nat
    BY <1>7, <1>10, <1>15
  <2> HIDE DEF out
  <2>3. out \in Nat
    BY <2>1, <2>2, SMTT(30)
  <2>4. /\ g.systemCollShares \in Nat /\ g.feeRecipientCollShares \in Nat
        /\ activePoolShares \in Nat
    BY <1>1 DEF GlobalRecords, TypeOK, PoolTypeOK
  <2>5. /\ g.systemCollShares - r.drawn - r.surplus >= 0 /\ activePoolShares >= out
        /\ systemCollShares' = g.systemCollShares - r.drawn - r.surplus
        /\ feeRecipientCollShares' = g.feeRecipientCollShares + fee
        /\ activePoolShares' = activePoolShares - out
    BY <1>7 DEF out
  <2>6. systemCollShares' \in Nat
    BY <2>2, <2>4, <2>5
  <2>7. feeRecipientCollShares' = g.feeRecipientCollShares + fee
    BY <2>5
  <2>8. activePoolShares' = activePoolShares - out /\ activePoolShares >= out
    BY <2>5
  <2>9. activePoolShares \in Nat /\ g.feeRecipientCollShares \in Nat /\ fee \in Nat
    BY <2>2, <2>4
  <2>10. feeRecipientCollShares' \in Nat
    BY <2>7, <2>9
  <2>11. activePoolShares' \in Nat
    BY <2>3, <2>8, <2>9
  <2> QED
    BY <2>6, <2>10, <2>11, <1>16 DEF PoolTypeOK
<1>18. ListTypeOK'
  <2>1. left \in Seq(CdpIds)
    BY <1>2, <1>11, LeftType
  <2>2. CASE r.partly = NoCdp
    BY <2>1, <2>2, <1>6, <1>8 DEF TypeOK, ListTypeOK
  <2>3. CASE r.partly # NoCdp
    <3>1. ListContains(left, sortedCdps[last])
      <4>1. r.closed < first
        BY <2>3, <1>11
      <4> QED
        BY <4>1, <1>2, <1>11, LeftType
    <3>2. rest \in Seq(CdpIds)
      BY <2>1, <3>1, WithoutType
    <3>3. sortedCdps[last] \in CdpIds
      BY <2>3, <1>2, <1>11
    <3> HIDE DEF rest, last
    <3>4. ListInsert(rest, k, sortedCdps[last]) \in Seq(CdpIds)
      BY <2>3, <3>2, <3>3, <1>8, ListUpdateType
    <3> QED
      BY <2>3, <3>4, <1>6, <1>8 DEF TypeOK, ListTypeOK
  <2> QED
    BY <2>2, <2>3
<1>19. GovernanceTypeOK' /\ ApprovalTypeOK' /\ EnvTypeOK'
  BY <1>6 DEF TypeOK, GovernanceTypeOK, ApprovalTypeOK, EnvTypeOK, governanceVars, envVars
<1> QED
  BY <1>1, <1>9, <1>12, <1>13, <1>14, <1>15, <1>16, <1>17, <1>18, <1>19 DEF TypeOK

LEMMA RedemptionType ==
  ASSUME TypeOK, IndicesAreReached, RedemptionAction
  PROVE  TypeOK' /\ IndicesAreReached'
<1>1. PICK redeemer \in Users, debt \in RedemptionDebts, first \in 1 .. Len(sortedCdps),
           maxIterations \in MaxIterations, hintMatches \in BOOLEAN,
           twapDebt \in {systemDebt} \cup {Lesser(o, systemDebt) : o \in TwapObservations},
           k \in 0 .. Len(sortedCdps) - 1 :
           RedeemCollateral(redeemer, debt, first, maxIterations, hintMatches, twapDebt, k)
  BY DEF RedemptionAction
<1>2. debt \in Nat /\ maxIterations \in Nat
  BY RedemptionInputAssumption
<1>3. twapDebt \in Nat
  BY LesserIsNat, RedemptionInputAssumption DEF TypeOK, PoolTypeOK
<1> QED
  BY <1>1, <1>2, <1>3, RedeemCollateralType

(* --- The invariants ---------------------------------------------------- *)

LEMMA InitType == Init => TypeOK /\ IndicesAreReached
<1> SUFFICES ASSUME Init PROVE TypeOK /\ IndicesAreReached
  OBVIOUS
<1>1. DECIMAL_PRECISION \in Nat \ {0} /\ MaxTime \in Nat
  BY ScaleAssumption, InputAssumption
<1>2. NoCdp \in CdpRecords /\ NoCdp.debtIndex = 0
  BY DEF NoCdp, CdpRecords, Statuses
<1>3. CdpTypeOK
  BY <1>2 DEF Init, CdpTypeOK
<1>4. IndicesAreReached
  BY <1>2 DEF Init, IndicesAreReached
<1>5. StakeTypeOK /\ FeeIndexTypeOK /\ RedistributionTypeOK
  BY <1>1 DEF Init, StakeTypeOK, FeeIndexTypeOK, RedistributionTypeOK
<1>6. GraceTypeOK /\ ListTypeOK /\ PoolTypeOK
  BY DEF Init, GraceTypeOK, ListTypeOK, PoolTypeOK
<1>7. GovernanceTypeOK
  BY InputAssumption DEF Init, GovernanceTypeOK
<1>8. BaseRateTypeOK
  BY <1>1 DEF Init, BaseRateTypeOK
<1>9. SurplusTypeOK /\ TokenTypeOK
  BY DEF Init, SurplusTypeOK, TokenTypeOK
<1>10. ApprovalTypeOK
  BY DEF Init, ApprovalTypeOK, Approvals
<1>11. EnvTypeOK
  BY <1>1, InputAssumption DEF Init, EnvTypeOK
<1> QED
  BY <1>3, <1>4, <1>5, <1>6, <1>7, <1>8, <1>9, <1>10, <1>11 DEF TypeOK

LEMMA StepType ==
  ASSUME TypeOK, IndicesAreReached, [Next]_vars
  PROVE  TypeOK' /\ IndicesAreReached'
<1>1. CASE BorrowerAction
  BY <1>1, BorrowerType
<1>2. CASE LiquidationAction
  BY <1>2, LiquidationType
<1>3. CASE RedemptionAction
  BY <1>3, RedemptionType
<1>4. CASE GovernanceAction
  BY <1>4, GovernanceType
<1>5. CASE AccountAction
  BY <1>5, AccountType
<1>6. CASE EnvironmentAction
  BY <1>6, EnvironmentType
<1>7. CASE UNCHANGED vars
  <2>1. /\ UNCHANGED <<Cdps, stakeVars, feeIndexVars, redistributionVars>>
        /\ UNCHANGED <<lastGracePeriodStartTimestamp, governanceVars, baseRateVars, listVars>>
        /\ UNCHANGED <<poolVars, surplusVars, tokenVars, positionManagers, activePoolShares>>
        /\ UNCHANGED envVars
    BY <1>7 DEF vars
  <2>2. CdpTypeOK' /\ StakeTypeOK' /\ FeeIndexTypeOK' /\ RedistributionTypeOK'
    BY <2>1 DEF TypeOK, CdpTypeOK, StakeTypeOK, FeeIndexTypeOK, RedistributionTypeOK,
                stakeVars, feeIndexVars, redistributionVars
  <2>3. GraceTypeOK' /\ GovernanceTypeOK' /\ BaseRateTypeOK' /\ ListTypeOK'
    BY <2>1 DEF TypeOK, GraceTypeOK, GovernanceTypeOK, BaseRateTypeOK, ListTypeOK,
                governanceVars, baseRateVars, listVars
  <2>4. PoolTypeOK' /\ SurplusTypeOK' /\ TokenTypeOK' /\ ApprovalTypeOK'
    BY <2>1 DEF TypeOK, PoolTypeOK, SurplusTypeOK, TokenTypeOK, ApprovalTypeOK,
                poolVars, surplusVars, tokenVars
  <2>5. EnvTypeOK'
    BY <2>1 DEF TypeOK, EnvTypeOK, envVars
  <2>6. IndicesAreReached'
    BY <2>1 DEF IndicesAreReached, redistributionVars
  <2> QED
    BY <2>2, <2>3, <2>4, <2>5, <2>6 DEF TypeOK
<1> QED
  BY <1>1, <1>2, <1>3, <1>4, <1>5, <1>6, <1>7 DEF Next

(* The storage always holds values of the types the contracts declare: no    *)
(* guarded subtraction of any handler, of a batch of liquidations or of a    *)
(* redemption of many CDPs ends below zero.                                  *)
THEOREM TypeCorrect == Spec => []TypeOK
<1> DEFINE IInv == TypeOK /\ IndicesAreReached
<1>1. Init => IInv
  BY InitType
<1>2. IInv /\ [Next]_vars => IInv'
  BY StepType
<1>3. IInv => TypeOK
  OBVIOUS
<1> QED
  BY <1>1, <1>2, <1>3, PTL DEF Spec

(* --- Supply and debt --------------------------------------------------- *)

LEMMA BurnedIsRepaid ==
  ASSUME SupplyIsSystemDebt, NEW account, NEW debt, Burn(account, debt),
         DecreaseSystemDebt(debt)
  PROVE  SupplyIsSystemDebt'
  BY DEF SupplyIsSystemDebt, Burn, DecreaseSystemDebt

LEMMA MintedIsBorrowed ==
  ASSUME SupplyIsSystemDebt, NEW account, NEW debt, WithdrawDebt(account, debt)
  PROVE  SupplyIsSystemDebt'
  BY DEF SupplyIsSystemDebt, WithdrawDebt, IncreaseSystemDebt, Mint

LEMMA SupplyIsKept ==
  ASSUME SupplyIsSystemDebt, UNCHANGED <<systemDebt, eBTCSupply>>
  PROVE  SupplyIsSystemDebt'
  BY DEF SupplyIsSystemDebt

LEMMA BorrowerSupply ==
  ASSUME SupplyIsSystemDebt, BorrowerAction PROVE SupplyIsSystemDebt'
<1>1. ASSUME NEW sender, NEW borrower, NEW debt, NEW stEthBalance, NEW k,
             OpenCdp(sender, borrower, debt, stEthBalance, k)
      PROVE  SupplyIsSystemDebt'
  <2>1. WithdrawDebt(sender, debt)
    BY <1>1 DEF OpenCdp
  <2> QED
    BY <2>1, MintedIsBorrowed
<1>2. ASSUME NEW sender, NEW id, NEW stEthIncrease, NEW stEthDecrease, NEW debtChange,
             NEW isDebtIncrease, NEW k,
             AdjustCdp(sender, id, stEthIncrease, stEthDecrease, debtChange, isDebtIncrease, k)
      PROVE  SupplyIsSystemDebt'
  <2>1. IF isDebtIncrease THEN WithdrawDebt(sender, debtChange) ELSE RepayDebt(sender, debtChange)
    BY <1>2 DEF AdjustCdp, AdjustSynced
  <2>2. CASE isDebtIncrease
    BY <2>1, <2>2, MintedIsBorrowed
  <2>3. CASE ~isDebtIncrease
    BY <2>1, <2>3, BurnedIsRepaid DEF RepayDebt
  <2> QED
    BY <2>2, <2>3
<1>3. ASSUME NEW sender, NEW id, CloseCdp(sender, id) PROVE SupplyIsSystemDebt'
  <2>1. RepayDebt(sender, SyncedCdp(id, SyncedGlobal.feeIndex).debt)
    BY <1>3 DEF CloseCdp
  <2> QED
    BY <2>1, BurnedIsRepaid DEF RepayDebt
<1>4. ASSUME NEW account, ClaimSurplusCollShares(account) PROVE SupplyIsSystemDebt'
  BY <1>4, SupplyIsKept DEF ClaimSurplusCollShares, poolVars, tokenVars
<1>5. ASSUME NEW borrower, NEW manager, NEW approval,
             SetPositionManagerApproval(borrower, manager, approval)
      PROVE  SupplyIsSystemDebt'
  BY <1>5, SupplyIsKept DEF SetPositionManagerApproval, poolVars, tokenVars
<1> QED
  BY <1>1, <1>2, <1>3, <1>4, <1>5 DEF BorrowerAction

LEMMA LiquidationSupply ==
  ASSUME SupplyIsSystemDebt, LiquidationAction PROVE SupplyIsSystemDebt'
<1>1. ASSUME NEW liquidator, NEW g, NEW v, NEW stakes,
             FinalizeLiquidation(liquidator, g, v, stakes)
      PROVE  SupplyIsSystemDebt'
  <2>1. Burn(liquidator, v.debtToBurn) /\ DecreaseSystemDebt(v.debtToBurn)
    BY <1>1 DEF FinalizeLiquidation
  <2> QED
    BY <2>1, BurnedIsRepaid
<1>2. ASSUME NEW liquidator, NEW id, Liquidate(liquidator, id) PROVE SupplyIsSystemDebt'
  BY <1>1, <1>2 DEF Liquidate, LiquidateInFull
<1>3. ASSUME NEW liquidator, NEW id, NEW partialDebt, NEW k,
             PartiallyLiquidate(liquidator, id, partialDebt, k)
      PROVE  SupplyIsSystemDebt'
  BY <1>1, <1>3 DEF PartiallyLiquidate, LiquidateInPart
<1>4. ASSUME NEW ids, BatchLiquidateCdps(ids)
      PROVE  SupplyIsSystemDebt'
  BY <1>1, <1>4 DEF BatchLiquidateCdps
<1> QED
  BY <1>2, <1>3, <1>4 DEF LiquidationAction

LEMMA RedemptionSupply ==
  ASSUME SupplyIsSystemDebt, RedemptionAction PROVE SupplyIsSystemDebt'
<1>1. ASSUME NEW redeemer, NEW debt, NEW first, NEW maxIterations, NEW hintMatches,
             NEW twapDebt, NEW k,
             RedeemCollateral(redeemer, debt, first, maxIterations, hintMatches, twapDebt, k)
      PROVE  SupplyIsSystemDebt'
  <2>1. PICK redeemed : Burn(redeemer, redeemed) /\ DecreaseSystemDebt(redeemed)
    BY <1>1 DEF RedeemCollateral, RedeemSynced
  <2> QED
    BY <2>1, BurnedIsRepaid
<1> QED
  BY <1>1 DEF RedemptionAction

LEMMA GovernanceSupply ==
  ASSUME SupplyIsSystemDebt, GovernanceAction PROVE SupplyIsSystemDebt'
<1>1. SyncBeforeSetting
  BY DEF GovernanceAction, SetStakingRewardSplit, SetGracePeriod, SetRedemptionFeeFloor,
         SetMinuteDecayFactor, SetBeta, SetRedemptionsPaused
<1> QED
  BY <1>1, SupplyIsKept DEF SyncBeforeSetting, tokenVars

LEMMA AccountSupply ==
  ASSUME SupplyIsSystemDebt, AccountAction \/ EnvironmentAction PROVE SupplyIsSystemDebt'
<1>1. ASSUME NEW sender, NEW recipient, NEW amount, Transfer(sender, recipient, amount)
      PROVE  SupplyIsSystemDebt'
  BY <1>1, SupplyIsKept DEF Transfer, poolVars
<1>2. ASSUME NEW shares, ClaimFeeRecipientCollShares(shares) PROVE SupplyIsSystemDebt'
  BY <1>2, SupplyIsKept DEF ClaimFeeRecipientCollShares, tokenVars
<1>3. CASE Sync
  BY <1>3, SupplyIsKept DEF Sync, SyncBeforeSetting, tokenVars
<1>4. CASE EnvironmentAction
  <2>1. UNCHANGED protocolVars
    BY <1>4 DEF EnvironmentAction, Rebase, SetPrice, Tick
  <2> QED
    BY <2>1, SupplyIsKept DEF protocolVars, poolVars, tokenVars
<1> QED
  BY <1>1, <1>2, <1>3, <1>4 DEF AccountAction

LEMMA SupplyStep ==
  ASSUME SupplyIsSystemDebt, [Next]_vars PROVE SupplyIsSystemDebt'
<1>1. CASE Next
  BY <1>1, BorrowerSupply, LiquidationSupply, RedemptionSupply, GovernanceSupply,
     AccountSupply DEF Next
<1>2. CASE UNCHANGED vars
  BY <1>2, SupplyIsKept DEF vars, poolVars, tokenVars
<1> QED
  BY <1>1, <1>2

(* --- The synced views --------------------------------------------------- *)

\* A step accounts for the share rate, or leaves alone everything that a later
\* account of it reads.
SyncsOrWaits ==
  \/ /\ stEthIndex' = ethPerShare
     /\ systemStEthFeePerUnitIndex' = SyncedGlobal.feeIndex
  \/ UNCHANGED <<stEthIndex, systemStEthFeePerUnitIndex, systemStEthFeePerUnitIndexError,
                 totalStakes, systemCollShares, stakingRewardSplit>>

LEMMA FinalizeSyncs ==
  ASSUME NEW liquidator, NEW v, NEW stakes,
         FinalizeLiquidation(liquidator, SyncedGlobal, v, stakes)
  PROVE  SyncsOrWaits
  BY DEF FinalizeLiquidation, SyncFeeIndices, SyncsOrWaits

LEMMA StepSyncsOrWaits ==
  ASSUME [Next]_vars PROVE SyncsOrWaits
<1>1. CASE BorrowerAction
  <2>1. ASSUME NEW sender, NEW borrower, NEW debt, NEW stEthBalance, NEW k,
               OpenCdp(sender, borrower, debt, stEthBalance, k)
        PROVE  SyncsOrWaits
    BY <2>1 DEF OpenCdp, SyncFeeIndices, SyncsOrWaits
  <2>2. ASSUME NEW sender, NEW id, NEW stEthIncrease, NEW stEthDecrease, NEW debtChange,
               NEW isDebtIncrease, NEW k,
               AdjustCdp(sender, id, stEthIncrease, stEthDecrease, debtChange,
                         isDebtIncrease, k)
        PROVE  SyncsOrWaits
    BY <2>2 DEF AdjustCdp, AdjustSynced, SyncFeeIndices, SyncsOrWaits
  <2>3. ASSUME NEW sender, NEW id, CloseCdp(sender, id) PROVE SyncsOrWaits
    BY <2>3 DEF CloseCdp, SyncFeeIndices, SyncsOrWaits
  <2>4. ASSUME NEW account, ClaimSurplusCollShares(account) PROVE SyncsOrWaits
    BY <2>4 DEF ClaimSurplusCollShares, stakeVars, feeIndexVars, governanceVars, poolVars,
                SyncsOrWaits
  <2>5. ASSUME NEW borrower, NEW manager, NEW approval,
               SetPositionManagerApproval(borrower, manager, approval)
        PROVE  SyncsOrWaits
    BY <2>5 DEF SetPositionManagerApproval, stakeVars, feeIndexVars, governanceVars, poolVars,
                SyncsOrWaits
  <2> QED
    BY <1>1, <2>1, <2>2, <2>3, <2>4, <2>5 DEF BorrowerAction
<1>2. CASE LiquidationAction
  <2>1. ASSUME NEW liquidator, NEW id, Liquidate(liquidator, id) PROVE SyncsOrWaits
    BY <2>1, FinalizeSyncs DEF Liquidate, LiquidateInFull
  <2>2. ASSUME NEW liquidator, NEW id, NEW partialDebt, NEW k,
               PartiallyLiquidate(liquidator, id, partialDebt, k)
        PROVE  SyncsOrWaits
    BY <2>2, FinalizeSyncs DEF PartiallyLiquidate, LiquidateInPart
  <2>3. ASSUME NEW ids, BatchLiquidateCdps(ids) PROVE SyncsOrWaits
    BY <2>3, FinalizeSyncs DEF BatchLiquidateCdps
  <2> QED
    BY <1>2, <2>1, <2>2, <2>3 DEF LiquidationAction
<1>3. CASE RedemptionAction
  BY <1>3, SMTT(30) DEF RedemptionAction, RedeemCollateral, RedeemSynced, SyncFeeIndices, SyncsOrWaits
<1>4. ASSUME SyncBeforeSetting PROVE SyncsOrWaits
  BY <1>4 DEF SyncBeforeSetting, SyncGlobalAccountingAndGracePeriod, SyncFeeIndices, SyncsOrWaits
<1>5. CASE GovernanceAction
  <2>1. SyncBeforeSetting
    BY <1>5 DEF GovernanceAction, SetStakingRewardSplit, SetGracePeriod, SetRedemptionFeeFloor,
                SetMinuteDecayFactor, SetBeta, SetRedemptionsPaused
  <2> QED
    BY <1>4, <2>1
<1>6. CASE AccountAction
  <2>1. ASSUME NEW sender, NEW recipient, NEW amount, Transfer(sender, recipient, amount)
        PROVE  SyncsOrWaits
    BY <2>1 DEF Transfer, stakeVars, feeIndexVars, governanceVars, poolVars, SyncsOrWaits
  <2>2. ASSUME NEW shares, ClaimFeeRecipientCollShares(shares) PROVE SyncsOrWaits
    BY <2>2 DEF ClaimFeeRecipientCollShares, SyncGlobalAccountingAndGracePeriod, SyncFeeIndices,
                SyncsOrWaits
  <2> QED
    BY <1>4, <1>6, <2>1, <2>2 DEF AccountAction, Sync
<1>7. CASE EnvironmentAction \/ UNCHANGED vars
  BY <1>7 DEF EnvironmentAction, Rebase, SetPrice, Tick, protocolVars, vars, stakeVars,
              feeIndexVars, governanceVars, poolVars, SyncsOrWaits
<1> QED
  BY <1>1, <1>2, <1>3, <1>5, <1>6, <1>7 DEF Next

LEMMA FeeIndexIsSteady ==
  ASSUME TypeOK, SyncsOrWaits, UNCHANGED ethPerShare
  PROVE  SyncedGlobal'.feeIndex = SyncedGlobal.feeIndex
<1>1. CASE /\ stEthIndex' = ethPerShare
           /\ systemStEthFeePerUnitIndex' = SyncedGlobal.feeIndex
  <2>1. ~(ethPerShare' > stEthIndex')
    <3>1. ethPerShare \in Int
      BY RatesArePositive DEF TypeOK, EnvTypeOK
    <3> QED
      BY <1>1, <3>1
  <2>2. SyncedGlobal'.feeIndex = systemStEthFeePerUnitIndex'
    BY <2>1 DEF SyncedGlobal, FeeIsDue
  <2> QED
    BY <1>1, <2>2
<1>2. CASE UNCHANGED <<stEthIndex, systemStEthFeePerUnitIndex, systemStEthFeePerUnitIndexError,
                       totalStakes, systemCollShares, stakingRewardSplit>>
  <2>1. FeeIsDue' = FeeIsDue /\ FeeUponStakingReward' = FeeUponStakingReward
    BY <1>2 DEF FeeIsDue, FeeUponStakingReward, GetSharesByPooledEth
  <2> QED
    BY <1>2, <2>1 DEF SyncedGlobal
<1> QED
  BY <1>1, <1>2 DEF SyncsOrWaits

(* What the views report of a CDP no transaction touches stays the same      *)
(* while the share rate and the redistributed debt do: whoever accounts for  *)
(* a rebase first, and with which operation, the fee a CDP pays for it was   *)
(* fixed when it happened.  A new split, and new totals of stakes and        *)
(* collateral, come into force only after the account is made.               *)
THEOREM ViewsTheorem == Spec => SyncedViewsAreStable
<1> DEFINE Stable ==
      UNCHANGED <<ethPerShare, systemDebtRedistributionIndex>>
      => \A id \in ActiveCdps \ Touched :
           /\ Synced(id)'.coll = Synced(id).coll
           /\ Synced(id)'.debt = Synced(id).debt
<1>1. TypeOK /\ [Next]_vars => [Stable]_vars
  <2> SUFFICES ASSUME TypeOK, [Next]_vars, UNCHANGED <<ethPerShare, systemDebtRedistributionIndex>>,
                      NEW id \in ActiveCdps \ Touched
               PROVE  Synced(id)'.coll = Synced(id).coll /\ Synced(id)'.debt = Synced(id).debt
    OBVIOUS
  <2>1. SyncedGlobal'.feeIndex = SyncedGlobal.feeIndex
    BY StepSyncsOrWaits, FeeIndexIsSteady
  <2>2. Cdps'[id] = Cdps[id]
    BY DEF Touched, ActiveCdps
  <2> QED
    BY <2>1, <2>2 DEF Synced, SyncedCdp, CollAfterFeeSplit, PendingDebt
<1> QED
  BY <1>1, TypeCorrect, PTL DEF Spec, SyncedViewsAreStable

=============================================================================
