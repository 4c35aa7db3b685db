----------------------------- MODULE CdpManager -----------------------------
(***************************************************************************)
(* CdpManager.sol: redemption of eBTC for collateral, from the CDP with    *)
(* the lowest healthy ratio upwards, the base rate that prices it, and the *)
(* governance setters.                                                     *)
(***************************************************************************)
EXTENDS CdpManagerStorage

CONSTANTS
  RedemptionDebts,      \* inputs: eBTC offered to redeemCollateral
  MaxIterations,        \* inputs: the caller's limit on CDPs, 0 for none
  TwapObservations,     \* what ActivePool.observe may answer
  RewardSplits, FeeFloors, DecayFactors, Betas,
  GracePeriods          \* inputs of the governance setters

ASSUME RedemptionInputAssumption ==
  /\ RedemptionDebts \subseteq Nat /\ MaxIterations \subseteq Nat
  /\ TwapObservations \subseteq Nat
  /\ RewardSplits \subseteq Nat /\ FeeFloors \subseteq Nat /\ DecayFactors \subseteq Nat
  /\ Betas \subseteq Nat /\ GracePeriods \subseteq Nat

-----------------------------------------------------------------------------
(* The base rate.                                                          *)

\* EbtcMath.decMul rounds to nearest.
DecMul(x, y) == (x * y + DECIMAL_PRECISION \div 2) \div DECIMAL_PRECISION

\* 1000 years, the cap of _decPow; its exponent is below 2 to the power of 30
DECAY_CAP == 525600000

\* EbtcMath._decPow: square and multiply on [n, x, y] until n is at most 1
DecPowStep(s) ==
  IF s.n <= 1 THEN s
  ELSE [n |-> s.n \div 2,
        x |-> DecMul(s.x, s.x),
        y |-> IF s.n % 2 = 0 THEN s.y ELSE DecMul(s.x, s.y)]

DecPowAfter(base, minutes) ==
  LET after[i \in 0 .. 30] ==
        IF i = 0
        THEN [n |-> Lesser(minutes, DECAY_CAP), x |-> base, y |-> DECIMAL_PRECISION]
        ELSE LET s == after[i - 1] IN DecPowStep(s)
  IN after

DecPow(base, minutes) ==
  LET s == DecPowAfter(base, minutes)[30]
  IN IF minutes = 0 THEN DECIMAL_PRECISION ELSE DecMul(s.x, s.y)

MinutesPassedSinceLastRedemption ==
  IF now > lastRedemptionTimestamp
  THEN (now - lastRedemptionTimestamp) \div SECONDS_IN_ONE_MINUTE
  ELSE 0

Decayed(rate, factor, minutes) == (rate * DecPow(factor, minutes)) \div DECIMAL_PRECISION

\* _calcDecayedBaseRate
DecayedBaseRate == Decayed(baseRate, minuteDecayFactor, MinutesPassedSinceLastRedemption)

\* Mutant: the seconds that do not make up a minute are lost.
LastRedemptionTimestampIsNow == lastRedemptionTimestamp' = now

\* _updateLastRedemptionTimestamp: only whole minutes are used up
UpdateLastRedemptionTimestamp ==
  lastRedemptionTimestamp' =
    lastRedemptionTimestamp + MinutesPassedSinceLastRedemption * SECONDS_IN_ONE_MINUTE

\* The new base rate of _updateBaseRateFromRedemption
BaseRateAfterRedemption(drawn, twapDebt) ==
  Lesser(DecayedBaseRate
           + ((GetPooledEthByShares(drawn) * price) \div twapDebt) \div beta,
         DECIMAL_PRECISION)

RedemptionFee(rate, drawn) ==
  (Lesser(redemptionFeeFloor + rate, DECIMAL_PRECISION) * drawn) \div DECIMAL_PRECISION

-----------------------------------------------------------------------------
(* The redemption loop, as a fold over the list from position `first' to   *)
(* the head.                                                               *)

NothingRedeemed(debt) ==
  [Cdps |-> Cdps, stakes |-> totalStakes, surplusOf |-> surplusCollShares,
   remaining |-> debt, drawn |-> 0, surplus |-> 0, reward |-> 0,
   closed |-> 0, partly |-> NoCdp, cancelled |-> FALSE, ok |-> TRUE]

\* Mutant: the collateral drawn is rounded up.
CollDrawnRoundedUp(debt) == GetSharesByPooledEth((debt * DECIMAL_PRECISION) \div price) + 1

\* The shares of collateral worth `debt', at the price
CollDrawn(debt) == GetSharesByPooledEth((debt * DECIMAL_PRECISION) \div price)

\* _redeemCollateralFromCdp: the CDP is closed, redeemed in part, or only
\* synced when what would remain is too small or the caller's NICR hint,
\* computed before, does not match (hintMatches).  ok turns false where the
\* code reverts.
RedeemFromCdp(r, id, g, hintMatches) ==
  LET cdp == SyncedCdp(id, g.feeIndex)
      debtToRedeem == Lesser(r.remaining, cdp.debt)
      drawn == CollDrawn(debtToRedeem)
      newDebt == cdp.debt - debtToRedeem
      newColl == cdp.coll - drawn
      reward == cdp.liquidatorRewardShares
      isPartial == /\ hintMatches
                   /\ GetPooledEthByShares(newColl) >= MIN_NET_STETH_BALANCE
                   /\ DebtIsEnough(newDebt)
      collLeft == IF isPartial THEN newColl ELSE cdp.coll
      debtLeft == IF isPartial THEN newDebt ELSE cdp.debt
      restaked == UpdatedCdp(cdp, collLeft, debtLeft,
                             ComputeNewStake(collLeft, g.stakesSnapshot, g.collSnapshot))
  IN IF r.remaining = 0 \/ r.cancelled THEN r
     ELSE IF newDebt = 0
     THEN [Cdps |-> [r.Cdps EXCEPT ![id] = ClosedCdp(cdp, "closedByRedemption")],
           stakes |-> r.stakes - cdp.stake,
           surplusOf |-> SurplusCredited(r.surplusOf, cdp.owner, newColl + reward),
           remaining |-> r.remaining - debtToRedeem,
           drawn |-> r.drawn + drawn, surplus |-> r.surplus + newColl,
           reward |-> r.reward + reward,
           closed |-> r.closed + 1, partly |-> r.partly, cancelled |-> FALSE,
           ok |-> /\ r.ok /\ newColl >= 0
                  /\ MoreThanOneCdp(sortedCdps) /\ r.stakes >= cdp.stake]
     ELSE [Cdps |-> [r.Cdps EXCEPT ![id] = restaked],
           stakes |-> RestakedTotal(r.stakes, cdp, restaked.stake),
           surplusOf |-> r.surplusOf,
           remaining |-> IF isPartial THEN 0 ELSE r.remaining,
           drawn |-> IF isPartial THEN r.drawn + drawn ELSE r.drawn,
           surplus |-> r.surplus, reward |-> r.reward, closed |-> r.closed,
           partly |-> IF isPartial THEN restaked ELSE NoCdp, cancelled |-> ~isPartial,
           ok |-> /\ r.ok /\ newColl >= 0
                  /\ r.stakes + restaked.stake >= cdp.stake
                  /\ StakeIsDefined(g.stakesSnapshot, g.collSnapshot)]

\* What the loop has done after n CDPs, from position `first' of the list
RedeemedAfter(debt, first, g, hintMatches) ==
  LET after[n \in 0 .. first] ==
        IF n = 0 THEN NothingRedeemed(debt)
        ELSE LET r == after[n - 1]
             IN RedeemFromCdp(r, sortedCdps[first - n + 1], g, hintMatches)
  IN after

\* Mutant: the ratio of the first CDP is not checked.
AnyFirstRedemption(first, g) ==
  first < Len(sortedCdps) => ICR(SyncedCdp(sortedCdps[first + 1], g.feeIndex)) < MCR

\* _isValidFirstRedemptionHint; the search from the tail that replaces a bad
\* hint ends at such a place too.
ValidFirstRedemption(first, g) ==
  /\ ICR(SyncedCdp(sortedCdps[first], g.feeIndex)) >= MCR
  /\ first < Len(sortedCdps) => ICR(SyncedCdp(sortedCdps[first + 1], g.feeIndex)) < MCR

\* What leaves the active pool: to the redeemer, and to the owners' surplus
SharesPaidOut(r, fee) == r.drawn - fee + r.surplus + r.reward

\* Mutant: one CDP too few is removed from the list.
ListAfterRedemptionKeepsOne(first, closed) ==
  SubSeq(sortedCdps, 1, first - closed) \o
    SubSeq(sortedCdps, IF closed > 1 THEN first ELSE first + 1, Len(sortedCdps))

\* The list without the `closed' CDPs that end at position `first'
ListAfterRedemption(first, closed) ==
  SubSeq(sortedCdps, 1, first - closed) \o SubSeq(sortedCdps, first + 1, Len(sortedCdps))

\* Mutant: what the batch leaves of the list is not looked at.
BatchLeavesAny(closed, left) == TRUE

\* The requirement of sortedCdps.batchRemove, by which several CDPs leave at once
BatchLeavesACdp(closed, left) == closed > 1 => left # <<>>

\* redeemCollateral, given the synced globals g and what the loop did, r.  k is
\* the place where a CDP redeemed in part is inserted again.
RedeemSynced(redeemer, debt, first, twapDebt, k, g, r) ==
  LET tcrAtStart == TCR(g.systemCollShares, systemDebt)
      redeemed == debt - r.remaining
      systemCollAfter == g.systemCollShares - r.drawn - r.surplus
      tcrAfter == TCR(systemCollAfter, systemDebt - redeemed)
      rate == BaseRateAfterRedemption(r.drawn, twapDebt)
      fee == RedemptionFee(rate, r.drawn)
      poolSharesOut == SharesPaidOut(r, fee)
      last == first - r.closed
      left == ListAfterRedemption(first, r.closed)
      rest == ListWithout(left, sortedCdps[last])
  IN
  /\ ~redemptionsPaused
  /\ SyncFeeIndices(g)
  /\ tcrAtStart >= MCR
  /\ debt >= MIN_CHANGE
  /\ eBTCBalance[redeemer] >= debt /\ eBTCBalance[redeemer] <= systemDebt
  /\ ValidFirstRedemption(first, g)
  /\ r.ok /\ r.drawn > 0
  /\ Cdps' = r.Cdps
  /\ totalStakes' = r.stakes
  /\ totalStakesSnapshot' = g.stakesSnapshot
  /\ totalCollateralSnapshot' = g.collSnapshot
  /\ BatchLeavesACdp(r.closed, left)
  /\ IF r.partly = NoCdp
     THEN k = 0 /\ sortedCdps' = left
     ELSE /\ ValidInsertPosition(rest, k, ComputeNominalCR(r.partly.coll, r.partly.debt),
                                 g.feeIndex)
          /\ sortedCdps' = ListInsert(rest, k, sortedCdps[last])
  /\ twapDebt > 0 /\ beta > 0
  /\ rate > 0
  /\ baseRate' = rate
  /\ UpdateLastRedemptionTimestamp
  /\ fee < r.drawn
  /\ lastGracePeriodStartTimestamp' = GracePeriodAfter(tcrAfter)
  /\ Burn(redeemer, redeemed)
  /\ DecreaseSystemDebt(redeemed)
  /\ systemCollAfter >= 0 /\ activePoolShares >= poolSharesOut
  /\ systemCollShares' = systemCollAfter
  /\ feeRecipientCollShares' = g.feeRecipientCollShares + fee
  /\ activePoolShares' = activePoolShares - poolSharesOut
  /\ surplusCollShares' = r.surplusOf
  /\ totalSurplusCollShares' = totalSurplusCollShares + r.surplus + r.reward
  /\ collSurplusPoolShares' = collSurplusPoolShares + r.surplus + r.reward
  /\ ~IsRecoveryMode(tcrAtStart) => ~IsRecoveryMode(tcrAfter)
  /\ UNCHANGED <<redistributionVars, governanceVars, nextCdpNonce, positionManagers, envVars>>

\* redeemCollateral.  The caller accepts any fee (_maxFeePercentage of 100%).
RedeemCollateral(redeemer, debt, first, maxIterations, hintMatches, twapDebt, k) ==
  LET g == SyncedGlobal
      visited == IF maxIterations = 0 THEN first ELSE Lesser(maxIterations, first)
  IN RedeemSynced(redeemer, debt, first, twapDebt, k, g,
                  RedeemedAfter(debt, first, g, hintMatches)[visited])

-----------------------------------------------------------------------------
(* Governance: every setter accounts with the old value first.             *)

\* The state that no setter touches, with the globals it syncs
SyncBeforeSetting ==
  /\ SyncGlobalAccountingAndGracePeriod(SyncedGlobal)
  /\ feeRecipientCollShares' = SyncedGlobal.feeRecipientCollShares
  /\ UNCHANGED <<Cdps, totalStakes, redistributionVars, listVars, systemDebt, surplusVars,
                 tokenVars, positionManagers, activePoolShares, envVars>>

\* _decayBaseRate
DecayBaseRate ==
  /\ DecayedBaseRate <= DECIMAL_PRECISION
  /\ baseRate' = DecayedBaseRate
  /\ UpdateLastRedemptionTimestamp

\* Mutant: the split is set without accounting for the rewards before it.
SetStakingRewardSplitUnsynced(split) ==
  /\ split <= MAX_REWARD_SPLIT
  /\ stakingRewardSplit' = split
  /\ UNCHANGED <<Cdps, stakeVars, feeIndexVars, redistributionVars,
                 lastGracePeriodStartTimestamp, baseRateVars, listVars, poolVars, surplusVars,
                 tokenVars, positionManagers, activePoolShares, envVars,
                 recoveryModeGracePeriodDuration, redemptionFeeFloor, minuteDecayFactor, beta,
                 redemptionsPaused>>

SetStakingRewardSplit(split) ==
  /\ split <= MAX_REWARD_SPLIT
  /\ SyncBeforeSetting
  /\ stakingRewardSplit' = split
  /\ UNCHANGED <<recoveryModeGracePeriodDuration, redemptionFeeFloor, minuteDecayFactor, beta,
                 redemptionsPaused, baseRateVars>>

SetGracePeriod(duration) ==
  /\ duration >= MINIMUM_GRACE_PERIOD
  /\ SyncBeforeSetting
  /\ recoveryModeGracePeriodDuration' = duration
  /\ UNCHANGED <<stakingRewardSplit, redemptionFeeFloor, minuteDecayFactor, beta,
                 redemptionsPaused, baseRateVars>>

SetRedemptionFeeFloor(floor) ==
  /\ floor \in MIN_REDEMPTION_FEE_FLOOR .. DECIMAL_PRECISION
  /\ SyncBeforeSetting
  /\ redemptionFeeFloor' = floor
  /\ UNCHANGED <<recoveryModeGracePeriodDuration, stakingRewardSplit, minuteDecayFactor, beta,
                 redemptionsPaused, baseRateVars>>

SetMinuteDecayFactor(factor) ==
  /\ factor \in 1 .. DECIMAL_PRECISION - 1
  /\ SyncBeforeSetting
  /\ DecayBaseRate
  /\ minuteDecayFactor' = factor
  /\ UNCHANGED <<recoveryModeGracePeriodDuration, stakingRewardSplit, redemptionFeeFloor, beta,
                 redemptionsPaused>>

SetBeta(divisor) ==
  /\ SyncBeforeSetting
  /\ DecayBaseRate
  /\ beta' = divisor
  /\ UNCHANGED <<recoveryModeGracePeriodDuration, stakingRewardSplit, redemptionFeeFloor,
                 minuteDecayFactor, redemptionsPaused>>

SetRedemptionsPaused(paused) ==
  /\ SyncBeforeSetting
  /\ DecayBaseRate
  /\ redemptionsPaused' = paused
  /\ UNCHANGED <<recoveryModeGracePeriodDuration, stakingRewardSplit, redemptionFeeFloor,
                 minuteDecayFactor, beta>>

-----------------------------------------------------------------------------
RedemptionAction ==
  \E redeemer \in Users, debt \in RedemptionDebts, first \in 1 .. Len(sortedCdps),
     maxIterations \in MaxIterations, hintMatches \in BOOLEAN,
     twapDebt \in {systemDebt} \cup {Lesser(o, systemDebt) : o \in TwapObservations},
     k \in 0 .. Len(sortedCdps) - 1 :
     RedeemCollateral(redeemer, debt, first, maxIterations, hintMatches, twapDebt, k)

GovernanceAction ==
  \/ \E split \in RewardSplits : SetStakingRewardSplit(split)
  \/ \E duration \in GracePeriods : SetGracePeriod(duration)
  \/ \E floor \in FeeFloors : SetRedemptionFeeFloor(floor)
  \/ \E factor \in DecayFactors : SetMinuteDecayFactor(factor)
  \/ \E divisor \in Betas : SetBeta(divisor)
  \/ \E paused \in BOOLEAN : SetRedemptionsPaused(paused)

=============================================================================
