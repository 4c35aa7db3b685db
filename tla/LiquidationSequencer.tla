------------------------ MODULE LiquidationSequencer ------------------------
(***************************************************************************)
(* LiquidationSequencer.sol and SyncedLiquidationSequencer.sol: the ids a  *)
(* liquidator passes to batchLiquidateCdps in place of the n weakest.    *)
(* The first writes the pending fee to the ledger and reads it then; the   *)
(* second is a view, which has to see through the pending fee.             *)
(***************************************************************************)
EXTENDS EbtcProtocol

-----------------------------------------------------------------------------
\* A CDP's ratio, getSyncedICR
ViewedICR(id) == ICR(SyncedCdp(id, SyncedGlobal.feeIndex))

\* getSyncedTCR, which is the TCR once LiquidationSequencer has synced
TCROnceSynced == TCR(SyncedGlobal.systemCollShares, systemDebt)

\* Mutant: the head is taken as well.
WeakestWithHead(n) == LET length == Len(sortedCdps) IN Lesser(n, length)

\* How many ids from the tail are looked at: at most n, and never the head
Weakest(n) ==
  LET length == Len(sortedCdps) IN IF length = 0 THEN 0 ELSE Lesser(n, length - 1)

\* The last n ids, in the order of the list
TailOf(n) == SubSeq(sortedCdps, Len(sortedCdps) - n + 1, Len(sortedCdps))

\* LiquidationSequencer.sequenceLiqToBatchLiqWithPrice: from the tail up to the
\* first CDP that is not below the threshold
SequenceLiqToBatchLiq(n) ==
  LET taken == {m \in 0 .. Weakest(n) :
                  \A i \in 1 .. m :
                     BelowLiqThreshold(ViewedICR(sortedCdps[Len(sortedCdps) - i + 1]),
                                       TCROnceSynced)}
  IN TailOf(Max(taken))

\* Mutant: a CDP as weak as the system is spared.
CanLiquidateBelowTCR(recovery, icr) ==
  icr < MCR \/ (recovery /\ icr < TCROnceSynced)

\* _canLiquidateInCurrentMode
CanLiquidateInCurrentMode(recovery, icr) ==
  icr < MCR \/ (recovery /\ icr <= TCROnceSynced)

\* The walk of SyncedLiquidationSequencer: what it has taken of the last i ids
LiquidatableAmong(recovery, n) ==
  LET taken[i \in 0 .. n] ==
        IF i = 0 THEN <<>>
        ELSE LET id == sortedCdps[Len(sortedCdps) - i + 1]
             IN IF IsActive(id) /\ CanLiquidateInCurrentMode(recovery, ViewedICR(id))
                THEN <<id>> \o taken[i - 1]
                ELSE taken[i - 1]
  IN taken

\* SyncedLiquidationSequencer.sequenceLiqToBatchLiqWithPrice.  The mode is that
\* of the collateral as last accounted for, the pending fee not taken; the
\* ratios are the synced ones, and every one of the n is looked at.
SyncedSequenceLiqToBatchLiq(n) ==
  LET recoveryModeAtStart == IsRecoveryMode(TCR(systemCollShares, systemDebt))
  IN LiquidatableAmong(recoveryModeAtStart, Weakest(n))[Weakest(n)]

-----------------------------------------------------------------------------
\* The batch for which the grace period need not be waited, or is over
MayLiquidateNow(ids) ==
  \/ \A i \in 1 .. Len(ids) : ViewedICR(ids[i]) < MCR
  \/ RecoveryModeGracePeriodPassed

\* batchLiquidateCdps does not revert over the batch b.
Liquidates(b) == b.ok /\ b.debtToBurn > 0

Sequenced == {SequenceLiqToBatchLiq(n) : n \in 1 .. MaxCdps}

\* Passed to batchLiquidateCdps at once, a sequence does not revert for want of
\* a CDP: something is liquidated, and never the last CDP, although every
\* liquidation moves the ratio the next one is measured by.
SequencedBatchLiquidates ==
  \A ids \in Sequenced :
    ids # <<>> /\ SyncGlobalSucceeds /\ MayLiquidateNow(ids)
    => Liquidates(BatchAfter(ids, SyncedGlobal)[Len(ids)])

\* The ratios of the list fall from head to tail.  The roundings of two CDPs may
\* reverse neighbours whose ratios are less than a unit of stETH apart.
RatiosFall ==
  \A i \in 1 .. Len(sortedCdps) - 1 : ViewedICR(sortedCdps[i]) >= ViewedICR(sortedCdps[i + 1])

\* Once the pending fee is accounted for, both sequencers answer alike, although
\* one stops at the first CDP that cannot be liquidated and the other does not.
SequencersAgreeOnceSynced ==
  ~FeeIsDue /\ RatiosFall =>
    \A n \in 1 .. MaxCdps : SequenceLiqToBatchLiq(n) = SyncedSequenceLiqToBatchLiq(n)

=============================================================================
