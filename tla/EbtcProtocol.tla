---------------------------- MODULE EbtcProtocol ----------------------------
(***************************************************************************)
(* The eBTC protocol: borrowers, liquidators, redeemers and governance act *)
(* on one shared ledger, while the price, the share rate of the collateral *)
(* and the time move under it.  One step is one transaction or one move of *)
(* the environment.                                                        *)
(***************************************************************************)
EXTENDS BorrowerOperations, LiquidationLibrary, CdpManager

CONSTANTS
  TransferAmounts,   \* inputs: eBTC sent from one account to another
  FeeClaims,         \* inputs: shares the fee recipient asks for
  TimeSteps          \* how far the block timestamp may move at once

ASSUME ProtocolInputAssumption ==
  TransferAmounts \subseteq Nat /\ FeeClaims \subseteq Nat /\ TimeSteps \subseteq Nat \ {0}

-----------------------------------------------------------------------------
(* The remaining entry points.                                             *)

\* EBTCToken.transfer
Transfer(sender, recipient, amount) ==
  /\ eBTCBalance[sender] >= amount
  /\ eBTCBalance' = [eBTCBalance EXCEPT ![sender] = @ - amount, ![recipient] = @ + amount]
  /\ UNCHANGED <<Cdps, stakeVars, feeIndexVars, redistributionVars,
                 lastGracePeriodStartTimestamp, governanceVars, baseRateVars, listVars,
                 poolVars, surplusVars, eBTCSupply, positionManagers, activePoolShares,
                 envVars>>

\* Mutant: the claim is paid out of the pool and kept.
ClaimFeeRecipientCollSharesTwice(shares) ==
  LET g == SyncedGlobal
  IN
  /\ SyncGlobalAccountingAndGracePeriod(g)
  /\ g.feeRecipientCollShares >= shares /\ activePoolShares >= shares
  /\ feeRecipientCollShares' = g.feeRecipientCollShares
  /\ activePoolShares' = activePoolShares - shares
  /\ UNCHANGED <<Cdps, totalStakes, redistributionVars, governanceVars, baseRateVars, listVars,
                 systemDebt, surplusVars, tokenVars, positionManagers, envVars>>

\* ActivePool.claimFeeRecipientCollShares; the shares leave the system.
ClaimFeeRecipientCollShares(shares) ==
  LET g == SyncedGlobal
  IN
  /\ SyncGlobalAccountingAndGracePeriod(g)
  /\ g.feeRecipientCollShares >= shares /\ activePoolShares >= shares
  /\ feeRecipientCollShares' = g.feeRecipientCollShares - shares
  /\ activePoolShares' = activePoolShares - shares
  /\ UNCHANGED <<Cdps, totalStakes, redistributionVars, governanceVars, baseRateVars, listVars,
                 systemDebt, surplusVars, tokenVars, positionManagers, envVars>>

\* CdpManager.syncGlobalAccountingAndGracePeriod, which anyone may call
Sync ==
  /\ SyncBeforeSetting
  /\ UNCHANGED <<governanceVars, baseRateVars>>

-----------------------------------------------------------------------------
(* The environment.                                                        *)

protocolVars == <<Cdps, stakeVars, feeIndexVars, redistributionVars,
                  lastGracePeriodStartTimestamp, governanceVars, baseRateVars, listVars,
                  poolVars, surplusVars, tokenVars, positionManagers, activePoolShares>>

\* A rebase of stETH: a reward raises the share rate, a slashing lowers it.
Rebase(rate) ==
  /\ rate # ethPerShare
  /\ ethPerShare' = rate
  /\ UNCHANGED <<protocolVars, price, now>>

SetPrice(p) ==
  /\ p # price
  /\ price' = p
  /\ UNCHANGED <<protocolVars, ethPerShare, now>>

Tick(seconds) ==
  /\ now + seconds <= MaxTime                        \* bound on the time
  /\ now' = now + seconds
  /\ UNCHANGED <<protocolVars, ethPerShare, price>>

-----------------------------------------------------------------------------
AccountAction ==
  \/ \E sender, recipient \in Users, amount \in TransferAmounts :
       sender # recipient /\ Transfer(sender, recipient, amount)
  \/ \E shares \in FeeClaims : ClaimFeeRecipientCollShares(shares)
  \/ Sync

EnvironmentAction ==
  \/ \E rate \in EthPerShares : Rebase(rate)
  \/ \E p \in Prices : SetPrice(p)
  \/ \E seconds \in TimeSteps : Tick(seconds)

Next ==
  \/ BorrowerAction
  \/ LiquidationAction
  \/ RedemptionAction
  \/ GovernanceAction
  \/ AccountAction
  \/ EnvironmentAction

Spec == Init /\ [][Next]_vars

=============================================================================
