------------------------------ MODULE EbtcBase ------------------------------
(***************************************************************************)
(* The parameters and the pure arithmetic every eBTC contract shares:      *)
(* Dependencies/EbtcBase.sol and Dependencies/EbtcMath.sol, and the share  *)
(* conversion of the stETH collateral token.                               *)
(*                                                                         *)
(* All quantities are fixed-point natural numbers, as in Solidity.  The    *)
(* code's 1e18 is the constant DECIMAL_PRECISION, so a run may use a small *)
(* one; every division is the code's flooring integer division.            *)
(***************************************************************************)
EXTENDS Integers, Sequences, FiniteSets

CONSTANTS
  DECIMAL_PRECISION,      \* 1e18: the unit of ratios, prices and indices
  NICR_PRECISION,         \* 1e20: the unit of nominal ratios
  LICR, MCR, CCR,         \* 1.03, 1.10 and 1.25, in DECIMAL_PRECISION
  LIQUIDATOR_REWARD,      \* 0.2 stETH set aside when a CDP is opened
  MIN_NET_STETH_BALANCE,  \* 2 stETH, the least collateral of a CDP
  MIN_CHANGE,             \* 1000, the least debt of a CDP and the least change
  MAX_REWARD_SPLIT,       \* 10000 basis points
  MAX_TCR                 \* type(uint256).max: the ratio of a debt of zero

ASSUME ScaleAssumption ==
  /\ DECIMAL_PRECISION \in Nat \ {0}
  /\ NICR_PRECISION \in Nat \ {0}
  /\ MAX_REWARD_SPLIT \in Nat \ {0}

ASSUME ThresholdAssumption ==
  /\ LICR \in Nat /\ MCR \in Nat /\ CCR \in Nat /\ MAX_TCR \in Nat
  /\ DECIMAL_PRECISION < LICR /\ LICR < MCR /\ MCR < CCR /\ CCR < MAX_TCR

ASSUME MinimumAssumption ==
  /\ LIQUIDATOR_REWARD \in Nat
  /\ MIN_NET_STETH_BALANCE \in Nat \ {0}
  /\ MIN_CHANGE \in Nat \ {0}

-----------------------------------------------------------------------------
(* Collateral token: one share is worth `rate' / DECIMAL_PRECISION stETH.  *)

\* collateral.getPooledEthByShares
PooledEth(shares, rate) == (shares * rate) \div DECIMAL_PRECISION

\* collateral.getSharesByPooledEth
SharesOf(stEth, rate) == (stEth * DECIMAL_PRECISION) \div rate

-----------------------------------------------------------------------------
(* Ratios.                                                                 *)

Lesser(a, b) == IF a < b THEN a ELSE b

ComputeCR(stEthBalance, debt, price) ==
  IF debt > 0 THEN (stEthBalance * price) \div debt ELSE MAX_TCR

ComputeNominalCR(collShares, debt) ==
  IF debt > 0 THEN (collShares * NICR_PRECISION) \div debt ELSE MAX_TCR

\* _checkRecoveryModeForTCR
IsRecoveryMode(tcr) == tcr < CCR

\* _convertDebtDenominationToBtc
DebtDenominationToBtc(debt, price) == (debt * price) \div DECIMAL_PRECISION

\* _checkICRAgainstLiqThreshold
BelowLiqThreshold(icr, tcr) ==
  \/ icr < MCR
  \/ icr <= tcr /\ IsRecoveryMode(tcr)

=============================================================================
