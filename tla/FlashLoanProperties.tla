------------------------- MODULE FlashLoanProperties -------------------------
(***************************************************************************)
(* What the protocol keeps while flash loans are out, and whatever their   *)
(* callbacks call.                                                         *)
(***************************************************************************)
EXTENDS FlashLoans, EbtcProperties

-----------------------------------------------------------------------------
(* What is lent out, loan by loan and in all.                              *)

EbtcOf(loan) == IF loan.lender = "BorrowerOperations" THEN loan.amount ELSE 0
SharesLentOn(loan) ==
  IF loan.lender = "ActivePool" THEN SharesOf(loan.amount, loan.oldRate) ELSE 0

EbtcLent == SumFunctionOnSet([i \in DOMAIN calls |-> EbtcOf(calls[i])], DOMAIN calls)
SharesLent == SumFunctionOnSet([i \in DOMAIN calls |-> SharesLentOn(calls[i])], DOMAIN calls)

\* Also while callbacks run, and whatever they call, the eBTC in circulation is
\* the debt of the system and the loans to be burnt; once the last loan has
\* returned it is the debt again; and every token is in someone's balance.
SupplyIsDebtAndLoans ==
  /\ FlashTypeOK
  /\ eBTCSupply = systemDebt + EbtcLent
  /\ BalancesAddUp

\* The collateral in the active pool and that lent out always cover the
\* borrowers' collateral, the fee recipient's claim and the liquidators'
\* rewards.  The checks at the end of a loan look at the first of these only.
PoolAndLoansAreSolvent ==
  activePoolShares + SharesLent >= systemCollShares + feeRecipientCollShares
    + SumOverCdps([id \in CdpIds |-> Cdps[id].liquidatorRewardShares])

=============================================================================
