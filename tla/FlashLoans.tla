----------------------------- MODULE FlashLoans -----------------------------
(***************************************************************************)
(* The flash loans of BorrowerOperations.sol (eBTC, minted for the loan)   *)
(* and ActivePool.sol (stETH, out of the collateral), over the protocol.   *)
(*                                                                         *)
(* Neither flashLoan is nonReentrant.  A loan is therefore two steps, the  *)
(* call up to the borrower's callback and the rest after it; between them  *)
(* the borrower may call every entry point of the protocol, and borrow     *)
(* again.  `calls' is the stack of the loans whose callback is running.  A *)
(* transaction that reverts is one that never takes its next step: what it *)
(* did is undone, so no behaviour continues from there but from before.    *)
(***************************************************************************)
EXTENDS EbtcProtocol

CONSTANTS
  FeeRecipient,        \* feeRecipientAddress, an account like any other
  MAX_BPS,             \* 10000 basis points
  MAX_FEE_BPS,         \* 1000: the largest fee
  MAX_FLASH_LOAN,      \* type(uint112).max, of eBTC
  InitialFeeBps,       \* 3
  FlashAmounts,        \* inputs: the amounts borrowed
  FlashFees,           \* inputs: the fees governance sets
  MaxDepth             \* bound: how deep loans are nested

ASSUME FlashLoanAssumption ==
  /\ FeeRecipient \in Users
  /\ MAX_BPS \in Nat \ {0} /\ MAX_FEE_BPS \in 0 .. MAX_BPS /\ MAX_FLASH_LOAN \in Nat
  /\ InitialFeeBps \in 0 .. MAX_FEE_BPS
  /\ FlashAmounts \subseteq Nat /\ FlashFees \subseteq Nat
  /\ MaxDepth \in Nat

Lenders == {"BorrowerOperations", "ActivePool"}

VARIABLES
  feeBps,              \* ERC3156FlashLender, once in each lender
  flashLoansPaused,
  calls                \* the open loans, the innermost last

lenderVars == <<feeBps, flashLoansPaused>>
flashVars == <<lenderVars, calls>>

Loans == [lender: Lenders, receiver: Users, amount: Nat, fee: Nat,
          oldRate: EthPerShares]

FlashTypeOK ==
  /\ TypeOK
  /\ feeBps \in [Lenders -> 0 .. MAX_FEE_BPS]
  /\ flashLoansPaused \in [Lenders -> BOOLEAN]
  /\ calls \in Seq(Loans)

FlashInit ==
  /\ Init
  /\ feeBps = [lender \in Lenders |-> InitialFeeBps]
  /\ flashLoansPaused = [lender \in Lenders |-> FALSE]
  /\ calls = <<>>

-----------------------------------------------------------------------------
(* What a loan leaves alone.                                               *)

accountingVars == <<Cdps, stakeVars, feeIndexVars, redistributionVars,
                    lastGracePeriodStartTimestamp, governanceVars, baseRateVars, listVars,
                    poolVars, surplusVars, positionManagers, envVars>>

FlashFee(lender, amount) == (amount * feeBps[lender]) \div MAX_BPS

MayBorrow(lender, amount) == amount > 0 /\ ~flashLoansPaused[lender]

Called(lender, receiver, amount) ==
  /\ Len(calls) < MaxDepth                           \* bound on the nesting
  /\ calls' = Append(calls, [lender |-> lender, receiver |-> receiver, amount |-> amount,
                             fee |-> FlashFee(lender, amount), oldRate |-> ethPerShare])

\* The loan whose callback returns, when it is one of `lender'
Returns(lender) ==
  /\ calls # <<>> /\ Last(calls).lender = lender
  /\ calls' = Front(calls)

-----------------------------------------------------------------------------
(* BorrowerOperations.flashLoan.                                           *)

\* Up to the callback: the loan is minted.
EbtcFlashLoan(receiver, amount) ==
  /\ MayBorrow("BorrowerOperations", amount) /\ amount <= MAX_FLASH_LOAN
  /\ Mint(receiver, amount)
  /\ Called("BorrowerOperations", receiver, amount)
  /\ UNCHANGED <<accountingVars, activePoolShares, lenderVars>>

\* Mutant: the fee is burnt with the loan.
EbtcRepaymentBurnsFee(receiver, amount, fee) ==
  LET paid == [eBTCBalance EXCEPT ![receiver] = @ - (amount + fee),
                                  ![FeeRecipient] = @ + amount + fee]
  IN
  /\ eBTCBalance[receiver] >= amount + fee
  /\ eBTCBalance' = [paid EXCEPT ![FeeRecipient] = @ - (amount + fee)]
  /\ eBTCSupply' = eBTCSupply - (amount + fee)

\* Loan and fee go to the fee recipient, and the loan is burnt there.
EbtcRepayment(receiver, amount, fee) ==
  LET paid == [eBTCBalance EXCEPT ![receiver] = @ - (amount + fee)]
  IN
  /\ eBTCBalance[receiver] >= amount + fee
  /\ eBTCBalance' = [paid EXCEPT ![FeeRecipient] = @ + fee]
  /\ eBTCSupply >= amount
  /\ eBTCSupply' = eBTCSupply - amount

\* After the callback
EbtcFlashLoanReturns ==
  /\ Returns("BorrowerOperations")
  /\ LET loan == Last(calls) IN EbtcRepayment(loan.receiver, loan.amount, loan.fee)
  /\ UNCHANGED <<accountingVars, activePoolShares, lenderVars>>

-----------------------------------------------------------------------------
(* ActivePool.flashLoan.  A transfer of stETH moves the shares its amount  *)
(* is worth, rounded down.  What the borrower does with the stETH outside  *)
(* the protocol is not tracked.                                            *)

\* Up to the callback: the loan is sent; maxFlashLoan is the pool's balance.
CollFlashLoan(receiver, amount) ==
  /\ MayBorrow("ActivePool", amount)
  /\ amount <= GetPooledEthByShares(activePoolShares)
  /\ activePoolShares' = activePoolShares - GetSharesByPooledEth(amount)
  /\ Called("ActivePool", receiver, amount)
  /\ UNCHANGED <<accountingVars, tokenVars, lenderVars>>

\* Mutant: the share rate may have moved.
PoolIsMadeWholeAtAnyRate(loan, shares) ==
  shares >= systemCollShares

\* The three checks at the end, on the shares the pool then holds; that of the
\* balance follows from that of the shares.
PoolIsMadeWhole(loan, shares) ==
  /\ GetPooledEthByShares(shares) >= GetPooledEthByShares(systemCollShares)
  /\ shares >= systemCollShares
  /\ ethPerShare = loan.oldRate

\* Loan and fee are received in one transfer, and the fee is sent on.
SharesAfterRepayment(amount, fee) ==
  activePoolShares + GetSharesByPooledEth(amount + fee) - GetSharesByPooledEth(fee)

\* After the callback
CollFlashLoanReturns ==
  /\ Returns("ActivePool")
  /\ LET loan == Last(calls)
         shares == SharesAfterRepayment(loan.amount, loan.fee)
     IN /\ PoolIsMadeWhole(loan, shares)
        /\ activePoolShares' = shares
  /\ UNCHANGED <<accountingVars, tokenVars, lenderVars>>

-----------------------------------------------------------------------------
(* Governance.  Both lenders account for the rewards so far before they    *)
(* set anything; ActivePool looks at the grace period too.                 *)

SyncOf(lender) ==
  IF lender = "ActivePool"
  THEN SyncBeforeSetting
  ELSE LET g == SyncedGlobal
       IN /\ SyncFeeIndices(g)
          /\ totalStakesSnapshot' = g.stakesSnapshot
          /\ totalCollateralSnapshot' = g.collSnapshot
          /\ systemCollShares' = g.systemCollShares
          /\ feeRecipientCollShares' = g.feeRecipientCollShares
          /\ UNCHANGED <<Cdps, totalStakes, redistributionVars, listVars, systemDebt,
                         surplusVars, tokenVars, positionManagers, activePoolShares, envVars,
                         lastGracePeriodStartTimestamp>>

SetFeeBps(lender, newFee) ==
  /\ newFee <= MAX_FEE_BPS
  /\ SyncOf(lender)
  /\ feeBps' = [feeBps EXCEPT ![lender] = newFee]
  /\ UNCHANGED <<governanceVars, baseRateVars, flashLoansPaused, calls>>

SetFlashLoansPaused(lender, paused) ==
  /\ SyncOf(lender)
  /\ flashLoansPaused' = [flashLoansPaused EXCEPT ![lender] = paused]
  /\ UNCHANGED <<governanceVars, baseRateVars, feeBps, calls>>

-----------------------------------------------------------------------------
FlashLoanAction ==
  \/ \E receiver \in Users, amount \in FlashAmounts :
        EbtcFlashLoan(receiver, amount) \/ CollFlashLoan(receiver, amount)
  \/ EbtcFlashLoanReturns
  \/ CollFlashLoanReturns

LenderGovernance ==
  \E lender \in Lenders :
    \/ \E newFee \in FlashFees : SetFeeBps(lender, newFee)
    \/ \E paused \in BOOLEAN : SetFlashLoansPaused(lender, paused)

\* Every call of the protocol, in a transaction of its own or in a callback
ProtocolCall ==
  \/ BorrowerAction
  \/ LiquidationAction
  \/ RedemptionAction
  \/ GovernanceAction
  \/ AccountAction

\* Time passes between transactions; an oracle or a rebase may also be triggered
\* by a transaction, and so by a callback.
Surroundings ==
  \/ \E rate \in EthPerShares : Rebase(rate)
  \/ \E p \in Prices : SetPrice(p)
  \/ \E seconds \in TimeSteps : calls = <<>> /\ Tick(seconds)

FlashNext ==
  \/ FlashLoanAction
  \/ LenderGovernance
  \/ ProtocolCall /\ UNCHANGED flashVars
  \/ Surroundings /\ UNCHANGED flashVars

FlashSpec == FlashInit /\ [][FlashNext]_<<vars, flashVars>>

=============================================================================
