----------------------------- MODULE Delegation -----------------------------
(***************************************************************************)
(* What an account lets others do: spend its eBTC (EBTCToken.sol) and act  *)
(* on its CDPs (BorrowerOperations.sol).  Both contracts take the owner's  *)
(* own call, or a permit the owner signed and anyone submits: late, twice, *)
(* out of order or never.  Both count permits with PermitNonce.sol.        *)
(*                                                                         *)
(* Balances and CDPs are EbtcProtocol's.  Here an owner has the tokens and *)
(* the CDP a delegate goes for, and nothing but the approval stops it.     *)
(***************************************************************************)
EXTENDS Integers, Sequences, FiniteSets

CONSTANTS
  Owners, Delegates,   \* the accounts that approve, and those that are approved
  MAX_UINT256,         \* the allowance that is never used up
  Allowances,          \* inputs: allowances approved, added and subtracted
  Amounts,             \* inputs: eBTC that delegates transfer
  Deadlines,           \* inputs: deadlines of permits
  MaxTime, MaxNonce,   \* bounds: the last timestamp, the last nonce of a permit
  MaxCalls             \* bound: how often owners approve and delegates act

ASSUME DelegationAssumption ==
  /\ MAX_UINT256 \in Nat /\ Allowances \subseteq 0 .. MAX_UINT256
  /\ Amounts \subseteq 0 .. MAX_UINT256
  /\ MaxTime \in Nat /\ MaxNonce \in Nat /\ MaxCalls \in Nat
  /\ Deadlines \subseteq Nat

Contracts == {"EBTCToken", "BorrowerOperations"}
Approvals == {"None", "OneTime", "Persistent"}
Pairs == Owners \X Delegates

VARIABLES
  allowances,          \* EBTCToken: <<owner, spender>> -> eBTC
  positionManagers,    \* BorrowerOperations: <<borrower, manager>> -> approval
  nonces,              \* PermitNonce, once in each contract
  signed,              \* the permits the owners have signed
  now

delegationVars == <<allowances, positionManagers>>
vars == <<delegationVars, nonces, signed, now>>

Permits == [contract: Contracts, owner: Owners, delegate: Delegates,
            amount: Allowances \cup {0}, approval: Approvals,
            nonce: 0 .. MaxNonce, deadline: Deadlines]

TypeOK ==
  /\ allowances \in [Pairs -> 0 .. MAX_UINT256]
  /\ positionManagers \in [Pairs -> Approvals]
  /\ nonces \in [Contracts \X Owners -> 0 .. MaxNonce + 1]
  /\ signed \subseteq Permits
  /\ now \in 0 .. MaxTime

Init ==
  /\ allowances = [p \in Pairs |-> 0]
  /\ positionManagers = [p \in Pairs |-> "None"]
  /\ nonces = [n \in Contracts \X Owners |-> 0]
  /\ signed = {}
  /\ now = 0

-----------------------------------------------------------------------------
(* EBTCToken: the owner's calls, and the spender's.                        *)

SetAllowance(owner, spender, amount) ==
  allowances' = [allowances EXCEPT ![<<owner, spender>>] = amount]

Approve(owner, spender, amount) ==
  /\ SetAllowance(owner, spender, amount)
  /\ UNCHANGED <<positionManagers, nonces, signed, now>>

IncreaseAllowance(owner, spender, added) ==
  /\ allowances[<<owner, spender>>] + added <= MAX_UINT256
  /\ SetAllowance(owner, spender, allowances[<<owner, spender>>] + added)
  /\ UNCHANGED <<positionManagers, nonces, signed, now>>

DecreaseAllowance(owner, spender, subtracted) ==
  /\ allowances[<<owner, spender>>] >= subtracted
  /\ SetAllowance(owner, spender, allowances[<<owner, spender>>] - subtracted)
  /\ UNCHANGED <<positionManagers, nonces, signed, now>>

\* Mutant: the allowance is checked and not used up.
AllowanceAfterKept(allowance, amount) == allowance

\* What transferFrom leaves of an allowance
AllowanceAfter(allowance, amount) ==
  IF allowance = MAX_UINT256 THEN allowance ELSE allowance - amount

\* transferFrom, which also takes the repayment of a flash loan
TransferFrom(spender, owner, amount) ==
  LET allowance == allowances[<<owner, spender>>]
  IN
  /\ allowance >= amount
  /\ SetAllowance(owner, spender, AllowanceAfter(allowance, amount))
  /\ UNCHANGED <<positionManagers, nonces, signed, now>>

-----------------------------------------------------------------------------
(* BorrowerOperations: the borrower's calls, and the manager's.            *)

\* _setPositionManagerApproval, as setPositionManagerApproval and
\* revokePositionManagerApproval call it
SetPositionManagerApproval(borrower, manager, approval) ==
  /\ positionManagers' = [positionManagers EXCEPT ![<<borrower, manager>>] = approval]
  /\ UNCHANGED <<allowances, nonces, signed, now>>

\* renouncePositionManagerApproval is the manager's own.
RenouncePositionManagerApproval(manager, borrower) ==
  SetPositionManagerApproval(borrower, manager, "None")

\* Mutant: a one-time approval is not used up.
ApprovalAfterUseKept(approval) == approval

ApprovalAfterUse(approval) == IF approval = "OneTime" THEN "None" ELSE approval

\* _requireBorrowerOrPositionManagerAndUpdateManagerApproval, at the start of
\* every operation of a manager on a borrower's CDP
ManageCdp(manager, borrower) ==
  LET approval == positionManagers[<<borrower, manager>>]
  IN
  /\ approval # "None"
  /\ positionManagers' =
       [positionManagers EXCEPT ![<<borrower, manager>>] = ApprovalAfterUse(approval)]
  /\ UNCHANGED <<allowances, nonces, signed, now>>

-----------------------------------------------------------------------------
(* Permits.                                                                *)

\* Off chain: the owner signs a permit for the present nonce or a later one.
Sign(permit) ==
  /\ permit.nonce >= nonces[<<permit.contract, permit.owner>>]
  /\ signed' = signed \cup {permit}
  /\ UNCHANGED <<delegationVars, nonces, now>>

\* Mutant: only the contract's first permit uses up its nonce.
NoncesAfterFirstOnly(contract, owner) ==
  IF nonces[<<contract, owner>>] = 0
  THEN [nonces EXCEPT ![<<contract, owner>>] = @ + 1] ELSE nonces

\* The owner's nonce in the contract, used up
NoncesAfter(contract, owner) == [nonces EXCEPT ![<<contract, owner>>] = @ + 1]

\* The digest is made of the present nonce, so any other permit fails to recover
\* its owner.
PermitIsValid(permit) ==
  /\ permit.deadline >= now
  /\ permit.nonce = nonces[<<permit.contract, permit.owner>>]

\* permit and permitPositionManagerApproval
Permit(permit) ==
  /\ PermitIsValid(permit)
  /\ nonces' = NoncesAfter(permit.contract, permit.owner)
  /\ IF permit.contract = "EBTCToken"
     THEN /\ SetAllowance(permit.owner, permit.delegate, permit.amount)
          /\ UNCHANGED positionManagers
     ELSE /\ positionManagers' = [positionManagers EXCEPT
                  ![<<permit.owner, permit.delegate>>] = permit.approval]
          /\ UNCHANGED allowances
  /\ UNCHANGED <<signed, now>>

\* increasePermitNonce
IncreasePermitNonce(contract, owner) ==
  /\ nonces[<<contract, owner>>] <= MaxNonce          \* bound on the nonces
  /\ nonces' = NoncesAfter(contract, owner)
  /\ UNCHANGED <<delegationVars, signed, now>>

Tick ==
  /\ now < MaxTime                                   \* bound on the time
  /\ now' = now + 1
  /\ UNCHANGED <<delegationVars, nonces, signed>>

=============================================================================
