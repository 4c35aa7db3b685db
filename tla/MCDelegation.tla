---------------------------- MODULE MCDelegation ----------------------------
(***************************************************************************)
(* The properties of approvals, against a record of what was granted and   *)
(* what was done, and the model checked for them.                          *)
(***************************************************************************)
EXTENDS Delegation, TLC

VARIABLES
  granted,     \* <<owner, spender>> -> the eBTC of all its approvals together
  spent,       \* <<owner, spender>> -> the eBTC transferred
  grantedOnce, \* <<borrower, manager>> -> how many one-time approvals it was given
  managedOnce, \* <<borrower, manager>> -> how often it acted on one
  used,        \* the permits that took effect, in order, with the time
  calls

history == <<granted, spent, grantedOnce, managedOnce, used>>

ZeroFor == [p \in Pairs |-> 0]

MCInit ==
  /\ Init
  /\ granted = ZeroFor /\ spent = ZeroFor /\ grantedOnce = ZeroFor /\ managedOnce = ZeroFor
  /\ used = <<>> /\ calls = 0

Add(record, p, n) == [record EXCEPT ![p] = @ + n]

Grants(p, amount) ==
  /\ granted' = Add(granted, p, amount)
  /\ UNCHANGED <<spent, grantedOnce, managedOnce>>

Approves(p, approval) ==
  /\ grantedOnce' = Add(grantedOnce, p, IF approval = "OneTime" THEN 1 ELSE 0)
  /\ UNCHANGED <<granted, spent, managedOnce>>

Called == calls < MaxCalls /\ calls' = calls + 1

TokenCall ==
  \E owner \in Owners, delegate \in Delegates :
    LET p == <<owner, delegate>> IN
    /\ Called /\ UNCHANGED used
    /\ \/ \E amount \in Allowances : Approve(owner, delegate, amount) /\ Grants(p, amount)
       \/ \E added \in Allowances : IncreaseAllowance(owner, delegate, added) /\ Grants(p, added)
       \/ \E less \in Allowances :
             DecreaseAllowance(owner, delegate, less) /\ UNCHANGED history
       \/ \E amount \in Amounts :
             /\ TransferFrom(delegate, owner, amount)
             /\ spent' = Add(spent, p, amount)
             /\ UNCHANGED <<granted, grantedOnce, managedOnce>>

ManagerCall ==
  \E owner \in Owners, delegate \in Delegates :
    LET p == <<owner, delegate>> IN
    /\ Called /\ UNCHANGED used
    /\ \/ \E approval \in Approvals :
             SetPositionManagerApproval(owner, delegate, approval) /\ Approves(p, approval)
       \/ RenouncePositionManagerApproval(delegate, owner) /\ UNCHANGED history
       \/ /\ managedOnce' =
               Add(managedOnce, p, IF positionManagers[p] = "OneTime" THEN 1 ELSE 0)
          /\ ManageCdp(delegate, owner)
          /\ UNCHANGED <<granted, spent, grantedOnce>>

PermitCall ==
  \/ \E permit \in Permits :
       /\ permit.contract = "EBTCToken" => permit.approval = "None"
       /\ permit.contract = "BorrowerOperations" => permit.amount = 0
       /\ Called /\ Sign(permit) /\ UNCHANGED history
  \/ \E permit \in signed :
       /\ Called /\ Permit(permit)
       /\ used' = Append(used, [permit |-> permit, at |-> now])
       /\ IF permit.contract = "EBTCToken"
          THEN Grants(<<permit.owner, permit.delegate>>, permit.amount)
          ELSE Approves(<<permit.owner, permit.delegate>>, permit.approval)
  \/ \E contract \in Contracts, owner \in Owners :
       Called /\ IncreasePermitNonce(contract, owner) /\ UNCHANGED history

MCNext ==
  \/ TokenCall
  \/ ManagerCall
  \/ PermitCall
  \/ Tick /\ UNCHANGED <<history, calls>>
  \/ calls = MaxCalls /\ UNCHANGED <<vars, history, calls>>

MCSpec == MCInit /\ [][MCNext]_<<vars, history, calls>>

-----------------------------------------------------------------------------
\* A spender without an unlimited allowance never transfers more of an owner's
\* eBTC than the owner's approvals add up to, one replacing another or not.
SpentWithinAllowance ==
  /\ TypeOK
  /\ \A p \in Pairs :
       granted[p] < MAX_UINT256 => spent[p] + allowances[p] <= granted[p]

\* A manager acts once for each one-time approval it is given, however it is
\* given: a second call, of the same transaction or of another CDP, is refused.
OneTimeMeansOnce ==
  \A p \in Pairs :
    managedOnce[p] + (IF positionManagers[p] = "OneTime" THEN 1 ELSE 0) <= grantedOnce[p]

\* A permit takes effect at most once, before its deadline, and never after a
\* later one of its owner, in either contract: submitting it again, or after the
\* owner gave up its nonce, changes nothing.
PermitsTakeEffectInOrder ==
  \A j \in 1 .. Len(used) :
    LET later == used[j].permit IN
    /\ used[j].at <= later.deadline
    /\ nonces[<<later.contract, later.owner>>] > later.nonce
    /\ \A i \in 1 .. j - 1 :
         LET earlier == used[i].permit IN
         earlier.contract = later.contract /\ earlier.owner = later.owner
           => earlier.nonce < later.nonce

=============================================================================
