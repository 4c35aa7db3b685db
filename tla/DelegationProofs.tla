-------------------------- MODULE DelegationProofs --------------------------
(***************************************************************************)
(* That no delegate does more than it was allowed to, for any accounts,    *)
(* any amounts and any number of calls and permits.                        *)
(*                                                                         *)
(* Allowances, position managers and permits each have an invariant of     *)
(* their own, which implies its part of TypeOK and one property.           *)
(***************************************************************************)
EXTENDS MCDelegation, TLAPS

UsedPermits == [permit : Permits, at : Nat]

AllowancesInvariant ==
  /\ allowances \in [Pairs -> 0 .. MAX_UINT256]
  /\ granted \in [Pairs -> Nat] /\ spent \in [Pairs -> Nat]
  /\ \A p \in Pairs : granted[p] < MAX_UINT256 => spent[p] + allowances[p] <= granted[p]

ManagersInvariant ==
  /\ positionManagers \in [Pairs -> Approvals]
  /\ grantedOnce \in [Pairs -> Nat] /\ managedOnce \in [Pairs -> Nat]
  /\ OneTimeMeansOnce

PermitsInvariant ==
  /\ nonces \in [Contracts \X Owners -> 0 .. MaxNonce + 1]
  /\ signed \subseteq Permits
  /\ now \in 0 .. MaxTime
  /\ used \in Seq(UsedPermits)
  /\ PermitsTakeEffectInOrder

DelegationInvariant == AllowancesInvariant /\ ManagersInvariant /\ PermitsInvariant

allowancesVars == <<allowances, granted, spent>>
managersVars == <<positionManagers, grantedOnce, managedOnce>>
permitsVars == <<nonces, signed, now, used>>

(* --- Allowances -------------------------------------------------------- *)

(* A change of one pair's allowance and of what it was granted and spent.    *)
LEMMA AllowanceStep ==
  ASSUME AllowancesInvariant, NEW p \in Pairs, NEW allowance \in 0 .. MAX_UINT256,
         NEW g \in Nat, NEW s \in Nat,
         allowances' = [allowances EXCEPT ![p] = allowance],
         granted' = [granted EXCEPT ![p] = g], spent' = [spent EXCEPT ![p] = s],
         g < MAX_UINT256 => s + allowance <= g
  PROVE  AllowancesInvariant'
<1>1. /\ allowances' \in [Pairs -> 0 .. MAX_UINT256]
      /\ granted' \in [Pairs -> Nat] /\ spent' \in [Pairs -> Nat]
  BY DEF AllowancesInvariant
<1>2. ASSUME NEW q \in Pairs, granted'[q] < MAX_UINT256
      PROVE  spent'[q] + allowances'[q] <= granted'[q]
  BY <1>2 DEF AllowancesInvariant
<1> QED
  BY <1>1, <1>2 DEF AllowancesInvariant

(* The owner sets the allowance to at most what it grants on top of it.      *)
LEMMA GrantStep ==
  ASSUME AllowancesInvariant, NEW p \in Pairs, NEW allowance \in 0 .. MAX_UINT256,
         NEW amount \in Nat, allowance <= allowances[p] + amount,
         allowances' = [allowances EXCEPT ![p] = allowance],
         granted' = Add(granted, p, amount), UNCHANGED spent
  PROVE  AllowancesInvariant'
<1>1. granted[p] \in Nat /\ spent[p] \in Nat /\ allowances[p] \in 0 .. MAX_UINT256
      /\ MAX_UINT256 \in Nat
  BY DelegationAssumption DEF AllowancesInvariant
<1>2. granted[p] < MAX_UINT256 => spent[p] + allowances[p] <= granted[p]
  BY DEF AllowancesInvariant
<1>3. /\ granted' = [granted EXCEPT ![p] = granted[p] + amount]
      /\ spent' = [spent EXCEPT ![p] = spent[p]]
  BY DEF Add, AllowancesInvariant
<1>4. granted[p] + amount < MAX_UINT256 => spent[p] + allowance <= granted[p] + amount
  BY <1>1, <1>2
<1>5. granted[p] + amount \in Nat
  BY <1>1
<1> QED
  BY <1>1, <1>3, <1>4, <1>5, AllowanceStep

LEMMA TokenCallKeepsAllowances ==
  ASSUME AllowancesInvariant, TokenCall
  PROVE  AllowancesInvariant' /\ UNCHANGED <<managersVars, permitsVars>>
<1>1. PICK owner \in Owners, delegate \in Delegates :
        \/ \E amount \in Allowances :
              Approve(owner, delegate, amount) /\ Grants(<<owner, delegate>>, amount)
        \/ \E added \in Allowances :
              IncreaseAllowance(owner, delegate, added) /\ Grants(<<owner, delegate>>, added)
        \/ \E less \in Allowances :
              DecreaseAllowance(owner, delegate, less) /\ UNCHANGED history
        \/ \E amount \in Amounts :
              /\ TransferFrom(delegate, owner, amount)
              /\ spent' = Add(spent, <<owner, delegate>>, amount)
              /\ UNCHANGED <<granted, grantedOnce, managedOnce>>
  BY DEF TokenCall
<1>2. UNCHANGED used
  BY DEF TokenCall
<1>3. UNCHANGED <<managersVars, permitsVars>>
  BY <1>1, <1>2 DEF Approve, IncreaseAllowance, DecreaseAllowance, TransferFrom, Grants, history,
                    managersVars, permitsVars
<1> DEFINE p == <<owner, delegate>>
<1>4. /\ p \in Pairs /\ MAX_UINT256 \in Nat
      /\ Allowances \subseteq 0 .. MAX_UINT256 /\ Amounts \subseteq 0 .. MAX_UINT256
  BY DelegationAssumption DEF Pairs
<1>5. allowances[p] \in 0 .. MAX_UINT256 /\ granted[p] \in Nat /\ spent[p] \in Nat
  BY <1>4 DEF AllowancesInvariant
<1>6. ASSUME NEW amount \in Allowances, Approve(owner, delegate, amount), Grants(p, amount)
      PROVE  AllowancesInvariant'
  <2>1. allowances' = [allowances EXCEPT ![p] = amount]
    BY <1>6 DEF Approve, SetAllowance
  <2>2. granted' = Add(granted, p, amount) /\ UNCHANGED spent
    BY <1>6 DEF Grants
  <2>3. amount \in 0 .. MAX_UINT256 /\ amount \in Nat /\ amount <= allowances[p] + amount
    BY <1>4, <1>5
  <2> HIDE DEF p
  <2> QED
    BY <1>4, <2>1, <2>2, <2>3, GrantStep
<1>7. ASSUME NEW added \in Allowances, IncreaseAllowance(owner, delegate, added),
             Grants(p, added)
      PROVE  AllowancesInvariant'
  <2>1. /\ allowances' = [allowances EXCEPT ![p] = allowances[p] + added]
        /\ allowances[p] + added <= MAX_UINT256
    BY <1>7 DEF IncreaseAllowance, SetAllowance
  <2>2. granted' = Add(granted, p, added) /\ UNCHANGED spent
    BY <1>7 DEF Grants
  <2>3. added \in Nat /\ allowances[p] + added \in 0 .. MAX_UINT256
    BY <1>4, <1>5, <2>1
  <2>4. allowances[p] + added <= allowances[p] + added
    BY <2>3
  <2> HIDE DEF p
  <2> QED
    BY <1>4, <2>1, <2>2, <2>3, <2>4, GrantStep
<1>8. ASSUME NEW less \in Allowances, DecreaseAllowance(owner, delegate, less), UNCHANGED history
      PROVE  AllowancesInvariant'
  <2>1. /\ allowances' = [allowances EXCEPT ![p] = allowances[p] - less]
        /\ allowances[p] >= less
    BY <1>8 DEF DecreaseAllowance, SetAllowance
  <2>2. /\ granted' = [granted EXCEPT ![p] = granted[p]]
        /\ spent' = [spent EXCEPT ![p] = spent[p]]
    BY <1>8 DEF history, AllowancesInvariant
  <2>3. allowances[p] - less \in 0 .. MAX_UINT256
    BY <1>4, <1>5, <2>1
  <2>4. granted[p] < MAX_UINT256 => spent[p] + (allowances[p] - less) <= granted[p]
    <3>1. granted[p] < MAX_UINT256 => spent[p] + allowances[p] <= granted[p]
      BY <1>4 DEF AllowancesInvariant
    <3> QED
      BY <1>4, <1>5, <3>1
  <2> HIDE DEF p
  <2> QED
    BY <1>4, <1>5, <2>1, <2>2, <2>3, <2>4, AllowanceStep
<1>9. ASSUME NEW amount \in Amounts, TransferFrom(delegate, owner, amount),
             spent' = Add(spent, p, amount), UNCHANGED granted
      PROVE  AllowancesInvariant'
  <2>1. /\ allowances' = [allowances EXCEPT ![p] = AllowanceAfter(allowances[p], amount)]
        /\ allowances[p] >= amount
    BY <1>9 DEF TransferFrom, SetAllowance
  <2>2. /\ granted' = [granted EXCEPT ![p] = granted[p]]
        /\ spent' = [spent EXCEPT ![p] = spent[p] + amount]
    BY <1>9 DEF AllowancesInvariant, Add
  <2>3. AllowanceAfter(allowances[p], amount) \in 0 .. MAX_UINT256 /\ spent[p] + amount \in Nat
    BY <1>4, <1>5, <2>1 DEF AllowanceAfter
  <2>4. granted[p] < MAX_UINT256
          => spent[p] + amount + AllowanceAfter(allowances[p], amount) <= granted[p]
    <3>1. granted[p] < MAX_UINT256 => spent[p] + allowances[p] <= granted[p]
      BY <1>4 DEF AllowancesInvariant
    <3>2. granted[p] < MAX_UINT256 => allowances[p] # MAX_UINT256
      BY <1>4, <1>5, <3>1
    <3> QED
      BY <1>4, <1>5, <3>1, <3>2 DEF AllowanceAfter
  <2> HIDE DEF p
  <2> QED
    BY <1>4, <1>5, <2>1, <2>2, <2>3, <2>4, AllowanceStep
<1> QED
  BY <1>1, <1>3, <1>6, <1>7, <1>8, <1>9

(* --- Position managers ------------------------------------------------- *)

Pending(approval) == IF approval = "OneTime" THEN 1 ELSE 0

(* A change of one pair's approval and of how often it was given and used.   *)
LEMMA ApprovalStep ==
  ASSUME ManagersInvariant, NEW p \in Pairs, NEW approval \in Approvals,
         NEW g \in Nat, NEW m \in Nat,
         positionManagers' = [positionManagers EXCEPT ![p] = approval],
         grantedOnce' = [grantedOnce EXCEPT ![p] = g],
         managedOnce' = [managedOnce EXCEPT ![p] = m],
         m + Pending(approval) <= g
  PROVE  ManagersInvariant'
<1>1. /\ positionManagers' \in [Pairs -> Approvals]
      /\ grantedOnce' \in [Pairs -> Nat] /\ managedOnce' \in [Pairs -> Nat]
  BY DEF ManagersInvariant
<1>2. ASSUME NEW q \in Pairs
      PROVE  managedOnce'[q] + Pending(positionManagers'[q]) <= grantedOnce'[q]
  <2>1. managedOnce[q] + Pending(positionManagers[q]) <= grantedOnce[q]
    BY DEF ManagersInvariant, OneTimeMeansOnce, Pending
  <2> QED
    BY <2>1 DEF ManagersInvariant
<1> QED
  BY <1>1, <1>2 DEF ManagersInvariant, OneTimeMeansOnce, Pending

LEMMA ApprovesStep ==
  ASSUME ManagersInvariant, NEW p \in Pairs, NEW approval \in Approvals,
         positionManagers' = [positionManagers EXCEPT ![p] = approval], Approves(p, approval)
  PROVE  ManagersInvariant'
<1>1. /\ grantedOnce[p] \in Nat /\ managedOnce[p] \in Nat
      /\ managedOnce[p] + Pending(positionManagers[p]) <= grantedOnce[p]
      /\ Pending(positionManagers[p]) \in Nat /\ Pending(approval) \in Nat
  BY DEF ManagersInvariant, OneTimeMeansOnce, Pending
<1>2. /\ grantedOnce' = [grantedOnce EXCEPT ![p] = grantedOnce[p] + Pending(approval)]
      /\ managedOnce' = [managedOnce EXCEPT ![p] = managedOnce[p]]
  BY DEF Approves, Add, Pending, ManagersInvariant
<1>3. managedOnce[p] + Pending(approval) <= grantedOnce[p] + Pending(approval)
  BY <1>1
<1>4. grantedOnce[p] + Pending(approval) \in Nat
  BY <1>1
<1> QED
  BY <1>1, <1>2, <1>3, <1>4, ApprovalStep

LEMMA ManagerCallKeepsManagers ==
  ASSUME ManagersInvariant, ManagerCall
  PROVE  ManagersInvariant' /\ UNCHANGED <<allowancesVars, permitsVars>>
<1>1. PICK owner \in Owners, delegate \in Delegates :
        \/ \E approval \in Approvals :
             /\ SetPositionManagerApproval(owner, delegate, approval)
             /\ Approves(<<owner, delegate>>, approval)
        \/ RenouncePositionManagerApproval(delegate, owner) /\ UNCHANGED history
        \/ /\ managedOnce' = Add(managedOnce, <<owner, delegate>>,
                                 IF positionManagers[<<owner, delegate>>] = "OneTime" THEN 1 ELSE 0)
           /\ ManageCdp(delegate, owner)
           /\ UNCHANGED <<granted, spent, grantedOnce>>
  BY DEF ManagerCall
<1>2. UNCHANGED used
  BY DEF ManagerCall
<1>3. UNCHANGED <<allowancesVars, permitsVars>>
  BY <1>1, <1>2 DEF SetPositionManagerApproval, RenouncePositionManagerApproval, ManageCdp,
                    Approves, history, allowancesVars, permitsVars
<1> DEFINE p == <<owner, delegate>>
<1>4. p \in Pairs
  BY DEF Pairs
<1>5. /\ positionManagers[p] \in Approvals /\ grantedOnce[p] \in Nat /\ managedOnce[p] \in Nat
      /\ managedOnce[p] + Pending(positionManagers[p]) <= grantedOnce[p]
  BY <1>4 DEF ManagersInvariant, OneTimeMeansOnce, Pending
<1>6. ASSUME NEW approval \in Approvals, SetPositionManagerApproval(owner, delegate, approval),
             Approves(p, approval)
      PROVE  ManagersInvariant'
  <2>1. positionManagers' = [positionManagers EXCEPT ![p] = approval]
    BY <1>6 DEF SetPositionManagerApproval
  <2> HIDE DEF p
  <2> QED
    BY <1>4, <1>6, <2>1, ApprovesStep
<1>7. CASE RenouncePositionManagerApproval(delegate, owner) /\ UNCHANGED history
  <2>1. positionManagers' = [positionManagers EXCEPT ![p] = "None"]
    BY <1>7 DEF RenouncePositionManagerApproval, SetPositionManagerApproval
  <2>2. /\ grantedOnce' = [grantedOnce EXCEPT ![p] = grantedOnce[p]]
        /\ managedOnce' = [managedOnce EXCEPT ![p] = managedOnce[p]]
    BY <1>7 DEF history, ManagersInvariant
  <2>3. managedOnce[p] + Pending("None") <= grantedOnce[p] /\ "None" \in Approvals
    BY <1>5 DEF Pending, Approvals
  <2> HIDE DEF p
  <2> QED
    BY <1>3, <1>4, <1>5, <2>1, <2>2, <2>3, ApprovalStep
<1>8. CASE /\ managedOnce' = Add(managedOnce, p,
                                 IF positionManagers[p] = "OneTime" THEN 1 ELSE 0)
           /\ ManageCdp(delegate, owner)
           /\ UNCHANGED <<granted, spent, grantedOnce>>
  <2>1. positionManagers' = [positionManagers EXCEPT ![p] = ApprovalAfterUse(positionManagers[p])]
    BY <1>8 DEF ManageCdp
  <2>2. /\ grantedOnce' = [grantedOnce EXCEPT ![p] = grantedOnce[p]]
        /\ managedOnce' = [managedOnce EXCEPT ![p] =
                             managedOnce[p] + Pending(positionManagers[p])]
    BY <1>8 DEF Add, Pending, ManagersInvariant
  <2>3. /\ ApprovalAfterUse(positionManagers[p]) \in Approvals
        /\ Pending(ApprovalAfterUse(positionManagers[p])) = 0
        /\ Pending(positionManagers[p]) \in Nat
    BY <1>5 DEF ApprovalAfterUse, Approvals, Pending
  <2>4. managedOnce[p] + Pending(positionManagers[p]) \in Nat
    BY <1>5, <2>3
  <2>5. managedOnce[p] + Pending(positionManagers[p])
          + Pending(ApprovalAfterUse(positionManagers[p])) <= grantedOnce[p]
    BY <1>5, <2>3, <2>4
  <2> HIDE DEF p
  <2> QED
    BY <1>3, <1>4, <1>5, <2>1, <2>2, <2>3, <2>4, <2>5, ApprovalStep
<1> QED
  BY <1>1, <1>3, <1>6, <1>7, <1>8

(* --- Permits ----------------------------------------------------------- *)

(* A nonce is used up by a permit that takes effect or is given up.          *)
LEMMA NonceStep ==
  ASSUME PermitsInvariant, NEW contract \in Contracts, NEW owner \in Owners,
         nonces[<<contract, owner>>] <= MaxNonce, nonces' = NoncesAfter(contract, owner)
  PROVE  /\ nonces' \in [Contracts \X Owners -> 0 .. MaxNonce + 1]
         /\ nonces'[<<contract, owner>>] = nonces[<<contract, owner>>] + 1
         /\ \A n \in Contracts \X Owners : nonces'[n] >= nonces[n]
<1> DEFINE at == <<contract, owner>>
<1>1. at \in Contracts \X Owners
  OBVIOUS
<1>2. /\ nonces' = [nonces EXCEPT ![at] = nonces[at] + 1]
      /\ nonces \in [Contracts \X Owners -> 0 .. MaxNonce + 1] /\ nonces[at] <= MaxNonce
  BY DEF NoncesAfter, PermitsInvariant
<1>3. MaxNonce \in Nat
  BY DelegationAssumption
<1> HIDE DEF at
<1>4. nonces[at] \in 0 .. MaxNonce + 1 /\ nonces[at] + 1 \in 0 .. MaxNonce + 1
  BY <1>1, <1>2, <1>3
<1>5. nonces'[at] = nonces[at] + 1 /\ nonces' \in [Contracts \X Owners -> 0 .. MaxNonce + 1]
  BY <1>1, <1>2, <1>4
<1>6. ASSUME NEW n \in Contracts \X Owners PROVE nonces'[n] >= nonces[n]
  <2>1. nonces[n] \in 0 .. MaxNonce + 1
    BY <1>2
  <2> QED
    BY <1>2, <1>3, <1>4, <2>1
<1> QED
  BY <1>5, <1>6 DEF at

LEMMA PermitIsTyped ==
  ASSUME NEW permit \in Permits
  PROVE  /\ permit.contract \in Contracts /\ permit.owner \in Owners
         /\ permit.delegate \in Delegates /\ permit.approval \in Approvals
         /\ permit.amount \in 0 .. MAX_UINT256 /\ permit.nonce \in 0 .. MaxNonce
         /\ permit.deadline \in Nat
         /\ <<permit.contract, permit.owner>> \in Contracts \X Owners
<1>1. /\ permit.contract \in Contracts /\ permit.owner \in Owners
      /\ permit.delegate \in Delegates /\ permit.approval \in Approvals
      /\ permit.amount \in Allowances \cup {0} /\ permit.nonce \in 0 .. MaxNonce
      /\ permit.deadline \in Deadlines
  BY DEF Permits
<1>2. 0 \in 0 .. MAX_UINT256
  BY DelegationAssumption
<1>3. permit.amount \in 0 .. MAX_UINT256
  BY <1>1, <1>2, DelegationAssumption
<1>4. permit.deadline \in Nat
  BY <1>1, DelegationAssumption
<1> QED
  BY <1>1, <1>3, <1>4

(* What a permit adds to the record comes after whatever is there.           *)
LEMMA PermitKeepsOrder ==
  ASSUME PermitsInvariant, NEW permit \in signed, Permit(permit),
         used' = Append(used, [permit |-> permit, at |-> now])
  PROVE  PermitsInvariant'
<1>1. /\ permit \in Permits /\ used \in Seq(UsedPermits)
      /\ nonces \in [Contracts \X Owners -> 0 .. MaxNonce + 1]
      /\ now \in Nat /\ MaxNonce \in Nat
  BY DelegationAssumption DEF PermitsInvariant
<1>2. /\ permit.deadline >= now /\ permit.nonce = nonces[<<permit.contract, permit.owner>>]
      /\ nonces' = NoncesAfter(permit.contract, permit.owner)
      /\ UNCHANGED <<signed, now>>
  BY DEF Permit, PermitIsValid
<1>3. /\ nonces' \in [Contracts \X Owners -> 0 .. MaxNonce + 1]
      /\ nonces'[<<permit.contract, permit.owner>>] = nonces[<<permit.contract, permit.owner>>] + 1
      /\ \A n \in Contracts \X Owners : nonces'[n] >= nonces[n]
  <2>1. nonces[<<permit.contract, permit.owner>>] <= MaxNonce
    BY <1>1, <1>2, PermitIsTyped
  <2> QED
    BY <1>1, <1>2, <2>1, PermitIsTyped, NonceStep
<1> DEFINE new == [permit |-> permit, at |-> now]
<1>4. new \in UsedPermits /\ new.permit = permit /\ new.at = now
  BY <1>1 DEF UsedPermits
<1> HIDE DEF new
<1>5. /\ used' \in Seq(UsedPermits) /\ Len(used) \in Nat /\ Len(used') = Len(used) + 1
      /\ used'[Len(used) + 1] = new
      /\ \A i \in 1 .. Len(used) : used'[i] = used[i]
  BY <1>1, <1>4 DEF new
<1>6. ASSUME NEW i \in 1 .. Len(used)
      PROVE  /\ used[i].permit \in Permits
             /\ used[i].at <= used[i].permit.deadline
             /\ nonces[<<used[i].permit.contract, used[i].permit.owner>>] > used[i].permit.nonce
             /\ nonces'[<<used[i].permit.contract, used[i].permit.owner>>] > used[i].permit.nonce
  <2>1. used[i].permit \in Permits
    <3>1. used[i] \in UsedPermits
      BY <1>1
    <3> QED
      BY <3>1 DEF UsedPermits
  <2>2. /\ used[i].at <= used[i].permit.deadline
        /\ nonces[<<used[i].permit.contract, used[i].permit.owner>>] > used[i].permit.nonce
    BY DEF PermitsInvariant, PermitsTakeEffectInOrder
  <2> DEFINE n == <<used[i].permit.contract, used[i].permit.owner>>
  <2>3. n \in Contracts \X Owners /\ used[i].permit.nonce \in Nat
    BY <2>1, PermitIsTyped
  <2> HIDE DEF n
  <2>4. nonces[n] \in Nat /\ nonces'[n] \in Nat /\ nonces'[n] >= nonces[n]
    BY <1>1, <1>3, <2>3
  <2>5. nonces[n] > used[i].permit.nonce => nonces'[n] > used[i].permit.nonce
    BY <2>3, <2>4
  <2> QED
    BY <2>1, <2>2, <2>5 DEF n
<1>7. ASSUME NEW j \in 1 .. Len(used')
      PROVE  /\ used'[j].at <= used'[j].permit.deadline
             /\ nonces'[<<used'[j].permit.contract, used'[j].permit.owner>>] > used'[j].permit.nonce
             /\ \A i \in 1 .. j - 1 :
                  used'[i].permit.contract = used'[j].permit.contract
                  /\ used'[i].permit.owner = used'[j].permit.owner
                    => used'[i].permit.nonce < used'[j].permit.nonce
  <2>1. CASE j \in 1 .. Len(used)
    <3>1. used'[j] = used[j] /\ \A i \in 1 .. j - 1 : i \in 1 .. Len(used) /\ used'[i] = used[i]
      BY <1>5, <2>1
    <3>2. \A i \in 1 .. j - 1 :
            used[i].permit.contract = used[j].permit.contract
            /\ used[i].permit.owner = used[j].permit.owner
              => used[i].permit.nonce < used[j].permit.nonce
      BY <2>1 DEF PermitsInvariant, PermitsTakeEffectInOrder
    <3> QED
      BY <1>6, <2>1, <3>1, <3>2
  <2>2. CASE j = Len(used) + 1
    <3>1. used'[j].permit = permit /\ used'[j].at = now
      BY <1>4, <1>5, <2>2
    <3>2. nonces'[<<permit.contract, permit.owner>>] > permit.nonce
      BY <1>1, <1>2, <1>3, PermitIsTyped
    <3>3. ASSUME NEW i \in 1 .. j - 1, used'[i].permit.contract = permit.contract,
                 used'[i].permit.owner = permit.owner
          PROVE  used'[i].permit.nonce < permit.nonce
      <4>1. i \in 1 .. Len(used)
        BY <1>5, <2>2
      <4>2. used'[i] = used[i]
        BY <1>5, <4>1
      <4>3. nonces[<<permit.contract, permit.owner>>] > used[i].permit.nonce
            /\ used[i].permit \in Permits
        BY <1>6, <3>3, <4>1, <4>2
      <4>4. used[i].permit.nonce \in Nat /\ permit.nonce \in Nat
        <5>1. used[i].permit.nonce \in 0 .. MaxNonce /\ permit.nonce \in 0 .. MaxNonce
          BY <1>1, <4>3, PermitIsTyped
        <5> QED
          BY <1>1, <5>1
      <4> QED
        BY <1>2, <4>2, <4>3, <4>4
    <3> QED
      BY <1>2, <3>1, <3>2, <3>3
  <2>3. j \in 1 .. Len(used) \/ j = Len(used) + 1
    BY <1>5
  <2> QED
    BY <2>1, <2>2, <2>3
<1>8. PermitsTakeEffectInOrder'
  BY <1>7 DEF PermitsTakeEffectInOrder
<1> QED
  BY <1>2, <1>3, <1>5, <1>8 DEF PermitsInvariant

LEMMA PermitKeepsInvariant ==
  ASSUME DelegationInvariant, NEW permit \in signed, Permit(permit),
         used' = Append(used, [permit |-> permit, at |-> now]),
         IF permit.contract = "EBTCToken"
         THEN Grants(<<permit.owner, permit.delegate>>, permit.amount)
         ELSE Approves(<<permit.owner, permit.delegate>>, permit.approval)
  PROVE  DelegationInvariant'
<1>1. PermitsInvariant'
  BY PermitKeepsOrder DEF DelegationInvariant
<1> DEFINE p == <<permit.owner, permit.delegate>>
<1>2. permit \in Permits
  BY DEF DelegationInvariant, PermitsInvariant
<1>3. /\ p \in Pairs /\ permit.approval \in Approvals
      /\ permit.amount \in 0 .. MAX_UINT256 /\ MAX_UINT256 \in Nat
  BY <1>2, PermitIsTyped, DelegationAssumption DEF Pairs
<1>4. AllowancesInvariant /\ ManagersInvariant
  BY DEF DelegationInvariant
<1>5. CASE permit.contract = "EBTCToken"
  <2>1. /\ allowances' = [allowances EXCEPT ![p] = permit.amount] /\ UNCHANGED positionManagers
        /\ granted' = Add(granted, p, permit.amount)
        /\ UNCHANGED <<spent, grantedOnce, managedOnce>>
    BY <1>5 DEF Permit, SetAllowance, Grants
  <2>2. permit.amount \in Nat /\ permit.amount <= allowances[p] + permit.amount
    BY <1>3, <1>4 DEF AllowancesInvariant
  <2>3. ManagersInvariant'
    BY <1>4, <2>1 DEF ManagersInvariant, OneTimeMeansOnce
  <2> HIDE DEF p
  <2>4. AllowancesInvariant'
    BY <1>3, <1>4, <2>1, <2>2, GrantStep
  <2> QED
    BY <1>1, <2>3, <2>4 DEF DelegationInvariant
<1>6. CASE permit.contract # "EBTCToken"
  <2>1. /\ positionManagers' = [positionManagers EXCEPT ![p] = permit.approval]
        /\ UNCHANGED allowances /\ Approves(p, permit.approval)
    BY <1>6 DEF Permit
  <2>2. AllowancesInvariant'
    BY <1>4, <2>1 DEF Approves, AllowancesInvariant
  <2> HIDE DEF p
  <2>3. ManagersInvariant'
    BY <1>3, <1>4, <2>1, ApprovesStep
  <2> QED
    BY <1>1, <2>2, <2>3 DEF DelegationInvariant
<1> QED
  BY <1>5, <1>6

LEMMA PermitCallKeepsInvariant ==
  ASSUME DelegationInvariant, PermitCall PROVE DelegationInvariant'
<1>1. PermitsInvariant
  BY DEF DelegationInvariant
<1>2. ASSUME NEW permit \in Permits, Sign(permit), UNCHANGED history
      PROVE  DelegationInvariant'
  BY <1>2 DEF Sign, history, delegationVars, DelegationInvariant, AllowancesInvariant,
              ManagersInvariant, OneTimeMeansOnce, PermitsInvariant, PermitsTakeEffectInOrder
<1>3. ASSUME NEW contract \in Contracts, NEW owner \in Owners,
             IncreasePermitNonce(contract, owner), UNCHANGED history
      PROVE  DelegationInvariant'
  <2>1. /\ nonces' \in [Contracts \X Owners -> 0 .. MaxNonce + 1]
        /\ \A n \in Contracts \X Owners : nonces'[n] >= nonces[n]
    BY <1>1, <1>3, NonceStep DEF IncreasePermitNonce
  <2>2. UNCHANGED <<allowances, positionManagers, signed, now, granted, spent, grantedOnce,
                    managedOnce, used>>
    BY <1>3 DEF IncreasePermitNonce, delegationVars, history
  <2>3. ASSUME NEW j \in 1 .. Len(used)
        PROVE  nonces'[<<used[j].permit.contract, used[j].permit.owner>>] > used[j].permit.nonce
    <3> DEFINE n == <<used[j].permit.contract, used[j].permit.owner>>
    <3>1. used[j].permit \in Permits
      <4>1. used \in Seq(UsedPermits)
        BY <1>1 DEF PermitsInvariant
      <4>2. used[j] \in UsedPermits
        BY <4>1
      <4> QED
        BY <4>2 DEF UsedPermits
    <3>2. n \in Contracts \X Owners /\ used[j].permit.nonce \in Nat
      BY <3>1, PermitIsTyped
    <3>3. nonces[n] > used[j].permit.nonce
      BY <1>1 DEF PermitsInvariant, PermitsTakeEffectInOrder
    <3> HIDE DEF n
    <3>4. nonces[n] \in Nat /\ nonces'[n] \in Nat /\ nonces'[n] >= nonces[n]
      BY <1>1, <2>1, <3>2, DelegationAssumption DEF PermitsInvariant
    <3>5. nonces'[n] > used[j].permit.nonce
      BY <3>2, <3>3, <3>4
    <3> QED
      BY <3>5 DEF n
  <2>4. PermitsTakeEffectInOrder'
    BY <1>1, <2>2, <2>3 DEF PermitsInvariant, PermitsTakeEffectInOrder
  <2>5. PermitsInvariant'
    BY <1>1, <2>1, <2>2, <2>4 DEF PermitsInvariant
  <2> QED
    BY <2>2, <2>5 DEF DelegationInvariant, AllowancesInvariant, ManagersInvariant,
                      OneTimeMeansOnce
<1> QED
  BY <1>2, <1>3, PermitKeepsInvariant DEF PermitCall

(* --- The invariant ----------------------------------------------------- *)

LEMMA InitialDelegation == ASSUME MCInit PROVE DelegationInvariant
<1>1. MAX_UINT256 \in Nat /\ MaxNonce \in Nat /\ MaxTime \in Nat
  BY DelegationAssumption
<1>2. AllowancesInvariant
  BY <1>1 DEF MCInit, Init, ZeroFor, AllowancesInvariant
<1>3. ManagersInvariant
  BY <1>1 DEF MCInit, Init, ZeroFor, ManagersInvariant, OneTimeMeansOnce, Approvals
<1>4. used = <<>> /\ used \in Seq(UsedPermits) /\ Len(used) = 0
  BY DEF MCInit
<1>5. PermitsTakeEffectInOrder
  BY <1>4 DEF PermitsTakeEffectInOrder
<1>6. PermitsInvariant
  BY <1>1, <1>4, <1>5 DEF MCInit, Init, PermitsInvariant
<1> QED
  BY <1>2, <1>3, <1>6 DEF DelegationInvariant

LEMMA DelegationIsKept ==
  ASSUME DelegationInvariant, [MCNext]_<<vars, history, calls>> PROVE DelegationInvariant'
<1> USE DEF DelegationInvariant
<1>1. CASE TokenCall
  <2>1. AllowancesInvariant' /\ UNCHANGED <<managersVars, permitsVars>>
    BY <1>1, TokenCallKeepsAllowances
  <2> QED
    BY <2>1 DEF managersVars, permitsVars, ManagersInvariant, OneTimeMeansOnce,
                PermitsInvariant, PermitsTakeEffectInOrder
<1>2. CASE ManagerCall
  <2>1. ManagersInvariant' /\ UNCHANGED <<allowancesVars, permitsVars>>
    BY <1>2, ManagerCallKeepsManagers
  <2> QED
    BY <2>1 DEF allowancesVars, permitsVars, AllowancesInvariant, PermitsInvariant,
                PermitsTakeEffectInOrder
<1>3. CASE PermitCall
  BY <1>3, PermitCallKeepsInvariant
<1>4. CASE Tick /\ UNCHANGED <<history, calls>>
  <2>1. now' \in 0 .. MaxTime
    BY <1>4, DelegationAssumption DEF Tick, PermitsInvariant
  <2> QED
    BY <1>4, <2>1 DEF Tick, history, delegationVars, AllowancesInvariant, ManagersInvariant,
                      OneTimeMeansOnce, PermitsInvariant, PermitsTakeEffectInOrder
<1>5. CASE UNCHANGED <<vars, history, calls>>
  BY <1>5 DEF vars, history, delegationVars, AllowancesInvariant, ManagersInvariant,
              OneTimeMeansOnce, PermitsInvariant, PermitsTakeEffectInOrder
<1> QED
  BY <1>1, <1>2, <1>3, <1>4, <1>5 DEF MCNext

LEMMA AlwaysDelegationInvariant == MCSpec => []DelegationInvariant
<1>1. MCInit => DelegationInvariant
  BY InitialDelegation
<1>2. DelegationInvariant /\ [MCNext]_<<vars, history, calls>> => DelegationInvariant'
  BY DelegationIsKept
<1> QED
  BY <1>1, <1>2, PTL DEF MCSpec

(* Spenders transfer no more than they were allowed, whichever mixture of    *)
(* approvals, increases, decreases and permits allowed it: an allowance that *)
(* is not unlimited shrinks by what is spent of it.                          *)
THEOREM SpentTheorem == MCSpec => []SpentWithinAllowance
<1>1. DelegationInvariant => SpentWithinAllowance
  BY DEF DelegationInvariant, AllowancesInvariant, ManagersInvariant, PermitsInvariant,
         SpentWithinAllowance, TypeOK
<1> QED
  BY <1>1, AlwaysDelegationInvariant, PTL

(* A one-time approval is good for one operation of the manager, whatever    *)
(* was approved, revoked, renounced or permitted before and after it.        *)
THEOREM OneTimeTheorem == MCSpec => []OneTimeMeansOnce
<1>1. DelegationInvariant => OneTimeMeansOnce
  BY DEF DelegationInvariant, ManagersInvariant
<1> QED
  BY <1>1, AlwaysDelegationInvariant, PTL

(* Permits take effect once each and in the order of their nonces.  That the *)
(* nonce of each is below the contract's, a part of the property, is what    *)
(* puts the next one after all of them.                                      *)
THEOREM PermitsTheorem == MCSpec => []PermitsTakeEffectInOrder
<1>1. DelegationInvariant => PermitsTakeEffectInOrder
  BY DEF DelegationInvariant, PermitsInvariant
<1> QED
  BY <1>1, AlwaysDelegationInvariant, PTL

=============================================================================
