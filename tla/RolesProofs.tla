---------------------------- MODULE RolesProofs -----------------------------
(***************************************************************************)
(* That the registers of Governor are complete and that burning is final,  *)
(* for any accounts, roles and capabilities.                               *)
(***************************************************************************)
EXTENDS RolesProperties, TLAPS

(* --- The registers ----------------------------------------------------- *)

(* The registers, entry by entry: an account is listed while it has a role,  *)
(* a function while some role may call it, a target while a function is.     *)
RegistersAreExact ==
  /\ users = {u \in Users : getUserRoles[u] # {}}
  /\ \A c \in Capabilities :
       c[2] \in enabledFunctionSigsByTarget[c[1]] <=> getRolesWithCapability[c] # {}
  /\ targets = {t \in Targets : enabledFunctionSigsByTarget[t] # {}}

LEMMA TargetOfCapability ==
  ASSUME NEW c \in Capabilities PROVE c[1] \in Targets /\ c[2] \in Functions(c[1])
  BY DEF Targets, Functions

LEMMA UserRoleStep ==
  ASSUME TypeOK, RegistersAreExact, NEW caller, NEW user \in Users, NEW role \in Roles,
         NEW enabled \in BOOLEAN, SetUserRole(caller, user, role, enabled)
  PROVE  TypeOK' /\ RegistersAreExact'
<1> DEFINE roles == IF enabled THEN getUserRoles[user] \cup {role}
                               ELSE getUserRoles[user] \ {role}
<1>1. /\ getUserRoles' = [getUserRoles EXCEPT ![user] = roles]
      /\ users' = IF enabled THEN users \cup {user}
                  ELSE IF roles = {} THEN users \ {user} ELSE users
      /\ UNCHANGED <<authVars, capabilityVars>>
  BY DEF SetUserRole
<1>2. getUserRoles \in [Users -> SUBSET Roles] /\ users \subseteq Users
  BY DEF TypeOK
<1>3. roles \in SUBSET Roles /\ (enabled => roles # {})
  BY <1>2
<1>4. ~enabled /\ roles # {} => getUserRoles[user] # {}
  OBVIOUS
<1> HIDE DEF roles
<1>5. getUserRoles' \in [Users -> SUBSET Roles] /\ users' \subseteq Users
  BY <1>1, <1>2, <1>3
<1>6. \A u \in Users : u \in users' <=> getUserRoles'[u] # {}
  BY <1>1, <1>2, <1>3, <1>4 DEF RegistersAreExact
<1>7. TypeOK'
  BY <1>1, <1>5 DEF TypeOK, authVars, capabilityVars
<1>8. users' = {u \in Users : getUserRoles'[u] # {}}
  BY <1>5, <1>6
<1> QED
  BY <1>1, <1>7, <1>8 DEF RegistersAreExact, capabilityVars

LEMMA RoleCapabilityStep ==
  ASSUME TypeOK, RegistersAreExact, NEW caller, NEW role \in Roles, NEW c \in Capabilities,
         NEW enabled \in BOOLEAN, SetRoleCapability(caller, role, c, enabled)
  PROVE  TypeOK' /\ RegistersAreExact'
<1> DEFINE roles == IF enabled THEN getRolesWithCapability[c] \cup {role}
                               ELSE getRolesWithCapability[c] \ {role}
           functions == FunctionsAfter(c, enabled, roles)
           listed == enabledFunctionSigsByTarget[c[1]]
<1>1. /\ getRolesWithCapability' = [getRolesWithCapability EXCEPT ![c] = roles]
      /\ enabledFunctionSigsByTarget' =
           [enabledFunctionSigsByTarget EXCEPT ![c[1]] = functions]
      /\ targets' = IF enabled THEN targets \cup {c[1]}
                    ELSE IF functions = {} THEN targets \ {c[1]} ELSE targets
      /\ UNCHANGED <<authVars, userVars, capabilityFlag>>
  BY DEF SetRoleCapability
<1>2. /\ getRolesWithCapability \in [Capabilities -> SUBSET Roles] /\ targets \subseteq Targets
      /\ DOMAIN enabledFunctionSigsByTarget = Targets
      /\ \A t \in Targets : enabledFunctionSigsByTarget[t] \subseteq Functions(t)
  BY DEF TypeOK
<1>3. c[1] \in Targets /\ c[2] \in Functions(c[1])
  BY TargetOfCapability
<1>4. roles \in SUBSET Roles /\ (enabled => roles # {})
  BY <1>2
<1>5. /\ c[2] \in functions <=> roles # {}
      /\ \A f : f # c[2] => (f \in functions <=> f \in listed)
      /\ functions \subseteq Functions(c[1])
  <2>1. c[2] \in listed <=> getRolesWithCapability[c] # {}
    BY DEF RegistersAreExact
  <2>2. ~enabled /\ roles # {} => getRolesWithCapability[c] # {}
    OBVIOUS
  <2> HIDE DEF roles
  <2> QED
    BY <1>2, <1>3, <1>4, <2>1, <2>2 DEF FunctionsAfter
<1>6. enabled => functions # {}
  BY <1>4, <1>5
<1>7. ~enabled /\ functions # {} => listed # {}
  BY DEF FunctionsAfter
<1> HIDE DEF roles, functions
<1>8. /\ getRolesWithCapability' \in [Capabilities -> SUBSET Roles]
      /\ targets' \subseteq Targets
      /\ DOMAIN enabledFunctionSigsByTarget' = Targets
      /\ enabledFunctionSigsByTarget'[c[1]] = functions
      /\ \A t \in Targets \ {c[1]} :
           enabledFunctionSigsByTarget'[t] = enabledFunctionSigsByTarget[t]
  BY <1>1, <1>2, <1>3, <1>4
<1>9. TypeOK'
  <2>1. \A t \in Targets : enabledFunctionSigsByTarget'[t] \subseteq Functions(t)
    BY <1>2, <1>5, <1>8
  <2> QED
    BY <1>1, <1>8, <2>1 DEF TypeOK, authVars, userVars
<1>10. \A d \in Capabilities :
         d[2] \in enabledFunctionSigsByTarget'[d[1]] <=> getRolesWithCapability'[d] # {}
  <2> SUFFICES ASSUME NEW d \in Capabilities
               PROVE  d[2] \in enabledFunctionSigsByTarget'[d[1]]
                        <=> getRolesWithCapability'[d] # {}
    OBVIOUS
  <2>1. CASE d = c
    BY <2>1, <1>1, <1>2, <1>5, <1>8
  <2>2. CASE d # c /\ d[1] = c[1]
    <3>1. d[2] # c[2]
      BY <2>2, RolesAuthorityAssumption
    <3>2. d[2] \in functions <=> d[2] \in listed
      BY <3>1, <1>5
    <3>3. getRolesWithCapability'[d] = getRolesWithCapability[d]
      BY <2>2, <1>1, <1>2
    <3> QED
      BY <2>2, <3>2, <3>3, <1>8 DEF RegistersAreExact
  <2>3. CASE d[1] # c[1]
    <3>1. getRolesWithCapability'[d] = getRolesWithCapability[d]
      BY <2>3, <1>1, <1>2
    <3>2. enabledFunctionSigsByTarget'[d[1]] = enabledFunctionSigsByTarget[d[1]]
      BY <2>3, <1>8, TargetOfCapability
    <3> QED
      BY <3>1, <3>2 DEF RegistersAreExact
  <2> QED
    BY <2>1, <2>2, <2>3
<1>11. \A t \in Targets : t \in targets' <=> enabledFunctionSigsByTarget'[t] # {}
  <2>1. \A t \in Targets : t \in targets <=> enabledFunctionSigsByTarget[t] # {}
    BY DEF RegistersAreExact
  <2> QED
    BY <2>1, <1>1, <1>3, <1>6, <1>7, <1>8
<1>12. targets' = {t \in Targets : enabledFunctionSigsByTarget'[t] # {}}
  BY <1>8, <1>11
<1> QED
  BY <1>1, <1>9, <1>10, <1>12 DEF RegistersAreExact, userVars

LEMMA RegistersAreKept ==
  ASSUME TypeOK, RegistersAreExact, [RolesNext]_<<vars, everBurned>>
  PROVE  TypeOK' /\ RegistersAreExact'
<1>1. CASE RolesNext
  <2>1. PICK caller \in Users : CapabilityCall(caller) \/ AccountCall(caller)
    BY <1>1 DEF RolesNext
  <2>2. CASE CapabilityCall(caller)
    <3>1. PICK c \in Capabilities :
            \/ \E enabled \in BOOLEAN : SetPublicCapability(caller, c, enabled)
            \/ \E role \in Roles, enabled \in BOOLEAN :
                 SetRoleCapability(caller, role, c, enabled)
            \/ BurnCapability(caller, c)
      BY <2>2 DEF CapabilityCall
    <3>2. ASSUME NEW enabled \in BOOLEAN, SetPublicCapability(caller, c, enabled)
          PROVE  TypeOK' /\ RegistersAreExact'
      BY <3>2 DEF SetPublicCapability, TypeOK, RegistersAreExact, Flags, authVars, userVars
    <3>3. CASE BurnCapability(caller, c)
      BY <3>3 DEF BurnCapability, TypeOK, RegistersAreExact, Flags, authVars, userVars
    <3> QED
      BY <3>1, <3>2, <3>3, RoleCapabilityStep
  <2>3. CASE AccountCall(caller)
    <3>1. ASSUME NEW new \in Authorities, SetAuthority(caller, new)
          PROVE  TypeOK' /\ RegistersAreExact'
      BY <3>1 DEF SetAuthority, TypeOK, RegistersAreExact, capabilityVars, userVars
    <3>2. ASSUME NEW new \in Users, TransferOwnership(caller, new)
          PROVE  TypeOK' /\ RegistersAreExact'
      BY <3>2 DEF TransferOwnership, TypeOK, RegistersAreExact, capabilityVars, userVars
    <3> QED
      BY <2>3, <3>1, <3>2, UserRoleStep DEF AccountCall
  <2> QED
    BY <2>1, <2>2, <2>3
<1>2. CASE UNCHANGED <<vars, everBurned>>
  BY <1>2 DEF TypeOK, RegistersAreExact, vars, authVars, capabilityVars, userVars
<1> QED
  BY <1>1, <1>2

LEMMA ExactIsComplete == ASSUME TypeOK, RegistersAreExact PROVE RegistersAreComplete
<1>1. \A role \in Roles : GetUsersByRole(role) = {u \in Users : role \in getUserRoles[u]}
  BY DEF RegistersAreExact, GetUsersByRole
<1>2. ASSUME NEW t \in Targets
      PROVE  GetEnabledFunctionsInTarget(t) =
               {c[2] : c \in {d \in Capabilities : d[1] = t /\ getRolesWithCapability[d] # {}}}
  <2> DEFINE called == {d \in Capabilities : d[1] = t /\ getRolesWithCapability[d] # {}}
  <2>1. ASSUME NEW f \in enabledFunctionSigsByTarget[t] PROVE \E c \in called : f = c[2]
    <3>1. f \in Functions(t)
      BY DEF TypeOK
    <3>2. PICK d \in Capabilities : d[1] = t /\ f = d[2]
      BY <3>1 DEF Functions
    <3> QED
      BY <3>2 DEF RegistersAreExact
  <2>2. ASSUME NEW c \in called PROVE c[2] \in enabledFunctionSigsByTarget[t]
    BY DEF RegistersAreExact
  <2> QED
    BY <2>1, <2>2 DEF GetEnabledFunctionsInTarget
<1>3. /\ \A u \in users : getUserRoles[u] # {}
      /\ targets = {t \in Targets : GetEnabledFunctionsInTarget(t) # {}}
  BY DEF RegistersAreExact, GetEnabledFunctionsInTarget
<1> QED
  BY <1>1, <1>2, <1>3 DEF RegistersAreComplete

(* The views built on the registers are complete and exact after any history *)
(* of grants and revocations.  The invariant is stated of single entries,    *)
(* because a function leaves its target's register with the last role that   *)
(* had it, and a target with its last function.                              *)
THEOREM RegistersTheorem == RolesSpec => []RegistersAreComplete
<1> DEFINE IInv == TypeOK /\ RegistersAreExact
<1>1. RolesInit => IInv
  <2>1. Init => TypeOK
    BY RolesAuthorityAssumption DEF Init, TypeOK, Authorities, Flags
  <2>2. Init => RegistersAreExact
    BY TargetOfCapability DEF Init, RegistersAreExact
  <2> QED
    BY <2>1, <2>2 DEF RolesInit
<1>2. IInv /\ [RolesNext]_<<vars, everBurned>> => IInv'
  BY RegistersAreKept
<1>3. IInv => RegistersAreComplete
  BY ExactIsComplete
<1> QED
  BY <1>1, <1>2, <1>3, PTL DEF RolesSpec

(* --- Burning ----------------------------------------------------------- *)

(* A capability once burned has the flag that CanCall refuses.               *)
BurnedIsFlagged ==
  /\ capabilityFlag \in [Capabilities -> Flags]
  /\ everBurned \subseteq {c \in Capabilities : capabilityFlag[c] = "Burned"}

LEMMA FlagsAreKept ==
  ASSUME BurnedIsFlagged, [RolesNext]_<<vars, everBurned>> PROVE BurnedIsFlagged'
<1>1. CASE RolesNext
  <2>1. PICK caller \in Users : CapabilityCall(caller) \/ AccountCall(caller)
    BY <1>1 DEF RolesNext
  <2>2. CASE CapabilityCall(caller)
    <3>1. PICK c \in Capabilities :
            \/ \E enabled \in BOOLEAN :
                 SetPublicCapability(caller, c, enabled) /\ UNCHANGED everBurned
            \/ \E role \in Roles, enabled \in BOOLEAN :
                 SetRoleCapability(caller, role, c, enabled) /\ UNCHANGED everBurned
            \/ BurnCapability(caller, c) /\ everBurned' = everBurned \cup {c}
      BY <2>2 DEF CapabilityCall
    <3>2. ASSUME NEW enabled \in BOOLEAN, SetPublicCapability(caller, c, enabled),
                 UNCHANGED everBurned
          PROVE  BurnedIsFlagged'
      BY <3>2 DEF SetPublicCapability, BurnedIsFlagged, Flags
    <3>3. ASSUME NEW role \in Roles, NEW enabled \in BOOLEAN,
                 SetRoleCapability(caller, role, c, enabled), UNCHANGED everBurned
          PROVE  BurnedIsFlagged'
      BY <3>3 DEF SetRoleCapability, BurnedIsFlagged
    <3>4. CASE BurnCapability(caller, c) /\ everBurned' = everBurned \cup {c}
      BY <3>4 DEF BurnCapability, BurnedIsFlagged, Flags
    <3> QED
      BY <3>1, <3>2, <3>3, <3>4
  <2>3. CASE AccountCall(caller)
    <3>1. UNCHANGED <<capabilityFlag, everBurned>>
      BY <2>3 DEF AccountCall, SetUserRole, SetAuthority, TransferOwnership, capabilityVars
    <3> QED
      BY <3>1 DEF BurnedIsFlagged
  <2> QED
    BY <2>1, <2>2, <2>3
<1>2. CASE UNCHANGED <<vars, everBurned>>
  BY <1>2 DEF BurnedIsFlagged, vars, capabilityVars
<1> QED
  BY <1>1, <1>2

(* Burning is for good, whatever the capabilities, and whoever changes roles *)
(* and flags afterwards.  The flag can be set by no function once it is      *)
(* Burned; the invariant is that every burned capability still has it.       *)
THEOREM BurnedTheorem == RolesSpec => []BurnedForGood
<1>1. RolesInit => BurnedIsFlagged
  BY DEF RolesInit, Init, BurnedIsFlagged, Flags
<1>2. BurnedIsFlagged /\ [RolesNext]_<<vars, everBurned>> => BurnedIsFlagged'
  BY FlagsAreKept
<1>3. BurnedIsFlagged => BurnedForGood
  BY DEF BurnedIsFlagged, BurnedForGood, CanCall
<1> QED
  BY <1>1, <1>2, <1>3, PTL DEF RolesSpec

=============================================================================
