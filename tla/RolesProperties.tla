-------------------------- MODULE RolesProperties --------------------------
(***************************************************************************)
(* The properties of Governor's roles, with a record of what was burned.   *)
(***************************************************************************)
EXTENDS RolesAuthority

VARIABLE everBurned   \* capabilities that have been burned

RolesInit == Init /\ everBurned = {}

CapabilityCall(caller) ==
  \E c \in Capabilities :
    \/ \E enabled \in BOOLEAN :
         SetPublicCapability(caller, c, enabled) /\ UNCHANGED everBurned
    \/ \E role \in Roles, enabled \in BOOLEAN :
         SetRoleCapability(caller, role, c, enabled) /\ UNCHANGED everBurned
    \/ BurnCapability(caller, c) /\ everBurned' = everBurned \cup {c}

AccountCall(caller) ==
  /\ UNCHANGED everBurned
  /\ \/ \E user \in Users, role \in Roles, enabled \in BOOLEAN :
           SetUserRole(caller, user, role, enabled)
     \/ \E new \in Authorities : SetAuthority(caller, new)
     \/ \E new \in Users : TransferOwnership(caller, new)

RolesNext == \E caller \in Users : CapabilityCall(caller) \/ AccountCall(caller)

RolesSpec == RolesInit /\ [][RolesNext]_<<vars, everBurned>>

-----------------------------------------------------------------------------
\* The views built on the registers leave out no account with the role and no
\* function a role may call, and list no other, however roles and capabilities
\* came and went.
RegistersAreComplete ==
  /\ TypeOK
  /\ \A role \in Roles :
       GetUsersByRole(role) = {u \in Users : role \in getUserRoles[u]}
  /\ \A u \in users : getUserRoles[u] # {}
  /\ \A t \in Targets :
       GetEnabledFunctionsInTarget(t) =
         {c[2] : c \in {d \in Capabilities : d[1] = t /\ getRolesWithCapability[d] # {}}}
  /\ targets = {t \in Targets : GetEnabledFunctionsInTarget(t) # {}}

\* Burning is for good: whatever is configured afterwards, and by whomever, nobody
\* calls a burned function of a protocol contract again, in any role.
BurnedForGood == \A c \in everBurned, user \in Users : ~ CanCall(user, c)

=============================================================================
