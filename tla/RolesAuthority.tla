--------------------------- MODULE RolesAuthority ---------------------------
(***************************************************************************)
(* Who may call what: the roles, capabilities and registers of Governor    *)
(* (RolesAuthority.sol, Governor.sol), which is its own authority and has  *)
(* an owner (Auth.sol), and the protocol's contracts, which ask Governor   *)
(* and have none (AuthNoOwner.sol).                                        *)
(*                                                                         *)
(* What the governed calls do is CdpManager's and the other modules'.      *)
(***************************************************************************)
EXTENDS FiniteSets

CONSTANTS
  Users,          \* the accounts
  Deployer,       \* the owner given to Governor's constructor
  Roles,
  Capabilities    \* inputs: the <<target, function>> pairs that are configured

ASSUME RolesAuthorityAssumption ==
  /\ Deployer \in Users
  /\ \A c \in Capabilities : c = <<c[1], c[2]>>

Flags == {"None", "Public", "Burned"}
Authorities == {"Governor", "None"}
Targets == {c[1] : c \in Capabilities}
Functions(target) == {c[2] : c \in {d \in Capabilities : d[1] = target}}

VARIABLES
  owner, authority,          \* Auth, of Governor
  getUserRoles,              \* user -> its roles
  capabilityFlag,
  getRolesWithCapability,    \* capability -> the roles that have it
  users, targets,            \* registers, for the views
  enabledFunctionSigsByTarget

authVars == <<owner, authority>>
capabilityVars ==
  <<capabilityFlag, getRolesWithCapability, targets, enabledFunctionSigsByTarget>>
userVars == <<getUserRoles, users>>
vars == <<authVars, capabilityVars, userVars>>

TypeOK ==
  /\ owner \in Users /\ authority \in Authorities
  /\ getUserRoles \in [Users -> SUBSET Roles]
  /\ capabilityFlag \in [Capabilities -> Flags]
  /\ getRolesWithCapability \in [Capabilities -> SUBSET Roles]
  /\ users \subseteq Users /\ targets \subseteq Targets
  /\ DOMAIN enabledFunctionSigsByTarget = Targets
  /\ \A t \in Targets : enabledFunctionSigsByTarget[t] \subseteq Functions(t)

Init ==
  /\ owner = Deployer /\ authority = "Governor"
  /\ getUserRoles = [u \in Users |-> {}]
  /\ capabilityFlag = [c \in Capabilities |-> "None"]
  /\ getRolesWithCapability = [c \in Capabilities |-> {}]
  /\ users = {} /\ targets = {}
  /\ enabledFunctionSigsByTarget = [t \in Targets |-> {}]

-----------------------------------------------------------------------------
(* Authorisation.                                                          *)

CanCall(user, c) ==
  \/ capabilityFlag[c] = "Public"
  \/ /\ capabilityFlag[c] = "None"
     /\ getUserRoles[user] \cap getRolesWithCapability[c] # {}

\* A function of Governor that nobody configured is the owner's alone.
CanCallGovernor(user, function) ==
  /\ authority = "Governor"
  /\ <<"Governor", function>> \in Capabilities
  /\ CanCall(user, <<"Governor", function>>)

IsAuthorized(user, function) == CanCallGovernor(user, function) \/ user = owner

-----------------------------------------------------------------------------
(* Governor's functions, called by an account.                             *)

\* Mutant: what was burned may be made public again.
SetPublicCapabilityAnyway(caller, c, enabled) ==
  /\ IsAuthorized(caller, "setPublicCapability")
  /\ capabilityFlag' =
       [capabilityFlag EXCEPT ![c] = IF enabled THEN "Public" ELSE "None"]
  /\ UNCHANGED <<authVars, userVars, getRolesWithCapability, targets,
                 enabledFunctionSigsByTarget>>

SetPublicCapability(caller, c, enabled) ==
  /\ IsAuthorized(caller, "setPublicCapability")
  /\ capabilityFlag[c] # "Burned"
  /\ capabilityFlag' =
       [capabilityFlag EXCEPT ![c] = IF enabled THEN "Public" ELSE "None"]
  /\ UNCHANGED <<authVars, userVars, getRolesWithCapability, targets,
                 enabledFunctionSigsByTarget>>

\* Mutant: the function leaves the register with the first role that loses it.
FunctionsAfterFirstLoss(c, enabled, roles) ==
  IF enabled THEN enabledFunctionSigsByTarget[c[1]] \cup {c[2]}
  ELSE enabledFunctionSigsByTarget[c[1]] \ {c[2]}

\* The register of the capability's target once these roles have it
FunctionsAfter(c, enabled, roles) ==
  LET listed == enabledFunctionSigsByTarget[c[1]]
  IN IF enabled THEN listed \cup {c[2]}
     ELSE IF roles = {} THEN listed \ {c[2]} ELSE listed

SetRoleCapability(caller, role, c, enabled) ==
  LET roles == IF enabled THEN getRolesWithCapability[c] \cup {role}
               ELSE getRolesWithCapability[c] \ {role}
      functions == FunctionsAfter(c, enabled, roles)
  IN
  /\ IsAuthorized(caller, "setRoleCapability")
  /\ getRolesWithCapability' = [getRolesWithCapability EXCEPT ![c] = roles]
  /\ enabledFunctionSigsByTarget' =
       [enabledFunctionSigsByTarget EXCEPT ![c[1]] = functions]
  /\ targets' = IF enabled THEN targets \cup {c[1]}
                ELSE IF functions = {} THEN targets \ {c[1]} ELSE targets
  /\ UNCHANGED <<authVars, userVars, capabilityFlag>>

BurnCapability(caller, c) ==
  /\ IsAuthorized(caller, "burnCapability")
  /\ capabilityFlag[c] # "Burned"
  /\ capabilityFlag' = [capabilityFlag EXCEPT ![c] = "Burned"]
  /\ UNCHANGED <<authVars, userVars, getRolesWithCapability, targets,
                 enabledFunctionSigsByTarget>>

SetUserRole(caller, user, role, enabled) ==
  LET roles == IF enabled THEN getUserRoles[user] \cup {role}
               ELSE getUserRoles[user] \ {role}
  IN
  /\ IsAuthorized(caller, "setUserRole")
  /\ getUserRoles' = [getUserRoles EXCEPT ![user] = roles]
  /\ users' = IF enabled THEN users \cup {user}
              ELSE IF roles = {} THEN users \ {user} ELSE users
  /\ UNCHANGED <<authVars, capabilityVars>>

\* The owner always may, also once Governor asks no authority any more.
SetAuthority(caller, newAuthority) ==
  /\ caller = owner \/ CanCallGovernor(caller, "setAuthority")
  /\ authority' = newAuthority
  /\ UNCHANGED <<owner, capabilityVars, userVars>>

TransferOwnership(caller, newOwner) ==
  /\ IsAuthorized(caller, "transferOwnership")
  /\ owner' = newOwner
  /\ UNCHANGED <<authority, capabilityVars, userVars>>

-----------------------------------------------------------------------------
(* Views.                                                                  *)

GetUsersByRole(role) == {u \in users : role \in getUserRoles[u]}

GetEnabledFunctionsInTarget(target) == enabledFunctionSigsByTarget[target]

=============================================================================
