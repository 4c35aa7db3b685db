------------------------------ MODULE MCRoles ------------------------------
(* RolesProperties checked for two functions of Governor and one of CdpManager. *)
EXTENDS RolesProperties, TLC

ManagedCapabilities ==
  {<<"Governor", "setUserRole">>, <<"Governor", "transferOwnership">>,
   <<"CdpManager", "setBeta">>}

\* Only the deployer is named, and the roles mean nothing by themselves.
Symmetry == Permutations(Users \ {Deployer}) \cup Permutations(Roles)

=============================================================================
