SPECIFICATION RolesSpec
INVARIANTS
  RegistersAreComplete
  BurnedForGood
SYMMETRY Symmetry
CONSTANTS
  Users = {a1, a2, a3}
  Deployer = a1
  Roles = {r1, r2}
  Capabilities <- ManagedCapabilities
