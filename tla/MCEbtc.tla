------------------------------- MODULE MCEbtc -------------------------------
(***************************************************************************)
(* Model checking the protocol on small instances.  A behaviour is cut     *)
(* after MaxSteps transactions and moves of the environment; every run     *)
(* chooses which inputs exist.                                             *)
(***************************************************************************)
EXTENDS EbtcProperties, TLC

CONSTANT MaxSteps   \* bound on the length of a behaviour

VARIABLE steps

MCInit == Init /\ steps = 0

Step == steps < MaxSteps /\ steps' = steps + 1

MCNext ==
  \/ Step /\ BorrowerAction
  \/ Step /\ LiquidationAction
  \/ Step /\ RedemptionAction
  \/ Step /\ GovernanceAction
  \/ Step /\ AccountAction
  \/ Step /\ EnvironmentAction
  \/ steps = MaxSteps /\ UNCHANGED <<vars, steps>>

MCSpec == MCInit /\ [][MCNext]_<<vars, steps>>

\* No contract prefers one account to another.
UserSymmetry == Permutations(Users)

=============================================================================
