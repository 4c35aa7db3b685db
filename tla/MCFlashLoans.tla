---------------------------- MODULE MCFlashLoans ----------------------------
(***************************************************************************)
(* Flash loans as checked: a bounded number of steps.                      *)
(***************************************************************************)
EXTENDS FlashLoanProperties, TLC

CONSTANT MaxSteps   \* bound on the length of a behaviour

VARIABLE steps

Step == steps < MaxSteps /\ steps' = steps + 1

MCInit == FlashInit /\ steps = 0

MCNext ==
  \/ Step /\ FlashLoanAction
  \/ Step /\ LenderGovernance
  \/ Step /\ ProtocolCall /\ UNCHANGED flashVars
  \/ Step /\ Surroundings /\ UNCHANGED flashVars
  \/ steps = MaxSteps /\ UNCHANGED <<vars, flashVars, steps>>

MCSpec == MCInit /\ [][MCNext]_<<vars, flashVars, steps>>

=============================================================================
