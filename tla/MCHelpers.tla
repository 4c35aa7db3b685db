----------------------------- MODULE MCHelpers ------------------------------
(***************************************************************************)
(* Model checking the views that plan a redemption or a liquidation, in    *)
(* every state of the protocol that MCEbtc reaches.                        *)
(***************************************************************************)
EXTENDS MCEbtc, HintHelpers, LiquidationSequencer

=============================================================================
