------------------------ MODULE MCInteractionOverlay ------------------------
(* Instances of InteractionOverlay for TLC: requests and short times.      *)
EXTENDS InteractionOverlay, TLC
=============================================================================
