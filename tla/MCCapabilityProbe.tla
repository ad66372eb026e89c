-------------------------- MODULE MCCapabilityProbe --------------------------
(* Instances of CapabilityProbe for TLC; the configurations give the bounds. *)
EXTENDS CapabilityProbe

CONSTANTS j1, j2   \* requests, as model values
=============================================================================
