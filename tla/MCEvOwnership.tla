---------------------------- MODULE MCEvOwnership ---------------------------
(* Instances of EvOwnership for TLC: the configurations give the constants. *)
EXTENDS EvOwnership

Yield == {"yield"}
Both == {"yield", "override"}
=============================================================================
