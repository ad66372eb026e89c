------------------------------ MODULE MCOffGrid ------------------------------
(* Instances of OffGrid for TLC; the configurations give the bounds. *)
EXTENDS OffGrid

CONSTANTS c1, c2   \* price checks, as model values

=============================================================================
