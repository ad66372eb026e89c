--------------------------- MODULE MCSungrowExport ---------------------------
(* Instances of SungrowExport for TLC: the configurations give the constants. *)
EXTENDS SungrowExport
=============================================================================
