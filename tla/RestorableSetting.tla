-------------------------- MODULE RestorableSetting --------------------------
(***************************************************************************)
(* What a controller promises that borrows a setting of its user's device: *)
(* while it has borrowed the setting it may write any value, and it gives  *)
(* the setting back only when the value the user chose is there again.     *)
(***************************************************************************)
CONSTANT Values
VARIABLES value, wish, borrowed

vars == <<value, wish, borrowed>>

Init == value \in Values /\ wish = value /\ borrowed = FALSE

\* The user chooses a value; a borrowed setting is not the user's to change.
Choose(v) ==
  /\ ~borrowed
  /\ value' = v /\ wish' = v
  /\ UNCHANGED borrowed

Borrow ==
  /\ ~borrowed /\ borrowed' = TRUE
  /\ UNCHANGED <<value, wish>>

Use(v) ==
  /\ borrowed /\ value' = v
  /\ UNCHANGED <<wish, borrowed>>

GiveBack ==
  /\ borrowed /\ value = wish /\ borrowed' = FALSE
  /\ UNCHANGED <<value, wish>>

Next == Borrow \/ GiveBack \/ \E v \in Values : Choose(v) \/ Use(v)

Spec == Init /\ [][Next]_vars

\* A setting nobody has borrowed is as the user chose it.
Returned == ~borrowed => value = wish
=============================================================================
