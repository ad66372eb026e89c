----------------------------- MODULE MCForceMode -----------------------------
(* The instances of ForceMode that TLC checks; the constants are in the     *)
(* MCForceMode*.cfg files, one for each question.                           *)
EXTENDS ForceMode

\* What an overlap may leave at rest, stated without the exceptions of
\* LastCommandWins: the record names the last force mode, and no force flag is on
\* beside self consumption.
RecordIsLast == Quiet /\ want \in ForceModes => disk.mode = want
SelfIsAlone == Quiet /\ want = "self" => \A m \in ForceModes : ~active[m]
=============================================================================
