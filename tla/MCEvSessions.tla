---------------------------- MODULE MCEvSessions ----------------------------
(* Instances of EvSessions for TLC.                                        *)
EXTENDS EvSessions

CONSTANTS s1, s2, p1, p2, t1, r1, x1

\* Starts and restorations apart, with the fairness of FairSpec.
ApartSpec ==
  /\ ApartSafely
  /\ WF_vars(HistoryAnswers)
  /\ \A o \in Ops :
       WF_vars(StopConfirmed(o) \/ StartTearsDown(o) \/ StartGivesUp(o)
               \/ StartConfirmed(o))
  /\ \A o \in Ops : WF_vars(StopBegins(o) /\ op[o].pc = "decided")
=============================================================================
