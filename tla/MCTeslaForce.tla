---------------------------- MODULE MCTeslaForce ----------------------------
(* Instances of TeslaForce for TLC; the configurations give the bounds. *)
EXTENDS TeslaForce

\* Two users who differ in every setting a session changes.
TwoOwns == {[mode |-> "self", grid |-> "on", rule |-> "never"],
            [mode |-> "auto", grid |-> "off", rule |-> "ok"]}

\* A user whose every setting a charge or a discharge changes.
OneOwn == {[mode |-> "self", grid |-> "off", rule |-> "never"]}

\* Properties of TeslaForce without the mishaps they exclude.
BaselineAlways ==
  \A k \in Kinds : \A saved \in {sess[k].saved, sess[k].sites, disk.rec.saved} :
    \A f \in DOMAIN Usual : saved[f] \in {"none"} \cup Usual[f]
NormalAlways ==
  Rest /\ disk.pending = "none"
    => hw.tariff = "own" /\ \A f \in DOMAIN Usual : hw[f] \in Usual[f]
ReserveAlways == kept /\ Rest /\ disk.pending = "none" => hw.reserve = own.reserve

\* The user's mode comes back unless a restore is the optimiser's or finds nothing.
ModeAlways ==
  Rest /\ disk.pending = "none" /\ Never({"idle", "optimizer"}) => hw.mode = own.mode

\* NewerSurvives without its exception for the note: a superseded restore leaves
\* the expiry of the newer session armed, and arms nothing over it.
SupersededLeavesTimers ==
  [][\A s \in Slots :
       /\ op[s].kind = "restore" /\ op[s].after = "" /\ ~op[s].cur
       /\ op'[s].kind = "free" /\ restarts' = restarts
       => timers' = timers]_vars

\* What comes of it: the retry of an older restore begins over a session whose own
\* expiry is still to come.
RetrySparesNewer ==
  [][\A t \in timers :
       t[2] > 0 /\ (\E k \in Kinds : sess[k].active /\ <<k, 0>> \in timers) => ~Fire(t)]_vars

=============================================================================
