--------------------------- MODULE CapabilityProbe ---------------------------
(***************************************************************************)
(* The capability refresh of one Tesla at one Wall Connector               *)
(* (automations/ev_capability_refresh.py): the planner's rounds request a  *)
(* refresh; its task waits, wakes the car and, as a last resort, charges   *)
(* it for a moment.  The record of the episode is saved before and after   *)
(* the start command, so that after a restart the next request stops a     *)
(* charge the probe began and never begins another.                        *)
(*                                                                         *)
(* A step ends at an await.  A task that awaits _persist finds its record  *)
(* saved at the start of its next step.                                    *)
(***************************************************************************)
EXTENDS Naturals

CONSTANTS
  Jobs,         \* requests and refresh tasks that can be alive at once
  Happens,      \* the mishaps that may happen
  MaxClaims,    \* claims of the loadpoint by other owners
  MaxRestarts,
  None

Mishaps ==
  {"slow_start",    \* the car begins to charge later than the probe waits
   "lost_answer",   \* the start is taken for refused, or raises, and works
   "stop_refused",  \* the stop command fails
   "late_claim",    \* others claim while the probe's stop is under way
   "brief_claim",   \* others claim and let go while the probe's task runs
   "early_fresh",   \* a provider reports the new limit before the stop
   "unproven",      \* recovery gets no capability, or no fresh measurement
   "shutdown"}      \* the tasks are cancelled before Home Assistant ends

ASSUME HappensAreMishaps == Happens \subseteq Mishaps
ASSUME BoundsAreNaturals == MaxClaims \in Nat /\ MaxRestarts \in Nat
ASSUME NoneIsNoJob == None \notin Jobs \cup {"other"} /\ "other" \notin Jobs

VARIABLES
  rec,      \* the episode's entry in _records
  disk,     \* the saved entry
  at,       \* at[j]: the await where job j is
  tracked,  \* the task _tasks holds for the episode
  lease,    \* whose the loadpoint is: the job of a probe's session, "other"
  car,      \* who began the charge that is running: "no", "probe", "other"
  coming,   \* the car has accepted a start and does not charge yet
  stale,    \* capability_refresh_required
  started,  \* start commands of the episode that the car has taken
  mishaps,  \* the mishaps so far
  claims, restarts

vars == <<rec, disk, at, tracked, lease, car, coming, stale, started, mishaps,
          claims, restarts>>

Terminal == {"fresh", "failed", "cancelled"}

NoRec == [phase |-> "none", pending |-> FALSE, issued |-> FALSE,
          confirmed |-> FALSE, stop |-> FALSE]
NewRec == [NoRec EXCEPT !.phase = "passive"]

\* Mutant of Owed: only a confirmed charge is looked into.
OwedWhenConfirmed(r) == r.stop

\* The charge the record may have left behind must be looked into.
Owed(r) == r.pending \/ r.issued \/ r.stop

\* From the claim of the loadpoint to the probe's decision to stop.
Probing == {"amps", "send", "answer", "refused", "raised", "unstarted",
            "confirm", "measure"}

\* Where the probe's stop is decided or under way.
Stopping == {"stop", "resolve", "recstop"}

Records ==
  [phase : {"none", "passive", "wake", "probing"} \cup Terminal,
   pending : BOOLEAN, issued : BOOLEAN, confirmed : BOOLEAN, stop : BOOLEAN]

RecordTypes == rec \in Records /\ disk \in Records

JobTypes ==
  /\ at \in [Jobs -> {"idle", "ask", "spawn", "passive", "wake", "gate", "save",
                      "recover"} \cup Probing \cup Stopping]
  /\ tracked \in Jobs \cup {None}

WorldTypes ==
  /\ lease \in Jobs \cup {None, "other"}
  /\ car \in {"no", "probe", "other"}
  /\ coming \in BOOLEAN /\ stale \in BOOLEAN /\ started \in Nat
  /\ mishaps \subseteq Happens
  /\ claims \in 0..MaxClaims /\ restarts \in 0..MaxRestarts

TypeOK == RecordTypes /\ JobTypes /\ WorldTypes

Init ==
  /\ rec = NoRec /\ disk = NoRec
  /\ at = [j \in Jobs |-> "idle"] /\ tracked = None
  /\ lease = None /\ car = "no" /\ coming = FALSE /\ stale = TRUE
  /\ started = 0 /\ mishaps = {} /\ claims = 0 /\ restarts = 0

GoTo(j, pc) == at' = [at EXCEPT ![j] = pc]
Persisted == disk' = rec

\* _capability_refresh_still_eligible.  It looks at the lease, awaits the
\* capability and looks at the car; only Gate keeps the two looks apart.
Eligible == stale /\ car = "no"
EligibleThroughout == lease = None /\ Eligible

\* can_claim_ev_ownership(owner_mode="capability_probe", allow_takeover=False)
CanClaim == lease # "other"

world == <<lease, car, coming, stale, started, mishaps, claims, restarts>>

Mishap(m) == m \in Happens /\ mishaps' = mishaps \cup {m}
MishapIf(m, cond) == IF cond THEN Mishap(m) ELSE UNCHANGED mishaps

-----------------------------------------------------------------------------
(* request                                                                 *)

Request(j) ==
  /\ at[j] = "idle" /\ tracked = None
  /\ stale /\ rec.phase \notin Terminal
  /\ \/ /\ Owed(rec)
        /\ GoTo(j, "recover") /\ tracked' = j
     \/ /\ ~Owed(rec) /\ lease = None
        /\ GoTo(j, "ask") /\ UNCHANGED tracked
  /\ UNCHANGED <<rec, disk, world>>

Ask(j) ==
  /\ at[j] = "ask"
  /\ IF Eligible THEN rec' = NewRec /\ GoTo(j, "spawn")
                 ELSE rec' = rec /\ GoTo(j, "idle")
  /\ UNCHANGED <<disk, tracked, world>>

Spawn(j) ==
  /\ at[j] = "spawn"
  /\ Persisted /\ tracked' = j /\ GoTo(j, "passive")
  /\ UNCHANGED <<rec, world>>

-----------------------------------------------------------------------------
(* _run_refresh                                                            *)

\* Mutant of Finish: the lease is not looked at before the stop.
FinishUnchecked(j, phase, confirmed) ==
  /\ rec' = [rec EXCEPT !.phase = phase]
  /\ GoTo(j, IF confirmed THEN "stop" ELSE "save")

\* The finally block: a confirmed charge is stopped while the lease is still
\* this session's, and left to the new owner otherwise.
Finish(j, phase, confirmed) ==
  IF confirmed /\ lease = j
    THEN rec' = [rec EXCEPT !.phase = phase] /\ GoTo(j, "stop")
    ELSE /\ rec' = IF confirmed
                     THEN [rec EXCEPT !.phase = "cancelled", !.stop = FALSE]
                     ELSE [rec EXCEPT !.phase = phase]
         /\ GoTo(j, "save")

\* A capability that has become fresh by itself ends the refresh.
Look(j, phase, pc) ==
  \/ /\ EligibleThroughout
     /\ \/ rec' = [rec EXCEPT !.phase = phase] /\ GoTo(j, pc) /\ UNCHANGED stale
        \/ stale' = FALSE /\ Finish(j, "fresh", FALSE)
  \/ ~EligibleThroughout /\ Finish(j, "cancelled", FALSE) /\ UNCHANGED stale

Passive(j) ==
  /\ at[j] = "passive" /\ Look(j, "wake", "wake")
  /\ UNCHANGED <<disk, tracked, lease, car, coming, started, mishaps, claims,
                 restarts>>

Wake(j) ==
  /\ at[j] = "wake" /\ Persisted /\ Look(j, "wake", "gate")
  /\ UNCHANGED <<tracked, lease, car, coming, started, mishaps, claims,
                 restarts>>

\* The last eligibility check yields; the claim is admitted again after it.
Gate(j) ==
  /\ at[j] = "gate"
  /\ IF Eligible /\ CanClaim
       THEN /\ rec' = [rec EXCEPT !.phase = "probing"]
            /\ lease' = j /\ GoTo(j, "amps")
       ELSE Finish(j, "cancelled", FALSE) /\ UNCHANGED lease
  /\ UNCHANGED <<disk, tracked, car, coming, stale, started, mishaps, claims,
                 restarts>>

\* Mutant of Amps: the start is not announced.
AmpsUnannounced(j) ==
  /\ at[j] = "amps" /\ Persisted
  /\ \/ UNCHANGED rec /\ GoTo(j, "send")
     \/ Finish(j, "failed", FALSE)
  /\ UNCHANGED <<tracked, world>>

\* The amps are set; only then is the start announced.
Amps(j) ==
  /\ at[j] = "amps" /\ Persisted
  /\ \/ rec' = [rec EXCEPT !.pending = TRUE] /\ GoTo(j, "send")
     \/ Finish(j, "failed", FALSE)
  /\ UNCHANGED <<tracked, world>>

\* A charge that begins under another owner's lease is that owner's.
Charging == IF lease = "other" THEN "other" ELSE IF car = "no" THEN "probe" ELSE car

\* The car takes the start command.
Starts ==
  /\ started' = started + 1
  /\ car' = Charging /\ UNCHANGED coming

\* _action_start_ev_charging
Send(j) ==
  /\ at[j] = "send" /\ Persisted
  /\ \/ Starts /\ GoTo(j, "answer") /\ UNCHANGED mishaps
     \/ /\ started' = started + 1 /\ coming' = TRUE /\ UNCHANGED car
        /\ GoTo(j, "answer") /\ Mishap("slow_start")
     \/ UNCHANGED <<car, coming, started, mishaps>> /\ GoTo(j, "refused")
     \/ /\ Starts /\ Mishap("lost_answer")
        /\ \E pc \in {"refused", "raised"} : GoTo(j, pc)
  /\ UNCHANGED <<rec, tracked, lease, stale, claims, restarts>>

Answer(j) ==
  /\ \/ /\ at[j] = "answer" /\ GoTo(j, "confirm")
        /\ rec' = [rec EXCEPT !.pending = FALSE, !.issued = TRUE]
     \/ /\ at[j] = "refused" /\ GoTo(j, "unstarted")
        /\ rec' = [rec EXCEPT !.pending = FALSE, !.issued = FALSE]
     \/ at[j] = "raised" /\ Finish(j, "failed", FALSE)
  /\ UNCHANGED <<disk, tracked, world>>

Unstarted(j) ==
  /\ at[j] = "unstarted" /\ Persisted /\ Finish(j, "failed", FALSE)
  /\ UNCHANGED <<tracked, world>>

\* _wait_for_tesla_physical_start
Confirm(j) ==
  /\ at[j] = "confirm" /\ Persisted
  /\ IF car # "no"
       THEN /\ rec' = [rec EXCEPT !.confirmed = TRUE, !.stop = TRUE]
            /\ GoTo(j, "measure")
       ELSE Finish(j, "failed", FALSE)
  /\ UNCHANGED <<tracked, world>>

\* A limit measured after the start counts as fresh although providers may
\* still ask for a refresh.
Measure(j) ==
  /\ at[j] = "measure" /\ Persisted
  /\ \E phase \in {"fresh", "failed"} : Finish(j, phase, TRUE)
  /\ \/ UNCHANGED <<stale, mishaps>>
     \/ stale' = FALSE /\ Mishap("early_fresh")
  /\ UNCHANGED <<tracked, lease, car, coming, started, claims, restarts>>

\* _action_stop_ev_charging with _force_tesla_stop_request
Stops(ok) ==
  IF ok THEN car' = "no" /\ UNCHANGED mishaps
        ELSE Mishap("stop_refused") /\ UNCHANGED car

\* release_ev_ownership drops whatever lease the loadpoint has.
Stop(j) ==
  /\ at[j] = "stop"
  /\ \E ok \in BOOLEAN : Stops(ok) /\ rec' = [rec EXCEPT !.stop = ~ok]
  /\ lease' = None /\ GoTo(j, "save")
  /\ UNCHANGED <<disk, tracked, coming, stale, started, claims, restarts>>

\* The last _persist, and the callback that drops the task.
Save(j) ==
  /\ at[j] = "save" /\ Persisted
  /\ GoTo(j, "idle") /\ tracked' = None
  /\ UNCHANGED <<rec, world>>

-----------------------------------------------------------------------------
(* _recover_interrupted_probe                                              *)

Recover(j) ==
  /\ at[j] = "recover"
  /\ IF lease # None
       THEN /\ rec' = [rec EXCEPT !.phase = "cancelled", !.stop = FALSE]
            /\ GoTo(j, "save")
       ELSE UNCHANGED rec /\ GoTo(j, "resolve")
  /\ UNCHANGED <<disk, tracked, world>>

\* The charge is proven, or it is not, or the capability cannot be had: then
\* the pending mark stays.
Resolve(j) ==
  /\ at[j] = "resolve"
  /\ \/ car # "no" /\ GoTo(j, "recstop") /\ UNCHANGED <<rec, mishaps>>
     \/ /\ MishapIf("unproven", car # "no")
        /\ \E pending \in {rec.pending, FALSE} :
             rec' = [rec EXCEPT !.phase = "cancelled", !.stop = FALSE,
                                !.pending = pending]
        /\ GoTo(j, "save")
  /\ UNCHANGED <<disk, tracked, lease, car, coming, stale, started, claims,
                 restarts>>

RecStop(j) ==
  /\ at[j] = "recstop"
  /\ \E ok \in BOOLEAN :
       /\ Stops(ok)
       /\ rec' = [rec EXCEPT !.phase = IF ok THEN "cancelled" ELSE "failed",
                             !.stop = ~ok, !.pending = FALSE]
  /\ GoTo(j, "save")
  /\ UNCHANGED <<disk, tracked, lease, coming, stale, started, claims, restarts>>

-----------------------------------------------------------------------------
(* The other owners, the car and Home Assistant                            *)

\* Another owner claims the free loadpoint, or a user takes the probe's; a
\* charge that is running becomes theirs.
OtherClaims ==
  /\ lease # "other" /\ claims < MaxClaims
  /\ MishapIf("late_claim", \E j \in Jobs : at[j] \in Stopping)
  /\ lease' = "other" /\ claims' = claims + 1
  /\ car' = (IF car = "no" THEN "no" ELSE "other")
  /\ UNCHANGED <<rec, disk, at, tracked, coming, stale, started, restarts>>

OtherCharges ==
  /\ lease = "other" /\ car = "no" /\ car' = "other"
  /\ UNCHANGED <<rec, disk, at, tracked, lease, coming, stale, started, mishaps,
                 claims, restarts>>

OtherEnds ==
  /\ lease = "other" /\ lease' = None /\ car' = "no"
  /\ MishapIf("brief_claim", \E j \in Jobs : at[j] \in Probing)
  /\ UNCHANGED <<rec, disk, at, tracked, coming, stale, started, claims,
                 restarts>>

CarBegins ==
  /\ coming /\ coming' = FALSE /\ car' = Charging
  /\ UNCHANGED <<rec, disk, at, tracked, lease, stale, started, mishaps, claims,
                 restarts>>

\* CancelledError at an await of _run_refresh.
Cancel(j) ==
  /\ at[j] \in {"passive", "wake", "gate"} \cup (Probing \ {"raised"})
  /\ Finish(j, "cancelled", at[j] = "measure") /\ Mishap("shutdown")
  /\ UNCHANGED <<disk, tracked, lease, car, coming, stale, started, claims,
                 restarts>>

\* restore_ev_runtime_state: records come back, leases do not.
Restart ==
  /\ restarts < MaxRestarts /\ restarts' = restarts + 1
  /\ rec' = disk /\ at' = [j \in Jobs |-> "idle"] /\ tracked' = None
  /\ lease' = None
  /\ UNCHANGED <<disk, car, coming, stale, started, mishaps, claims>>

Task(j) ==
  \/ Ask(j) \/ Spawn(j) \/ Passive(j) \/ Wake(j) \/ Gate(j) \/ Amps(j)
  \/ Send(j) \/ Answer(j) \/ Unstarted(j) \/ Confirm(j) \/ Measure(j)
  \/ Stop(j) \/ Save(j) \/ Recover(j) \/ Resolve(j) \/ RecStop(j)

Next ==
  \/ \E j \in Jobs : Request(j) \/ Task(j) \/ Cancel(j)
  \/ OtherClaims \/ OtherCharges \/ OtherEnds \/ CarBegins \/ Restart

Spec == Init /\ [][Next]_vars

\* The planner's round comes every 30 seconds; awaited calls return.
FairSpec ==
  /\ Spec
  /\ \A j \in Jobs : WF_vars(Request(j)) /\ WF_vars(Task(j))

-----------------------------------------------------------------------------
(* Properties                                                              *)

\* Whatever is interrupted, an episode gets at most one start command that the
\* car takes (the pending mark is saved before the command).
OneStart == "lost_answer" \notin mishaps => started <= 1

\* A charge the probe began is on disk until it is stopped, so a restart at any
\* moment finds it.
ChargeIsRecorded ==
  car = "probe" /\ mishaps \cap {"slow_start", "lost_answer", "unproven"} = {}
    => Owed(disk)

\* The probe takes the loadpoint from no other owner, and decides to stop the
\* car only while no other owner has it.
SparesOthers ==
  [][/\ lease = "other" => lease' \notin Jobs
     /\ \A j \in Jobs :
          (at[j] # at'[j] /\ at'[j] \in {"stop", "recstop"})
            => lease \in {j, None} \/ "late_claim" \in mishaps]_vars

\* The probe starts the car only while the loadpoint is its own.
StartSparesOthers == [][started' # started => lease \in Jobs]_vars

\* A charge the probe began does not go on: it is stopped, also after a
\* restart, or another owner takes it.
ProbeChargeEnds ==
  car = "probe" ~> car # "probe" \/ mishaps \ {"late_claim"} # {}

\* Recovery stops no car another owner has claimed meanwhile.
RecoverySparesOwners ==
  [][\A j \in Jobs :
       at[j] = "resolve" /\ at'[j] = "recstop" => lease = None]_vars

\* The probe's lease ends with the task that took it.
LeaseEnds == lease \in Jobs ~> lease \notin Jobs

=============================================================================
