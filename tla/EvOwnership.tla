---------------------------- MODULE EvOwnership -----------------------------
(***************************************************************************)
(* Who controls the charging of one car (automations/ev_ownership.py):     *)
(* PowerSync's lease, the external lease that telemetry of a charge it did *)
(* not start creates, the provisional lease while its own stop settles,    *)
(* the hold after a user's stop, and what a restart restores of them.      *)
(*                                                                         *)
(* The functions of the module are synchronous, so each is one step.  The  *)
(* car, its telemetry and the clock are the environment: a stop takes time *)
(* to take effect and telemetry lags behind the car.  Not modelled: the    *)
(* sessions of the charging history (see EvSessions), the overlap of the   *)
(* anonymous _default loadpoint with a VIN, resumable quick controls.      *)
(***************************************************************************)
EXTENDS Naturals

CONSTANTS
  Settle,       \* EXTERNAL_COMMAND_SETTLE_SECONDS
  Confirm,      \* POWERSYNC_STOP_CONFIRM_SECONDS
  MaxAge,       \* RECOVERED_OWNERSHIP_MAX_AGE_SECONDS
  Hold,         \* MANUAL_STOP_HOLD_SECONDS
  Latency,      \* the time an accepted stop takes at most to end the charge
  Lag,          \* the time telemetry stays behind the car at most
  Tracked,      \* whether the observed-session tracker follows this car
  Modes,        \* owner modes that start charging
  Policies,     \* external control policies the user sets
  Happens,      \* which of Events occur in this instance
  MaxRestarts, MaxTime,   \* bounds of the model
  None

ASSUME DurationsAreNatural ==
  /\ {Settle, Confirm, MaxAge, Hold, Latency, Lag, MaxRestarts, MaxTime} \subseteq Nat
  /\ MaxTime > 0
ASSUME PoliciesAreKnown == Policies # {} /\ Policies \subseteq {"yield", "override"}

ASSUME ModesAreKnown ==
  Modes # {} /\ Modes \subseteq {"smart_schedule", "solar_surplus", "manual"}

\* A start is refused; a stop call is not answered at once; the user stops the
\* charge; somebody else starts one.
Events == {"refused_start", "slow_stop", "user_stop", "outside_charge"}
ASSUME EventsAreKnown == Happens \subseteq Events

VARIABLES
  now,          \* the clock
  car,          \* who charges: "powersync", "external" or None
  changed,      \* since when the car differs from its telemetry, if it does
  dies,         \* when an accepted stop takes effect at the latest, or None
  plugged,      \* whether the cable is in
  tele,         \* the telemetry last received, and when it says it is from
  lease,        \* the loadpoint's lease
  cmd,          \* the last command recorded
  held,         \* when the manual stop hold ends
  recovered,    \* restart evidence: the lease found on disk, and its age
  idle,         \* idle polls counted so far
  calling,      \* whether a stop call to the car is under way
  polled,       \* whether the tracker has polled since the clock moved
  policy,       \* external control policy of the vehicle
  disk,         \* the stored runtime state
  dirty,        \* whether a save task is pending
  restarts,     \* restarts so far
  owned,        \* until when restart evidence of the charge counts (checking)
  promised      \* until when a saved hold must last (checking)

env == <<now, car, changed, dies, plugged, tele>>
memory == <<lease, cmd, held, recovered, idle, calling>>
stored == <<disk, restarts, owned, promised>>
vars == <<env, memory, policy, dirty, stored, polled>>

\* A lease with an until is provisional: PowerSync's stop at stopAt is settling.
Lease(mode, stopAt, until) == [mode |-> mode, stopAt |-> stopAt, until |-> until]
External == Lease("external", 0, 0)
Leases == [mode : Modes \cup {"external"}, stopAt : 0..MaxTime,
           until : 0..(MaxTime + Confirm)]

IsExternal(l) == l # None /\ l.mode = "external"
Settling(l) == IsExternal(l) /\ l.until > 0
Sticky(l) == IsExternal(l) /\ l.until = 0
IsPowersync(l) == l # None /\ l.mode # "external"

Command(name, ok) == [name |-> name, ok |-> ok, at |-> now, settled |-> FALSE]
Commands == [name : {"start", "stop", "stop_observed", "other", "external"},
             ok : BOOLEAN, at : 0..MaxTime, settled : BOOLEAN]

Evidences == [lease : Leases \cup {None}, at : 0..MaxTime]
Snapshots == [lease : Leases \cup {None}, cmd : Commands \cup {None},
              held : 0..(MaxTime + Hold), at : 0..MaxTime]

ASSUME NoneIsNothing ==
  /\ None \notin 0..(MaxTime + Latency) /\ None \notin {"powersync", "external"}
  /\ None \notin Leases /\ None \notin Commands

EnvTypes ==
  /\ now \in 1..MaxTime /\ changed \in 0..MaxTime
  /\ car \in {"powersync", "external", None}
  /\ dies \in 1..(MaxTime + Latency) \cup {None}
  /\ plugged \in BOOLEAN
  /\ tele \in [by : {"powersync", "external", None}, at : 0..MaxTime,
               plugged : BOOLEAN]

RuntimeTypes ==
  /\ lease \in Leases \cup {None}
  /\ cmd \in Commands \cup {None}
  /\ held \in 0..(MaxTime + Hold)
  /\ recovered \in Evidences
  /\ idle \in 0..1 /\ calling \in BOOLEAN /\ polled \in BOOLEAN
  /\ policy \in Policies

StoreTypes ==
  /\ disk \in Snapshots
  /\ dirty \in BOOLEAN /\ restarts \in 0..MaxRestarts
  /\ owned \in 0..(MaxTime + MaxAge) /\ promised \in 0..(MaxTime + Hold)

TypeOK == EnvTypes /\ RuntimeTypes /\ StoreTypes

Init ==
  /\ now = 1 /\ car = None /\ changed = 0 /\ dies = None /\ plugged = TRUE
  /\ tele = [by |-> None, at |-> 0, plugged |-> TRUE]
  /\ lease = None /\ cmd = None /\ held = 0 /\ idle = 0
  /\ calling = FALSE /\ polled = FALSE
  /\ recovered = [lease |-> None, at |-> 0]
  /\ policy \in Policies
  /\ disk = [lease |-> None, cmd |-> None, held |-> 0, at |-> 0]
  /\ dirty = FALSE /\ restarts = 0 /\ owned = 0 /\ promised = 0

-----------------------------------------------------------------------------
(* The environment                                                         *)

TelemetryIsBehind == (tele.by = None) # (car = None) \/ tele.plugged # plugged

\* The car changes: the lag of telemetry counts from the first change it misses.
Changes == changed' = IF TelemetryIsBehind THEN changed ELSE now

Tick ==
  /\ now < MaxTime
  /\ dies # None => now < dies
  /\ TelemetryIsBehind => now < changed + Lag
  /\ Tracked => polled
  /\ now' = now + 1 /\ polled' = FALSE
  /\ UNCHANGED <<car, changed, dies, plugged, tele, memory, policy, dirty, stored>>

\* Somebody else, or the car's own schedule, starts or ends a charge.  Telemetry
\* that still shows the previous one counts as telemetry of the new one.
OtherStarts ==
  /\ "outside_charge" \in Happens /\ car = None /\ plugged
  /\ car' = "external" /\ Changes
  /\ tele' = IF tele.by = None THEN tele ELSE [tele EXCEPT !.by = "external"]
  /\ UNCHANGED <<now, dies, plugged, memory, policy, dirty, stored, polled>>

OtherStops ==
  /\ car = "external"
  /\ car' = None /\ Changes
  /\ UNCHANGED <<now, dies, plugged, tele, memory, policy, dirty, stored, polled>>

\* An accepted stop takes effect.
StopLands ==
  /\ dies # None
  /\ dies' = None /\ car' = None
  /\ Changes
  /\ UNCHANGED <<now, plugged, tele, memory, policy, dirty, stored, polled>>

Unplugged ==
  /\ plugged /\ car # "powersync"
  /\ plugged' = FALSE /\ car' = None /\ Changes
  /\ UNCHANGED <<now, dies, tele, memory, policy, dirty, stored, polled>>

PluggedIn ==
  /\ ~plugged
  /\ plugged' = TRUE /\ Changes
  /\ UNCHANGED <<now, car, dies, tele, memory, policy, dirty, stored, polled>>

\* Telemetry catches up.  Its time is that of the last update of the charging
\* state, which an unchanged state need not renew.
Report ==
  \E at \in {now} \cup (IF TelemetryIsBehind THEN {} ELSE {tele.at}) :
    /\ tele' = [by |-> car, at |-> at, plugged |-> plugged]
    /\ tele' # tele
    /\ UNCHANGED <<now, car, changed, dies, plugged, memory, policy, dirty, stored, polled>>

-----------------------------------------------------------------------------
(* PowerSync's decisions                                                    *)

\* Save: every change of the runtime state schedules a save.
Save == dirty' = TRUE

\* A release remembers the command that ended the lease.
Release(name) == lease' = None /\ cmd' = Command(name, TRUE) /\ Save

Discarded == [lease |-> None, at |-> 0]

\* Mutant: the age limit is in the wrong unit.
EvidenceIsNew == IsPowersync(recovered.lease) /\ now = recovered.at

EvidenceIsFresh == IsPowersync(recovered.lease) /\ now - recovered.at <= MaxAge

StopIsOpen(c) == c # None /\ c.ok /\ c.name \in {"stop", "stop_observed"} /\ ~c.settled

\* Mutant: the caller's permission covers every automated owner.
CanTakeOverAllowed(existing, mode, allow) ==
  existing = mode \/ mode = "manual" \/ (existing # "manual" /\ allow)

\* can_take_over_ev_ownership: the user's start always may; an automated mode
\* may replace a solar session, and only when its caller allows it.
CanTakeOver(existing, mode, allow) ==
  \/ existing = mode
  \/ mode = "manual"
  \/ existing # "manual" /\ allow /\ existing = "solar_surplus"

\* can_claim_ev_ownership under the override policy gives external leases no
\* say, except a provisional one.
MayClaim(mode, allow) ==
  lease # None =>
    IF IsExternal(lease) /\ policy = "override" THEN ~Settling(lease)
    ELSE CanTakeOver(lease.mode, mode, allow)

HoldBlocks(mode) == mode = "solar_surplus" /\ held > now

\* A start that claims the loadpoint; the car charges for PowerSync.
Start(mode, allow) ==
  /\ plugged /\ ~HoldBlocks(mode) /\ MayClaim(mode, allow)
  /\ lease' = Lease(mode, 0, 0) /\ cmd' = Command("start", TRUE)
  /\ recovered' = Discarded /\ Save
  /\ car' = "powersync" /\ dies' = None
  /\ Changes
  /\ owned' = MaxTime + MaxAge
  /\ UNCHANGED <<now, plugged, tele, held, idle, calling, policy, disk,
                 restarts, promised, polled>>

\* A start that is blocked, or that the charger refuses after a claimable
\* external lease was given up, records the failed command.
StartRefused(mode, allow) ==
  /\ "refused_start" \in Happens
  /\ lease' = IF /\ ~HoldBlocks(mode) /\ IsExternal(lease)
                 /\ policy = "override" /\ ~Settling(lease)
              THEN None ELSE lease
  /\ cmd' = Command("start", FALSE) /\ Save
  /\ UNCHANGED <<env, held, recovered, idle, calling, policy, stored, polled>>

\* A stop ends the session first: the release records a stop that has not
\* succeeded yet, and only the answer of the car makes it a stop.
StopBegins ==
  /\ IsPowersync(lease)
  /\ lease' = None /\ cmd' = Command("stop", FALSE) /\ Save
  /\ calling' = TRUE
  /\ UNCHANGED <<env, held, recovered, idle, policy, stored, polled>>

StopEnds(ok) ==
  /\ calling /\ calling' = FALSE
  /\ cmd' = Command("stop", ok) /\ Save
  /\ dies' = IF ok /\ car = "powersync" THEN now + Latency ELSE dies
  /\ car' = IF ~ok /\ car = "powersync" THEN "external" ELSE car
  /\ owned' = IF ok THEN owned ELSE 0
  /\ UNCHANGED <<now, changed, plugged, tele, lease, held, recovered, idle,
                 policy, disk, restarts, promised, polled>>

\* The user's stop: the car is stopped, the session is released without a stop
\* command, and automated starts are held back.
UserStops ==
  /\ "user_stop" \in Happens /\ car # None
  /\ IF IsPowersync(lease) THEN lease' = None /\ cmd' = Command("other", TRUE)
                           ELSE UNCHANGED <<lease, cmd>>
  /\ held' = now + Hold /\ recovered' = Discarded /\ Save
  /\ dies' = now + Latency
  /\ UNCHANGED <<now, car, changed, plugged, tele, idle, calling, policy, stored,
                 polled>>

\* ensure_external_ev_ownership, for telemetry of a charge from the time seen
\* (None: the caller has no time).
EnsureExternal(seen) ==
  \/ /\ IsPowersync(lease) \/ (Settling(lease) /\ now < lease.until)
     /\ UNCHANGED <<lease, cmd, dirty>>
  \/ Settling(lease) /\ now >= lease.until /\ policy = "override" /\ Release("other")
  \/ /\ Settling(lease) /\ now >= lease.until /\ policy = "yield"
     /\ lease' = External /\ Save /\ UNCHANGED cmd
  \/ Sticky(lease) /\ policy = "override" /\ Release("other")
  \/ Sticky(lease) /\ policy = "yield" /\ UNCHANGED <<lease, cmd, dirty>>
  \/ lease = None /\ EvidenceIsFresh /\ UNCHANGED <<lease, cmd, dirty>>
  \/ /\ lease = None /\ ~EvidenceIsFresh
     /\ LET settles == /\ StopIsOpen(cmd) /\ now - cmd.at <= Confirm
                       /\ seen # None => seen > cmd.at
            lags == /\ cmd # None /\ cmd.name # "external" /\ now - cmd.at <= Settle
                    /\ seen # None => seen <= cmd.at
        IN \/ /\ settles
              /\ lease' = Lease("external", cmd.at, cmd.at + Confirm)
              /\ Save /\ UNCHANGED cmd
           \/ ~settles /\ (lags \/ policy = "override") /\ UNCHANGED <<lease, cmd, dirty>>
           \/ /\ ~settles /\ ~lags /\ policy = "yield"
              /\ lease' = External /\ Save /\ UNCHANGED cmd

\* A claim supersedes restart evidence.
Superseded == IF lease = None /\ lease' # None THEN Discarded ELSE recovered

\* The tracker polls a car that charges; the reconciliation before each
\* automation round does the same and counts no idle polls.
TrackerSeesCharging ==
  /\ Tracked /\ tele.by # None
  /\ EnsureExternal(tele.at) /\ recovered' = Superseded
  /\ idle' \in {0, idle} /\ polled' = TRUE
  /\ UNCHANGED <<env, held, calling, policy, stored>>

\* An automated mode of the planner meets a charge on a loadpoint that the
\* tracker does not follow.
PlannerSeesCharging ==
  /\ ~Tracked /\ tele.by # None
  /\ EnsureExternal(None) /\ recovered' = Superseded
  /\ UNCHANGED <<env, held, idle, calling, policy, stored, polled>>

\* Mutant: the confirmation trusts the last command instead of the lease.
ConfirmLastStop ==
  IF Settling(lease) /\ StopIsOpen(cmd) /\ tele.at > lease.stopAt
  THEN Release("stop_observed") ELSE UNCHANGED <<lease, cmd, dirty>>

\* confirm_powersync_ev_stop, once the car has been idle for two polls.
ConfirmStop ==
  IF Settling(lease) /\ tele.at > lease.stopAt THEN Release("stop_observed")
  ELSE IF ~IsExternal(lease) /\ StopIsOpen(cmd) /\ tele.at > cmd.at
       THEN cmd' = [cmd EXCEPT !.settled = TRUE] /\ Save /\ UNCHANGED lease
       ELSE UNCHANGED <<lease, cmd, dirty>>

\* A poll of a car that does not charge: an unplugged one frees the loadpoint,
\* and idle polls count while a stop settles or a session is observed.
IdlePoll(observed, after) ==
  /\ Tracked /\ tele.by = None
  /\ IF ~tele.plugged /\ IsExternal(lease)
     THEN Release("external") /\ idle' = IF observed /\ idle = 0 THEN 1 ELSE after
     ELSE IF ~observed /\ ~Settling(lease)
     THEN idle' = 0 /\ UNCHANGED <<lease, cmd, dirty>>
     ELSE IF idle = 0 THEN idle' = 1 /\ UNCHANGED <<lease, cmd, dirty>>
     ELSE ConfirmStop /\ idle' = after
  /\ polled' = TRUE
  /\ UNCHANGED <<env, held, recovered, calling, policy, stored>>

TrackerSeesIdle(observed) == IdlePoll(observed, 0)

\* Mutant: only the policy is saved.
SetPolicyOnly ==
  /\ policy' \in Policies /\ policy' # policy
  /\ UNCHANGED <<env, memory, dirty, stored, polled>>

\* The user saves the vehicle's settings: override gives up external leases.
SetPolicy ==
  /\ policy' \in Policies /\ policy' # policy
  /\ IF policy' = "override" /\ IsExternal(lease) THEN Release("other")
     ELSE UNCHANGED <<lease, cmd, dirty>>
  /\ UNCHANGED <<env, held, recovered, idle, calling, stored, polled>>

\* Saves after the last restart of the instance are left out.
Persist ==
  /\ restarts < MaxRestarts
  /\ dirty /\ dirty' = FALSE
  /\ disk' = [lease |-> lease, cmd |-> cmd, held |-> held, at |-> now]
  /\ promised' = held
  /\ UNCHANGED <<env, memory, policy, restarts, owned, polled>>

\* Home Assistant restarts: leases are only evidence, and the recovery replaces
\* the command of every vehicle that had one.
RestartWith(hold) ==
  /\ restarts < MaxRestarts /\ restarts' = restarts + 1
  /\ lease' = None /\ recovered' = [lease |-> disk.lease, at |-> disk.at]
  /\ cmd' = IF disk.lease # None THEN Command("other", TRUE) ELSE disk.cmd
  /\ held' = hold /\ idle' = 0 /\ calling' = FALSE
  /\ dirty' = (disk.cmd # None \/ disk.lease # None)
  /\ owned' = IF calling THEN 0
              ELSE IF owned < MaxTime + MaxAge \/ (~dirty /\ lease = None) THEN owned
              ELSE IF IsPowersync(disk.lease) THEN disk.at + MaxAge ELSE 0
  /\ UNCHANGED <<env, policy, disk, promised, polled>>

\* Mutant: the holds are not restored.
RestartWithoutHold == RestartWith(0)

Restart == RestartWith(disk.held)
-----------------------------------------------------------------------------
\* Only one call at a time; "slow_stop" lets others run while a stop waits.
Free == calling => "slow_stop" \in Happens

Next ==
  \/ \E ok \in BOOLEAN : StopEnds(ok)
  \/ Free /\ Tick
  \/ Free /\ OtherStarts
  \/ Free /\ OtherStops
  \/ Free /\ StopLands
  \/ Free /\ Unplugged
  \/ Free /\ PluggedIn
  \/ Free /\ Report
  \/ \E mode \in Modes, allow \in BOOLEAN : ~calling /\ Start(mode, allow)
  \/ \E mode \in Modes, allow \in BOOLEAN : ~calling /\ StartRefused(mode, allow)
  \/ ~calling /\ StopBegins
  \/ ~calling /\ UserStops
  \/ Free /\ TrackerSeesCharging
  \/ Free /\ PlannerSeesCharging
  \/ \E observed \in BOOLEAN : Free /\ TrackerSeesIdle(observed)
  \/ Free /\ SetPolicy
  \/ Free /\ Persist
  \/ Free /\ Restart

Spec == Init /\ [][Next]_vars
-----------------------------------------------------------------------------
(* Properties                                                               *)

\* Telemetry of a charge PowerSync started, and has not given up, never hands
\* the loadpoint to a lasting external lease: not while a stop settles, not
\* after a restart whose evidence is still fresh.  (ensure_external_ev_ownership)
OwnChargingStaysOwn ==
  [][Sticky(lease') /\ ~Sticky(lease) /\ tele.by = "powersync" => now > owned]_vars

\* Under the yield policy an external lease lasts until the cable is seen
\* unplugged, the user starts a charge, or a restart: no automated start, no
\* refused start, confirmation or poll ends it.
ExternalLasts ==
  [][Sticky(lease) /\ policy = "yield" /\ policy' = "yield" /\ restarts' = restarts
     => Sticky(lease') \/ lease' = Lease("manual", 0, 0) \/ ~tele.plugged]_vars

\* Under the override policy no lasting external lease stands in PowerSync's
\* way, whatever became of provisional leases and policy changes.
OverrideKeepsControl == policy = "override" => ~Sticky(lease)

\* A provisional lease is resolved within two polls of the end of its window, so
\* that one stop cannot block the loadpoint for the rest of the plug session.
SettlingLapses == Settling(lease) => now <= lease.until + 2

\* Once a user's stop hold is on disk, no solar start claims the loadpoint
\* before it ends, also after restarts.  (manual_stop_hold_reason)
SavedHoldHolds ==
  [][/\ cmd' # cmd /\ cmd' = [Command("start", TRUE) EXCEPT !.at = now]
     /\ lease' # None /\ lease'.mode = "solar_surplus"
     => now >= promised]_vars

\* What a test says of an external start after a confirmed stop: its lease is
\* not provisional (test_external_start_after_confirmed_powersync_stop_is_sticky).
ConfirmedStopIsOver ==
  [][lease = None /\ Settling(lease') /\ tele.by = "external"
     => cmd.name # "stop_observed"]_vars
=============================================================================
