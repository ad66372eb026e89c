----------------------------- MODULE EvSessions -----------------------------
(***************************************************************************)
(* The dynamic EV charging sessions of automations/actions.py at one       *)
(* loadpoint: the shared start path, the stop path, the Solar Surplus      *)
(* toggle and the restoration of a manual session at start-up, all running *)
(* as tasks of one asyncio loop, with the charging-history manager whose   *)
(* lock they queue on.                                                     *)
(*                                                                         *)
(* An operation is a task; an action is what it does between two awaits.   *)
(* Awaits that never suspend in the code (registry and state look-ups) do  *)
(* not split an action.  A session object and an entry's dictionary of     *)
(* sessions are compared by identity in the code; both are named here by   *)
(* the operation that created them.  Not modelled: rates and charge        *)
(* limits, the choice among vehicles, and the chargers themselves.         *)
(***************************************************************************)
EXTENDS Naturals, Sequences

CONSTANTS
  Starts,      \* calls of _action_start_ev_charging_dynamic
  Stops,       \* calls of _action_stop_ev_charging_dynamic
  Toggles,     \* calls of stop_solar_surplus_ev_charging
  Restores,    \* calls of record_manual_ev_charging_session
  Others,      \* history writes for vehicles without a dynamic session
  Modes,       \* owner modes that starts ask for
  None         \* no session, no dictionary, no lease, nobody

Solar == {"solar_surplus", "smart_schedule_solar_surplus"}

ASSUME ModesAreKnown ==
  Modes \subseteq Solar \cup {"smart_schedule", "scheduled", "boost", "manual"}

Ops == Starts \cup Stops \cup Toggles \cup Restores \cup Others

ASSUME OpsAreApart ==
  /\ Starts \cap (Stops \cup Toggles \cup Restores \cup Others) = {}
  /\ Stops \cap (Toggles \cup Restores \cup Others) = {}
  /\ Toggles \cap (Restores \cup Others) = {} /\ Restores \cap Others = {}
  /\ None \notin Ops \cup Modes \cup {"manual"}

VARIABLES
  op,          \* op[o]: where task o is, its arguments and local variables
               \* (saw, the owner it looked up, is only for the properties)
  startLock,   \* the task holding _start_dynamic_lock
  entry,       \* _dynamic_ev_state[entry_id]: the dictionary in use
  slot,        \* slot[d]: the session stored in dictionary d
  owner,       \* owner[s]: the owner mode in session s's parameters
  named,       \* sessions whose session_id has been set
  timers,      \* sessions whose periodic update timer is running
  lease,       \* owner mode of the loadpoint's ownership lease
  queue,       \* the tasks holding (first) and awaiting the history lock
  tracked,     \* whether the history has an active entry for the vehicle
  loaded       \* whether the history file has been read

vars == <<op, startLock, entry, slot, owner, named, timers, lease, queue,
          tracked, loaded>>
history == <<queue, tracked, loaded>>

\* What each call is made with: the owner mode and takeover permission of a
\* start, and whether a stop is to command the charger.
Arguments(o) ==
  [pc : {"idle"}, dict : {None}, sess : {None}, saw : {None},
   mode : IF o \in Starts THEN Modes
          ELSE IF o \in Restores THEN {"manual"} ELSE {None},
   takeover : IF o \in Starts THEN BOOLEAN ELSE {FALSE},
   stop : IF o \in Starts \cup Toggles THEN {TRUE}
          ELSE IF o \in Stops THEN BOOLEAN ELSE {FALSE}]

Owners == Modes \cup {"manual", None}

Tasks ==
  [pc : {"idle", "checked", "decided", "ending", "stopping", "starting",
         "tracking", "done", "failed"},
   mode : Owners, takeover : BOOLEAN, dict : Ops \cup {None},
   sess : Ops \cup {None}, saw : Owners, stop : BOOLEAN]

TypeOK ==
  /\ op \in [Ops -> Tasks]
  /\ startLock \in Starts \cup Toggles \cup {None}
  /\ entry \in Ops \cup {None}
  /\ slot \in [Ops -> Ops \cup {None}]
  /\ owner \in [Ops -> Owners]
  /\ named \subseteq Ops /\ timers \subseteq Ops
  /\ lease \in Owners
  /\ queue \in Seq(Ops) /\ tracked \in BOOLEAN /\ loaded \in BOOLEAN

\* A restart has cleared every lease and session; a finite manual session the
\* snapshot holds may be waiting to be restored.
Init ==
  /\ op \in [Ops -> UNION {Arguments(o) : o \in Ops}]
  /\ \A o \in Ops : op[o] \in Arguments(o)
  /\ startLock = None /\ entry = None /\ lease = None
  /\ slot = [o \in Ops |-> None] /\ owner = [o \in Ops |-> None]
  /\ named = {} /\ timers = {} /\ queue = <<>>
  /\ tracked = FALSE /\ loaded = FALSE

-----------------------------------------------------------------------------
(* Ownership rules (ev_ownership.py)                                       *)

OwnerFamily(m) ==
  CASE m = "smart_schedule_solar_surplus" -> "smart_schedule"
    [] OTHER -> m

CanTakeOver(existing, requested, takeover) ==
  \/ OwnerFamily(existing) = OwnerFamily(requested)
  \/ requested \in {"manual", "boost"}
  \/ existing # "manual" /\ takeover /\ existing \in Solar

MayClaim(o) == lease = None \/ CanTakeOver(lease, op[o].mode, op[o].takeover)

DynamicMode(m) == IF m \in Solar THEN "solar_surplus" ELSE "battery_target"

Stored(d) == IF d = None THEN None ELSE slot[d]
Session == Stored(entry)

-----------------------------------------------------------------------------
(* The history lock.  asyncio.Lock is first come first served, and its     *)
(* holder awaits the disk only when it has something to read or write; a   *)
(* holder that has not is already runnable, and runs before any device,    *)
(* timer or file can answer.                                               *)

UsesDisk(o) ==
  \/ o \in Others
  \/ op[o].pc = "ending" /\ tracked
  \/ op[o].pc = "tracking" /\ (tracked \/ ~loaded)

Runnable == queue # <<>> /\ ~UsesDisk(Head(queue))

-----------------------------------------------------------------------------
(* _action_stop_ev_charging_dynamic: the part every caller shares          *)

\* Mutant: the toggle takes no lock.
ToggleWithoutLock(o, pc) == startLock

\* The toggle holds the start lock around its stop.
ToggleLock(o, pc) ==
  IF o \notin Toggles THEN startLock ELSE IF pc = "done" THEN None ELSE o

\* The teardown is over; ended says whether it ended a session, left is the
\* entry's dictionary now.  A physical stop, if one is commanded, is awaited
\* next; without one the caller goes on in the same step.
TornDown(o, ended, left, waiting) ==
  LET pc == IF ended /\ op[o].stop THEN "stopping"
            ELSE IF o \in Starts THEN "starting"
            ELSE IF o \in Restores THEN "tracking" ELSE "done"
  IN
  /\ op' = [op EXCEPT ![o].pc = pc]
  /\ entry' = IF o \in Restores /\ left = None THEN o ELSE left
  /\ queue' = IF o \in Restores THEN Append(waiting, o) ELSE waiting
  /\ lease' = IF ended \/ (o \in Toggles /\ lease = "solar_surplus")
              THEN None ELSE lease
  /\ startLock' = ToggleLock(o, pc)

\* Whatever dictionary the entry has is dropped when the one this task looked
\* the session up in holds nothing.
DropEmptied(d) == IF Stored(d) = None THEN None ELSE entry

\* Mutant: the session's timer is not cancelled.
LookUpKeepingTimer(o, wanted) ==
  LET s == IF wanted \in {None, Session} THEN Session ELSE None IN
  /\ IF s \in named
     THEN /\ op' = [op EXCEPT ![o].pc = "ending", ![o].dict = entry,
                              ![o].sess = s, ![o].saw = owner[s]]
          /\ queue' = Append(queue, o)
          /\ startLock' = ToggleLock(o, "ending")
          /\ UNCHANGED <<entry, slot, lease>>
     ELSE IF s = None
     THEN TornDown(o, FALSE, DropEmptied(entry), queue) /\ UNCHANGED slot
     ELSE /\ TornDown(o, TRUE, None, queue)
          /\ slot' = [slot EXCEPT ![entry] = None]
  /\ UNCHANGED <<owner, named, timers, tracked, loaded>>

\* The session wanted (None: whichever there is) is looked up and its timer
\* cancelled; a session the history knows is ended there first.
LookUp(o, wanted) ==
  LET s == IF wanted \in {None, Session} THEN Session ELSE None IN
  /\ timers' = timers \ {s}
  /\ IF s \in named
     THEN /\ op' = [op EXCEPT ![o].pc = "ending", ![o].dict = entry,
                              ![o].sess = s, ![o].saw = owner[s]]
          /\ queue' = Append(queue, o)
          /\ startLock' = ToggleLock(o, "ending")
          /\ UNCHANGED <<entry, slot, lease>>
     ELSE IF s = None
     THEN TornDown(o, FALSE, DropEmptied(entry), queue) /\ UNCHANGED slot
     ELSE /\ TornDown(o, TRUE, None, queue)
          /\ slot' = [slot EXCEPT ![entry] = None]
  /\ UNCHANGED <<owner, named, tracked, loaded>>

\* Back from the history: a session that was replaced meanwhile is left.
Ended(o) ==
  LET d == op[o].dict
      ended == slot[d] = op[o].sess
  IN
  /\ slot' = IF ended THEN [slot EXCEPT ![d] = None] ELSE slot
  /\ TornDown(o, ended, IF ended THEN None ELSE DropEmptied(d), Tail(queue))
  /\ tracked' = FALSE
  /\ UNCHANGED <<owner, named, timers, loaded>>

\* The charger answered the stop command.
StopConfirmed(o) ==
  /\ ~Runnable /\ op[o].pc = "stopping"
  /\ TornDown(o, FALSE, entry, queue)
  /\ UNCHANGED <<slot, owner, named, timers, tracked, loaded>>

-----------------------------------------------------------------------------
(* Callers of the stop path                                                *)

\* A periodic update or an unplug probe decides to stop the session it sees;
\* it awaits more look-ups before it calls the stop path.
StopDecided(o) ==
  /\ ~Runnable /\ o \in Stops /\ op[o].pc = "idle" /\ Session # None
  /\ op' = [op EXCEPT ![o].pc = "decided", ![o].sess = Session]
  /\ UNCHANGED <<startLock, entry, slot, owner, named, timers, lease, history>>

\* A stop of whatever session there is (a service call, an automation, the end
\* of a time window), or only of the one that was decided on.
StopBegins(o) ==
  /\ ~Runnable /\ o \in Stops /\ op[o].pc \in {"idle", "decided"}
  /\ LookUp(o, op[o].sess)

\* The Solar Surplus toggle is switched off: with the start lock held, only a
\* Solar Surplus session is stopped.
ToggleOff(o) ==
  /\ ~Runnable /\ o \in Toggles /\ op[o].pc = "idle" /\ startLock = None
  /\ IF Session # None /\ owner[Session] = "solar_surplus"
     THEN LookUp(o, None)
     ELSE /\ TornDown(o, FALSE, entry, queue)
          /\ UNCHANGED <<slot, owner, named, timers, tracked, loaded>>

-----------------------------------------------------------------------------
(* _action_start_ev_charging_dynamic                                       *)

SessionMode(s) == IF s \in Restores THEN "manual" ELSE DynamicMode(owner[s])

Refused(o) ==
  \/ ~MayClaim(o)
  \/ /\ Session # None
     /\ ~CanTakeOver(owner[Session], op[o].mode, op[o].takeover)

\* With the lock: refused, handed the running session in place when that is of
\* the same dynamic mode, or allowed to go on.
StartChecks(o) ==
  /\ ~Runnable /\ o \in Starts /\ op[o].pc = "idle" /\ startLock = None
  /\ IF Refused(o)
     THEN /\ op' = [op EXCEPT ![o].pc = "failed"]
          /\ UNCHANGED <<startLock, owner, lease>>
     ELSE IF Session # None /\ SessionMode(Session) = DynamicMode(op[o].mode)
     THEN /\ op' = [op EXCEPT ![o].pc = "done"]
          /\ owner' = [owner EXCEPT ![Session] = op[o].mode]
          /\ lease' = op[o].mode
          /\ UNCHANGED startLock
     ELSE /\ op' = [op EXCEPT ![o].pc = "checked"]
          /\ startLock' = o
          /\ UNCHANGED <<owner, lease>>
  /\ UNCHANGED <<entry, slot, named, timers, history>>

\* The mains headroom was granted: the session of another mode is torn down.
StartTearsDown(o) ==
  /\ ~Runnable /\ o \in Starts /\ op[o].pc = "checked"
  /\ LookUp(o, None)

\* No headroom, a refused or unconfirmed start, an exception.
StartGivesUp(o) ==
  /\ ~Runnable /\ o \in Starts /\ op[o].pc \in {"checked", "starting"}
  /\ op' = [op EXCEPT ![o].pc = "failed"]
  /\ startLock' = None
  /\ UNCHANGED <<entry, slot, owner, named, timers, lease, history>>

\* The charger was seen to charge.  Ownership is checked once more, then the
\* session and its timer are created and its history entry is asked for.
StartConfirmed(o) ==
  /\ ~Runnable /\ o \in Starts /\ op[o].pc = "starting"
  /\ MayClaim(o)
  /\ LET d == IF entry = None THEN o ELSE entry IN
       /\ entry' = d
       /\ slot' = [slot EXCEPT ![d] = o]
  /\ owner' = [owner EXCEPT ![o] = op[o].mode]
  /\ timers' = timers \cup {o}
  /\ op' = [op EXCEPT ![o].pc = "tracking"]
  /\ queue' = Append(queue, o)
  /\ UNCHANGED <<startLock, named, lease, tracked, loaded>>

\* Mutants: the lease is claimed although the session is gone; a failing start
\* keeps the lock.
StartTrackedWithoutSession(o) ==
  /\ IF Session # None
     THEN /\ named' = named \cup {Session}
          /\ lease' = op[o].mode
          /\ op' = [op EXCEPT ![o].pc = "done"]
     ELSE /\ op' = [op EXCEPT ![o].pc = "done"]
          /\ lease' = op[o].mode
          /\ UNCHANGED named
  /\ startLock' = None
  /\ UNCHANGED <<entry, slot, owner, timers>>

StartTrackedKeepingLock(o) ==
  /\ IF Session # None
     THEN /\ named' = named \cup {Session}
          /\ lease' = op[o].mode
          /\ op' = [op EXCEPT ![o].pc = "done"]
          /\ startLock' = None
     ELSE /\ op' = [op EXCEPT ![o].pc = "failed"]
          /\ UNCHANGED <<startLock, named, lease>>
  /\ UNCHANGED <<entry, slot, owner, timers>>

\* The history entry exists.  Its id goes into whatever session is stored now,
\* and the lease is claimed without asking again; with no session stored the
\* start fails on the missing key.
StartTracked(o) ==
  /\ IF Session # None
     THEN /\ named' = named \cup {Session}
          /\ lease' = op[o].mode
          /\ op' = [op EXCEPT ![o].pc = "done"]
     ELSE /\ op' = [op EXCEPT ![o].pc = "failed"]
          /\ UNCHANGED <<named, lease>>
  /\ startLock' = None
  /\ UNCHANGED <<entry, slot, owner, timers>>

-----------------------------------------------------------------------------
(* record_manual_ev_charging_session                                       *)

\* Whatever session there is goes, without a command to the charger, and the
\* history entry is asked for.
RestoreBegins(o) ==
  /\ ~Runnable /\ o \in Restores /\ op[o].pc = "idle"
  /\ LookUp(o, None)

\* The manual session is stored, its lease claimed and its timer created; with
\* the dictionary gone it fails on the missing key.
RestoreTracked(o) ==
  /\ IF entry # None
     THEN /\ slot' = [slot EXCEPT ![entry] = o]
          /\ owner' = [owner EXCEPT ![o] = "manual"]
          /\ named' = named \cup {o}
          /\ timers' = timers \cup {o}
          /\ lease' = "manual"
          /\ op' = [op EXCEPT ![o].pc = "done"]
     ELSE /\ op' = [op EXCEPT ![o].pc = "failed"]
          /\ UNCHANGED <<slot, owner, named, timers, lease>>
  /\ UNCHANGED <<entry, startLock>>

-----------------------------------------------------------------------------
(* The charging history (ev_charging_session.py)                           *)

\* The OCPP monitor, the observed-session tracker or the clean-up of stale
\* entries writes the history of another vehicle.
OtherQueues(o) ==
  /\ ~Runnable /\ o \in Others /\ op[o].pc = "idle"
  /\ op' = [op EXCEPT ![o].pc = "ending"]
  /\ queue' = Append(queue, o)
  /\ UNCHANGED <<startLock, entry, slot, owner, named, timers, lease, tracked,
                 loaded>>

OtherEnded(o) ==
  /\ op' = [op EXCEPT ![o].pc = "done"]
  /\ queue' = Tail(queue)
  /\ UNCHANGED <<startLock, entry, slot, owner, named, timers, lease, tracked,
                 loaded>>

\* The holder of the history lock is done with it and goes on.
HistoryAnswers ==
  /\ queue # <<>>
  /\ LET o == Head(queue) IN
     IF o \in Others THEN OtherEnded(o)
     ELSE IF op[o].pc = "ending" THEN Ended(o)
     ELSE /\ IF o \in Starts THEN StartTracked(o) ELSE RestoreTracked(o)
          /\ queue' = Tail(queue)
          /\ tracked' = TRUE
          /\ loaded' = TRUE

-----------------------------------------------------------------------------
OpStep(o) ==
  \/ StopConfirmed(o) \/ StopDecided(o) \/ StopBegins(o) \/ ToggleOff(o)
  \/ StartChecks(o) \/ StartTearsDown(o) \/ StartGivesUp(o)
  \/ StartConfirmed(o) \/ RestoreBegins(o) \/ OtherQueues(o)

Next == HistoryAnswers \/ \E o \in Ops : OpStep(o)

Spec == Init /\ [][Next]_vars

\* Automated starts are looked at apart from the restoration of a manual session
\* and from history writers that have no session here: together they break what
\* lease, session and timer are to each other.
StartsWait == \A o \in Starts : op[o].pc = "idle"
RestWaits == \A o \in Restores \cup Others : op[o].pc = "idle"
Apart == StartsWait \/ RestWaits

ApartSafely == Init /\ [][Next /\ Apart']_vars

\* Files and chargers answer (every call has a timeout), and a task that was
\* given a start or a stop runs on.
FairSpec ==
  /\ Spec
  /\ WF_vars(HistoryAnswers)
  /\ \A o \in Ops :
       WF_vars(StopConfirmed(o) \/ StartTearsDown(o) \/ StartGivesUp(o)
               \/ StartConfirmed(o))
  /\ \A o \in Ops : WF_vars(StopBegins(o) /\ op[o].pc = "decided")

-----------------------------------------------------------------------------
(* Properties                                                              *)

Settled == \A o \in Ops : op[o].pc \in {"idle", "decided", "done", "failed"}

\* The lease belongs to the stored session and names its owner; only a start
\* that still waits for its history entry has a session without a lease.
LeaseIsSessions ==
  IF Session = None THEN lease = None
  ELSE \/ lease = owner[Session]
       \/ lease = None /\ op[Session].pc = "tracking"

\* No two update loops command the same car, and the loop that runs is the
\* stored session's.
OneUpdateLoop == timers \subseteq {Session}

\* A stop whose session was replaced while it waited leaves the replacement in
\* the table.
ReplacementIsLeft ==
  [][\A o \in Ops :
       op[o].pc = "ending" /\ op'[o].pc # "ending" /\ Session # op[o].sess
         => Session' = Session]_vars

\* Switching Solar Surplus off takes no other owner's lease away.
ToggleSparesOthers ==
  [][\A o \in Toggles :
       op[o].pc # op'[o].pc /\ lease # None /\ lease' = None
         => lease = "solar_surplus"]_vars

\* The start lock is always let go again.
LockIsFreed == []<>(startLock = None)

\* An automated start never takes the lease of a restored manual session.
ManualKeepsLease == Session \in Restores => lease = "manual"

\* A manual start that reported success is not undone by a stop that was under
\* way before it, for the automated session it took over.
ManualStartStands ==
  [][\A o \in Stops :
       /\ op[o].pc = "ending" /\ op'[o].pc # "ending"
       /\ Session = op[o].sess /\ Session' = None
       => (owner[Session] = "manual" => op[o].saw = "manual")]_vars
=============================================================================
