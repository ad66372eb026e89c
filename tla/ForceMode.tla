------------------------------ MODULE ForceMode ------------------------------
(***************************************************************************)
(* The user-facing force modes of PowerSync: force charge, force           *)
(* discharge, hold SoC and self consumption, with their expiry timers, the *)
(* generation counter that invalidates old callbacks, the record kept on   *)
(* disk and the recovery that runs after a restart.  The handlers are the  *)
(* service handlers of async_setup_entry; the brand branch is FoxESS.      *)
(*                                                                         *)
(* Home Assistant runs on one event loop, so a handler is a sequence of    *)
(* atomic segments cut at its awaits.  An action is one segment: the part  *)
(* before the inverter write (issue), the part after it (a write           *)
(* completes), and the part after the store was read (a save).             *)
(*                                                                         *)
(* Clock times are abstracted: a pending timer may become due at any       *)
(* moment, and after a restart the stored session may or may not have      *)
(* expired.  A call that a gate turns away before it changes state         *)
(* (monitoring mode, demand protection, the network envelope) is no step.  *)
(***************************************************************************)
EXTENDS Naturals, SequencesExt

CONSTANTS
    MaxGen,       \* bound: no user command once the generation reaches it
    MaxInFlight,  \* bound: a user command finds fewer writes, and saves, queued
    Commands,     \* the user commands of this instance
    Outcomes,     \* what an inverter write may do: "ok", "refused", "raised"
    InOrder,      \* TRUE: the Modbus lock is FIFO; FALSE: cloud calls overlap
    CanRestart    \* whether Home Assistant may restart

ForceModes == {"charge", "discharge"}
Modes      == ForceModes \cup {"hold", "self"}

ASSUME ConstantsAssumption ==
    /\ MaxGen \in Nat
    /\ MaxInFlight \in Nat
    /\ Commands \subseteq Modes \cup {"restore"}
    /\ Outcomes \subseteq {"ok", "refused", "raised"}
    /\ InOrder \in BOOLEAN
    /\ CanRestart \in BOOLEAN

VARIABLES
    active,   \* *_state["active"] of the four modes
    timed,    \* *_state["expires_at"] is set
    armed,    \* *_state["cancel_expiry_timer"]: the timer it would cancel
    loose,    \* due or orphaned callbacks that no cancel reaches any more
    gen,      \* _command_generation
    writes,   \* handlers waiting for an inverter write, in call order
    saves,    \* handlers waiting for the store, in call order
    disk,     \* force_mode_state in the store
    hw,       \* what the inverter was last told
    up,       \* restore_force_mode_from_persistence has started
    want      \* history: what was asked for last, by a command, by self consumption
              \* as it engages, or by a live expiry

memory == <<active, timed, armed, loose, gen, writes, saves, want>>
vars   == <<memory, disk, hw, up>>

NoTimer   == [gen |-> 0, restored |-> FALSE, retry |-> 4]
NoTimers  == [m \in Modes |-> NoTimer]
NoSession == [mode |-> "none", timed |-> FALSE]
MaxRetries == 3

Timer   == {NoTimer} \cup [gen : Nat, restored : BOOLEAN, retry : 0..MaxRetries]
Due     == [mode : Modes, gen : Nat, restored : BOOLEAN, retry : 0..MaxRetries]
Write   == [op : {"force"}, mode : ForceModes, gen : Nat,
            next : {"none", "replay"}, retry : {0}]
           \cup [op : {"hold", "self", "restore"}, mode : Modes \cup {"none"}, gen : Nat,
                 next : {"none", "self", "cleanup"}, retry : 0..MaxRetries]
Save    == [then : {"replay"}, mode : ForceModes, retry : {0}]
           \cup [then : {"none", "self", "cleanup", "selfwrite", "clear"},
                 mode : Modes \cup {"none"}, retry : 0..MaxRetries]
Session == [mode : Modes \cup {"none"}, timed : BOOLEAN]

Other(m) == IF m = "charge" THEN "discharge" ELSE "charge"
Fresh(g) == [gen |-> g, restored |-> FALSE, retry |-> 0]
Callback(m, t) == [mode |-> m, gen |-> t.gen, restored |-> t.restored, retry |-> t.retry]
Saving(then, m, r) == [then |-> then, mode |-> m, retry |-> r]

\* Faulty variant: the chain without its hold SoC branch (OB-5).
SnapshotWithoutHold ==
    LET first == IF active["charge"] THEN "charge"
                 ELSE IF active["discharge"] THEN "discharge"
                 ELSE IF active["self"] THEN "self" ELSE "none"
    IN  IF first = "none" THEN NoSession ELSE [mode |-> first, timed |-> timed[first]]

\* The record persist_force_mode_state writes: the first active mode, in the
\* order of its if chain.
Snapshot ==
    LET first == IF active["charge"] THEN "charge"
                 ELSE IF active["discharge"] THEN "discharge"
                 ELSE IF active["hold"] THEN "hold"
                 ELSE IF active["self"] THEN "self" ELSE "none"
    IN  IF first = "none" THEN NoSession ELSE [mode |-> first, timed |-> timed[first]]

-----------------------------------------------------------------------------
(* The synchronous first segments of the handlers. *)

\* Faulty variant: the generation is read before it is advanced.
IssueForceReadingOldGeneration(m, next) ==
    /\ armed' = NoTimers
    /\ gen' = gen + 1
    /\ active' = [active EXCEPT !["self"] = FALSE, ![Other(m)] = FALSE, ![m] = TRUE]
    /\ timed' = [timed EXCEPT !["self"] = FALSE,
                              ![Other(m)] = @ /\ ~active[Other(m)]]
    /\ writes' = Append(writes, [op |-> "force", mode |-> m, gen |-> gen,
                                 next |-> next, retry |-> 0])
    /\ want' = m

\* Faulty variant: the opposite mode is left to end by itself.
IssueForceKeepingOther(m, next) ==
    /\ armed' = NoTimers
    /\ gen' = gen + 1
    /\ active' = [active EXCEPT !["self"] = FALSE, ![m] = TRUE]
    /\ timed' = [timed EXCEPT !["self"] = FALSE]
    /\ writes' = Append(writes, [op |-> "force", mode |-> m, gen |-> gen + 1,
                                 next |-> next, retry |-> 0])
    /\ want' = m

\* handle_force_charge and handle_force_discharge up to the inverter write:
\* cancel every timer, take a generation, drop self consumption and the
\* opposite force mode, claim the mode.
IssueForce(m, next) ==
    /\ armed' = NoTimers
    /\ gen' = gen + 1
    /\ active' = [active EXCEPT !["self"] = FALSE, ![Other(m)] = FALSE, ![m] = TRUE]
    /\ timed' = [timed EXCEPT !["self"] = FALSE,
                              ![Other(m)] = @ /\ ~active[Other(m)]]
    /\ writes' = Append(writes, [op |-> "force", mode |-> m, gen |-> gen + 1,
                                 next |-> next, retry |-> 0])
    /\ want' = m

\* handle_restore_normal up to the write.  Only a user or hold cleanup source
\* drops the hold and self consumption flags; nothing drops the force flags.
IssueRestore(source, next, m, r) ==
    LET dropped == IF source \in {"user", "hold_soc_cleanup"} THEN {"hold", "self"} ELSE {}
    IN  /\ armed' = NoTimers
        /\ gen' = gen + 1
        /\ active' = [x \in Modes |-> active[x] /\ x \notin dropped]
        /\ timed' = [x \in Modes |-> timed[x] /\ ~(x \in dropped /\ active[x])]
        /\ writes' = Append(writes, [op |-> "restore", mode |-> m, gen |-> gen + 1,
                                     next |-> next, retry |-> r])

\* handle_set_self_consumption from the point where it owns the battery up to
\* the save that precedes its write.
Engage(before) ==
    /\ armed' = [NoTimers EXCEPT !["self"] = Fresh(gen + 1)]
    /\ gen' = gen + 1
    /\ active' = [active EXCEPT !["self"] = TRUE]
    /\ timed' = [timed EXCEPT !["self"] = TRUE]
    /\ saves' = Append(before, Saving("selfwrite", "none", 0))
    /\ want' = "self"

-----------------------------------------------------------------------------
(* User commands. *)

Admitted(c) ==
    /\ up
    /\ c \in Commands
    /\ gen < MaxGen
    /\ Len(writes) < MaxInFlight
    /\ Len(saves) < MaxInFlight

ForceCommand(m) ==
    /\ Admitted(m)
    /\ IssueForce(m, "none")
    /\ UNCHANGED <<loose, saves, disk, hw, up>>

RestoreCommand ==
    /\ Admitted("restore")
    /\ IssueRestore("user", "none", "none", 0)
    /\ want' = "normal"
    /\ UNCHANGED <<loose, saves, disk, hw, up>>

\* handle_hold_battery_soc up to set_backup_mode: it neither takes a
\* generation nor cancels the force timers.
HoldCommand ==
    /\ Admitted("hold")
    /\ active' = [active EXCEPT !["self"] = FALSE]
    /\ timed' = [timed EXCEPT !["self"] = FALSE]
    /\ armed' = [armed EXCEPT !["self"] = IF active["self"] THEN NoTimer ELSE @]
    /\ writes' = Append(writes, [op |-> "hold", mode |-> "hold", gen |-> gen,
                                 next |-> "none", retry |-> 0])
    /\ UNCHANGED <<loose, gen, saves, disk, hw, up, want>>

\* handle_set_self_consumption: an active force or hold mode is restored first.
SelfCommand ==
    /\ Admitted("self")
    /\ IF \E m \in Modes \ {"self"} : active[m]
       THEN IssueRestore("user", "self", "none", 0) /\ want' = "self" /\ UNCHANGED saves
       ELSE Engage(saves) /\ UNCHANGED writes
    /\ UNCHANGED <<loose, disk, hw, up>>

-----------------------------------------------------------------------------
(* An inverter write completes and its handler runs on. *)

Completes(i) ==
    /\ i \in DOMAIN writes
    /\ InOrder => i = 1

\* The restored-session timer of restore_force_mode_from_persistence: armed
\* over whatever the slot holds, without cancelling it.
RearmAfterReplay(m) ==
    /\ armed' = [armed EXCEPT ![m] = [gen |-> gen, restored |-> TRUE, retry |-> 0]]
    /\ loose' = IF armed[m] = NoTimer THEN loose
                                      ELSE loose \cup {Callback(m, armed[m])}

\* Faulty variant: the session starts without its expiry timer.
ForceWrittenWithoutTimer(i) ==
    LET w == writes[i] IN
    /\ Completes(i)
    /\ w.op = "force"
    /\ "ok" \in Outcomes
    /\ writes' = RemoveAt(writes, i)
    /\ active' = [active EXCEPT ![w.mode] = TRUE]
    /\ timed' = [timed EXCEPT ![w.mode] = TRUE]
    /\ armed' = [armed EXCEPT ![w.mode] = NoTimer]
    /\ saves' = Append(saves, Saving(w.next, w.mode, 0))
    /\ hw' = w.mode
    /\ UNCHANGED <<loose, gen, disk, up, want>>

ForceWritten(i) ==
    LET w == writes[i] IN
    /\ Completes(i)
    /\ w.op = "force"
    /\ "ok" \in Outcomes
    /\ writes' = RemoveAt(writes, i)
    /\ active' = [active EXCEPT ![w.mode] = TRUE]
    /\ timed' = [timed EXCEPT ![w.mode] = TRUE]
    /\ armed' = [armed EXCEPT ![w.mode] = Fresh(w.gen)]
    /\ saves' = Append(saves, Saving(w.next, w.mode, 0))
    /\ hw' = w.mode
    /\ UNCHANGED <<loose, gen, disk, up, want>>

\* Refused or raised: the controller tries to put the inverter back.
ForceNotWritten(i) ==
    LET w == writes[i] IN
    /\ Completes(i)
    /\ w.op = "force"
    /\ Outcomes \cap {"refused", "raised"} # {}
    /\ writes' = RemoveAt(writes, i)
    /\ active' = [active EXCEPT ![w.mode] = FALSE]
    /\ IF w.next = "replay" THEN RearmAfterReplay(w.mode) ELSE UNCHANGED <<armed, loose>>
    /\ hw' \in {hw, w.mode, "normal"}
    /\ UNCHANGED <<timed, gen, saves, disk, up, want>>

HoldWritten(i) ==
    /\ Completes(i)
    /\ writes[i].op = "hold"
    /\ "ok" \in Outcomes
    /\ writes' = RemoveAt(writes, i)
    /\ active' = [active EXCEPT !["hold"] = TRUE]
    /\ timed' = [timed EXCEPT !["hold"] = TRUE]
    /\ armed' = [armed EXCEPT !["hold"] = Fresh(gen)]
    /\ saves' = Append(saves, Saving("none", "hold", 0))
    /\ hw' = "backup"
    /\ UNCHANGED <<loose, gen, disk, up, want>>

HoldNotWritten(i) ==
    /\ Completes(i)
    /\ writes[i].op = "hold"
    /\ Outcomes \cap {"refused", "raised"} # {}
    /\ writes' = RemoveAt(writes, i)
    /\ hw' \in {hw, "backup", "normal"}
    /\ UNCHANGED <<active, timed, armed, loose, gen, saves, disk, up, want>>

SelfWriteCompletes(i) ==
    /\ Completes(i)
    /\ writes[i].op = "self"
    /\ writes' = RemoveAt(writes, i)
    /\ \/ "ok" \in Outcomes /\ hw' = "normal"
       \/ Outcomes \cap {"refused", "raised"} # {} /\ hw' \in {hw, "normal"}
    /\ UNCHANGED <<active, timed, armed, loose, gen, saves, disk, up, want>>

\* What the caller of handle_restore_normal does once it returned without
\* raising: nothing, engage self consumption, or clear the stored record of
\* the session that had expired while Home Assistant was down.
AfterReturn(next, m, r, before) ==
    IF next = "self" THEN Engage(before)
    ELSE /\ saves' = IF next = "cleanup" /\ r = 0 /\ (m = "hold" => ~active["hold"])
                     THEN Append(before, Saving("clear", "none", 0)) ELSE before
         /\ UNCHANGED <<active, timed, armed, gen, want>>

\* Faulty variant: the discharge flag is forgotten.
RestoreConfirmedKeepingDischarge(i) ==
    LET w == writes[i] IN
    /\ Completes(i)
    /\ w.op = "restore"
    /\ "ok" \in Outcomes
    /\ w.gen = gen
    /\ writes' = RemoveAt(writes, i)
    /\ hw' = "normal"
    /\ active' = [active EXCEPT !["charge"] = FALSE]
    /\ timed' = [timed EXCEPT !["charge"] = FALSE]
    /\ saves' = Append(saves, Saving(w.next, w.mode, w.retry))
    /\ UNCHANGED <<armed, loose, gen, disk, up, want>>

RestoreConfirmed(i) ==
    LET w == writes[i] IN
    /\ Completes(i)
    /\ w.op = "restore"
    /\ "ok" \in Outcomes
    /\ w.gen = gen
    /\ writes' = RemoveAt(writes, i)
    /\ hw' = "normal"
    /\ active' = [m \in Modes |-> active[m] /\ m \notin ForceModes]
    /\ timed' = [m \in Modes |-> timed[m] /\ m \notin ForceModes]
    /\ saves' = Append(saves, Saving(w.next, w.mode, w.retry))
    /\ UNCHANGED <<armed, loose, gen, disk, up, want>>

\* A newer command started meanwhile: _restore_superseded, plain return.
RestoreSuperseded(i) ==
    LET w == writes[i] IN
    /\ Completes(i)
    /\ w.op = "restore"
    /\ "ok" \in Outcomes
    /\ w.gen # gen
    /\ writes' = RemoveAt(writes, i)
    /\ hw' = "normal"
    /\ AfterReturn(w.next, w.mode, w.retry, saves)
    /\ UNCHANGED <<loose, disk, up>>

\* An exception other than HomeAssistantError is logged and swallowed.
RestoreSwallowed(i) ==
    LET w == writes[i] IN
    /\ Completes(i)
    /\ w.op = "restore"
    /\ "raised" \in Outcomes
    /\ writes' = RemoveAt(writes, i)
    /\ hw' \in {hw, "normal"}
    /\ AfterReturn(w.next, w.mode, w.retry, saves)
    /\ UNCHANGED <<loose, disk, up>>

\* Faulty variant: the attempts are not counted against the limit.
ScheduleRetryUnlimited(m, r) ==
    armed' = IF active[m]
             THEN [armed EXCEPT ![m] = [gen |-> gen, restored |-> TRUE, retry |-> r + 1]]
             ELSE armed

\* _schedule_persisted_force_cleanup_retry: another attempt, or give up.
ScheduleRetry(m, r) ==
    armed' = IF r < MaxRetries /\ active[m]
             THEN [armed EXCEPT ![m] = [gen |-> gen, restored |-> TRUE, retry |-> r + 1]]
             ELSE armed

\* Faulty variant: a refusal is taken for a restore that went through.
RestoreRefusedTakenForDone(i) ==
    LET w == writes[i] IN
    /\ Completes(i)
    /\ w.op = "restore"
    /\ "refused" \in Outcomes
    /\ writes' = RemoveAt(writes, i)
    /\ hw' \in {hw, "normal"}
    /\ AfterReturn(w.next, w.mode, w.retry, saves)
    /\ UNCHANGED <<loose, disk, up>>

\* Not confirmed: HomeAssistantError reaches the caller.
RestoreRefused(i) ==
    LET w == writes[i] IN
    /\ Completes(i)
    /\ w.op = "restore"
    /\ "refused" \in Outcomes
    /\ writes' = RemoveAt(writes, i)
    /\ hw' \in {hw, "normal"}
    /\ IF w.next = "cleanup" /\ w.mode \in ForceModes
       THEN ScheduleRetry(w.mode, w.retry) ELSE UNCHANGED armed
    /\ saves' = IF w.next = "cleanup" /\ w.mode = "hold" /\ ~active["hold"]
                THEN Append(saves, Saving("clear", "none", 0)) ELSE saves
    /\ UNCHANGED <<active, timed, loose, gen, disk, up, want>>

-----------------------------------------------------------------------------
(* The store answers.  Concurrent loads share one future and saves take one *)
(* lock, so the handlers get through in order; the snapshot is taken after  *)
(* the load, so load, snapshot and write are one step.                      *)

SaveCompletes ==
    LET s == Head(saves)
        rest == Tail(saves) IN
    /\ saves # <<>>
    /\ disk' = IF s.then = "clear" THEN NoSession ELSE Snapshot
    /\ CASE s.then = "selfwrite" ->
                /\ writes' = Append(writes, [op |-> "self", mode |-> "self", gen |-> gen,
                                             next |-> "none", retry |-> 0])
                /\ saves' = rest
                /\ UNCHANGED <<active, timed, armed, loose, gen, want>>
         [] s.then = "replay" ->
                /\ RearmAfterReplay(s.mode)
                /\ saves' = rest
                /\ UNCHANGED <<active, timed, gen, writes, want>>
         [] OTHER ->
                /\ AfterReturn(s.then, s.mode, s.retry, rest)
                /\ UNCHANGED <<loose, writes>>
    /\ UNCHANGED <<hw, up>>

-----------------------------------------------------------------------------
(* Timers. *)

\* A due timer leaves the reach of cancel() before its callback runs.
BecomesDue(m) ==
    /\ armed[m] # NoTimer
    /\ armed' = [armed EXCEPT ![m] = NoTimer]
    /\ loose' = loose \cup {Callback(m, armed[m])}
    /\ UNCHANGED <<active, timed, gen, writes, saves, disk, hw, up, want>>

ExpirySource(m) ==
    CASE m \in ForceModes -> "force_timer"
      [] m = "hold" -> "hold_soc_cleanup"
      [] m = "self" -> "user"

\* The callback of the generation in force restores normal operation.
ExpiryRestores(t) ==
    /\ t \in loose
    /\ t.gen = gen
    /\ active[t.mode]
    /\ loose' = loose \ {t}
    /\ IF t.retry = 0
       THEN IssueRestore(ExpirySource(t.mode), "none", "none", 0)
       ELSE IssueRestore("force_timer", "cleanup", t.mode, t.retry)
    /\ want' = "normal"
    /\ UNCHANGED <<saves, disk, hw, up>>

\* Any other callback is skipped; a superseded hold drops its tracking.
ExpirySkipped(t) ==
    LET stale == t.gen # gen /\ t.mode = "hold" /\ ~t.restored IN
    /\ t \in loose
    /\ t.gen # gen \/ ~active[t.mode]
    /\ loose' = loose \ {t}
    /\ active' = [active EXCEPT !["hold"] = @ /\ ~stale]
    /\ timed' = [timed EXCEPT !["hold"] = @ /\ ~stale]
    /\ armed' = [armed EXCEPT !["hold"] = IF stale THEN NoTimer ELSE @]
    /\ saves' = IF stale THEN Append(saves, Saving("none", "hold", 0)) ELSE saves
    /\ UNCHANGED <<gen, writes, disk, hw, up, want>>

-----------------------------------------------------------------------------
(* Restart. *)

\* What a write makes of the inverter.
Applied(w) == CASE w.op = "force" -> w.mode [] w.op = "hold" -> "backup" [] OTHER -> "normal"

\* Memory is lost; a write on its way may or may not have been applied.
Restart ==
    /\ CanRestart
    /\ up
    /\ up' = FALSE
    /\ active' = [m \in Modes |-> FALSE]
    /\ timed' = [m \in Modes |-> FALSE]
    /\ armed' = NoTimers
    /\ loose' = {}
    /\ gen' = 0
    /\ writes' = <<>>
    /\ saves' = <<>>
    /\ want' = "unknown"
    /\ hw' \in {hw, "normal"} \cup {Applied(writes[i]) : i \in DOMAIN writes}
    /\ UNCHANGED disk

\* restore_force_mode_from_persistence, first segment.
Populated(f) == [f EXCEPT ![disk.mode] = TRUE]

NothingToResume ==
    /\ ~up
    /\ ~disk.timed
    /\ up' = TRUE
    /\ UNCHANGED <<memory, disk, hw>>

ResumeTimer ==
    /\ ~up
    /\ disk.timed
    /\ disk.mode \in {"hold", "self"}
    /\ up' = TRUE
    /\ active' = Populated(active)
    /\ timed' = Populated(timed)
    /\ armed' = [armed EXCEPT ![disk.mode] = [gen |-> gen, restored |-> TRUE, retry |-> 0]]
    /\ UNCHANGED <<loose, gen, writes, saves, disk, hw, want>>

\* An unexpired force session is re-issued through its own service handler.
ResumeForce ==
    /\ ~up
    /\ disk.timed
    /\ disk.mode \in ForceModes
    /\ up' = TRUE
    /\ armed' = NoTimers
    /\ gen' = gen + 1
    /\ active' = Populated(active)
    /\ timed' = Populated(timed)
    /\ writes' = <<[op |-> "force", mode |-> disk.mode, gen |-> gen + 1,
                    next |-> "replay", retry |-> 0]>>
    /\ want' = disk.mode
    /\ UNCHANGED <<loose, saves, disk, hw>>

\* An expired session is restored at once; the flags are populated first, and
\* a hold or self consumption source drops them again before the write.
ResumeExpired ==
    LET m == disk.mode IN
    /\ ~up
    /\ disk.timed
    /\ up' = TRUE
    /\ armed' = NoTimers
    /\ gen' = gen + 1
    /\ active' = IF m \in ForceModes THEN Populated(active) ELSE active
    /\ timed' = IF m \in ForceModes THEN Populated(timed) ELSE timed
    /\ writes' = <<[op |-> "restore", mode |-> m, gen |-> gen + 1,
                    next |-> "cleanup", retry |-> 0]>>
    /\ want' = "normal"
    /\ UNCHANGED <<loose, saves, disk, hw>>

-----------------------------------------------------------------------------
Init ==
    /\ active = [m \in Modes |-> FALSE]
    /\ timed = [m \in Modes |-> FALSE]
    /\ armed = NoTimers
    /\ loose = {}
    /\ gen = 0
    /\ writes = <<>>
    /\ saves = <<>>
    /\ disk = NoSession
    /\ hw = "normal"
    /\ up = FALSE
    /\ want = "unknown"

WriteCompletes ==
    \E i \in DOMAIN writes :
        \/ ForceWritten(i) \/ ForceNotWritten(i)
        \/ HoldWritten(i) \/ HoldNotWritten(i)
        \/ SelfWriteCompletes(i)
        \/ RestoreConfirmed(i) \/ RestoreSuperseded(i)
        \/ RestoreSwallowed(i) \/ RestoreRefused(i)

CallbackRuns == \E t \in loose : ExpiryRestores(t) \/ ExpirySkipped(t)

Resume == NothingToResume \/ ResumeTimer \/ ResumeForce \/ ResumeExpired

Command == (\E m \in ForceModes : ForceCommand(m)) \/ RestoreCommand \/ HoldCommand \/ SelfCommand

Next ==
    \/ Command
    \/ WriteCompletes
    \/ SaveCompletes
    \/ \E m \in Modes : BecomesDue(m)
    \/ CallbackRuns
    \/ Restart
    \/ Resume

Spec == Init /\ [][Next]_vars

\* The event loop runs whatever is ready, a timer becomes due, and every
\* inverter or store call returns (they carry timeouts).
Fairness ==
    /\ WF_vars(WriteCompletes)
    /\ WF_vars(SaveCompletes)
    /\ \A m \in Modes : WF_vars(BecomesDue(m))
    /\ WF_vars(CallbackRuns)
    /\ WF_vars(Resume)

FairSpec == Spec /\ Fairness

-----------------------------------------------------------------------------
TypeOK ==
    /\ active \in [Modes -> BOOLEAN]
    /\ timed \in [Modes -> BOOLEAN]
    /\ armed \in [Modes -> Timer]
    /\ loose \subseteq Due
    /\ gen \in Nat
    /\ writes \in Seq(Write)
    /\ saves \in Seq(Save)
    /\ disk \in Session
    /\ hw \in ForceModes \cup {"normal", "backup"}
    /\ up \in BOOLEAN
    /\ want \in Modes \cup {"normal", "unknown"}

Quiet == up /\ writes = <<>> /\ saves = <<>>
Live(t) == t.gen = gen

\* Mutual exclusion of the two force modes ("Mutual exclusion + baseline
\* inheritance" in both handlers).
MutualExclusion == ~(active["charge"] /\ active["discharge"])

\* Whenever a force mode is on and no handler is at work, the callback of the
\* generation in force is pending for an active mode: someone will end it.
SomeoneWillEndIt ==
    \E m \in Modes : /\ active[m]
                     /\ \/ armed[m] # NoTimer /\ Live(armed[m])
                        \/ \E t \in loose : t.mode = m /\ Live(t)
ForceModeIsTimed == (Quiet /\ \E m \in ForceModes : active[m]) => SomeoneWillEndIt

\* The same for hold SoC, whose callback even a newer generation lets tidy up.
HoldIsTimed ==
    (Quiet /\ active["hold"]) =>
        armed["hold"] # NoTimer \/ \E t \in loose : t.mode = "hold"

\* At rest the flag of the last command is on, whatever overlapped with it, and
\* after a restore or an expiry no force flag is.
LastIsShown ==
    Quiet => /\ want \in ForceModes \cup {"self"} => active[want]
             /\ want = "normal" => \A m \in ForceModes : ~active[m]

\* And no other force flag is on, unless self consumption was engaged beside it.
OnlyLastIsShown == Quiet => \A m \in ForceModes : active[m] => want \in {m, "self"}

\* Both force modes wait for the inverter: the older one turns its flag on
\* again beside the newer one's (MCForceModeBothOn).
BothWrite ==
    \A m \in ForceModes :
        \E i \in DOMAIN writes : writes[i].op = "force" /\ writes[i].mode = m

\* The last command wins.  The first part has no exception; the second holds
\* from any rest at which at most one force flag is on, and from a start of
\* Home Assistant, until both force modes wait for the inverter together.
Settled == up => Quiet /\ MutualExclusion
LastCommandWins ==
    /\ []LastIsShown
    /\ [](Settled => ([]~BothWrite => []OnlyLastIsShown))

\* At rest the record on disk is a session that is running, a running session
\* has a record, and a force session comes first: a restart resumes it.
Running == {m \in Modes : active[m] /\ timed[m]}
DiskMatchesMemory ==
    Quiet => /\ disk.timed => disk.mode \in Running
             /\ Running # {} => disk.timed
             /\ Running \cap ForceModes # {} => disk.mode \in ForceModes

\* At rest a force mode that is the only active mode is what the inverter does.
InverterFollowsFlags ==
    Quiet => \A m \in ForceModes :
                active[m] /\ (\A x \in Modes \ {m} : ~active[x]) => hw = m

\* A force session that no callback will end is still on disk, so that the
\* next restart finds and cleans it up.
StrandedSessionIsOnDisk ==
    (Quiet /\ (\E m \in ForceModes : active[m]) /\ ~SomeoneWillEndIt) =>
        disk.timed /\ disk.mode \in ForceModes

\* The record is dropped only when the inverter is back to normal.
RecordDroppedOnlyWhenNormal == [][disk.timed /\ ~disk'.timed => hw' = "normal"]_vars

\* Every force session ends.
ForceModeEnds == \A m \in ForceModes : active[m] ~> ~active[m]

-----------------------------------------------------------------------------
(* Why a force mode is timed: the inductive strengthening of               *)
(* ForceModeIsTimed for an in-order link whose writes succeed and without  *)
(* hold SoC; the README lists what happens in the other cases.             *)

Bump(w) == w.op \in {"force", "restore"}

\* Handlers that took a generation queue in the order they took it, and no
\* pending callback is from the future.
Ordered(q, g) ==
    /\ \A i \in DOMAIN q : Bump(q[i]) => q[i].gen <= g
    /\ \A i, j \in DOMAIN q : i < j /\ Bump(q[i]) /\ Bump(q[j]) => q[i].gen < q[j].gen
GenerationsInOrder ==
    /\ Ordered(writes, gen)
    /\ \A m \in Modes : armed[m].gen <= gen
    /\ \A t \in loose : t.gen <= gen

Ends(m, t) == t.gen = gen /\ (m \in ForceModes => ~t.restored)
Watched(m) == \/ armed[m] # NoTimer /\ Ends(m, armed[m])
              \/ \E t \in loose : t.mode = m /\ Ends(m, t)

\* Once the newest command has armed its timer, no older one is still writing.
NewestArmsLast ==
    \A m \in ForceModes :
        Watched(m) => \A i \in DOMAIN writes : ~Bump(writes[i])

\* A force mode that is on or on its way has the newest command still writing,
\* or a live callback of an active mode.
NewestWrites == \E i \in DOMAIN writes : Bump(writes[i]) /\ writes[i].gen = gen
CallbackLives == \E m \in Modes : active[m] /\ Watched(m)
ForceIsWatched ==
    ((\E m \in ForceModes : active[m]) \/ \E i \in DOMAIN writes : writes[i].op = "force")
        => NewestWrites \/ CallbackLives

DownIsEmpty ==
    ~up => /\ \A m \in Modes : ~active[m]
           /\ armed = NoTimers
           /\ loose = {}
           /\ writes = <<>>
           /\ saves = <<>>

NoHold ==
    /\ ~active["hold"] /\ disk.mode # "hold" /\ armed["hold"] = NoTimer
    /\ \A t \in loose : t.mode # "hold"
    /\ \A i \in DOMAIN writes : writes[i].op # "hold"

TimedInvariant ==
    /\ GenerationsInOrder
    /\ NewestArmsLast
    /\ ForceIsWatched
    /\ DownIsEmpty
    /\ NoHold
=============================================================================
