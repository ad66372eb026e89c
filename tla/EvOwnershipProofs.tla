-------------------------- MODULE EvOwnershipProofs --------------------------
(***************************************************************************)
(* Proofs about EvOwnership, for all durations, policies, owner modes and  *)
(* events: the override policy never leaves a lasting external lease, the  *)
(* yield policy never takes one away on its own, and a saved stop hold     *)
(* keeps automated solar starts off, also across restarts.  Every variable *)
(* keeps to its type, a provisional lease ends within two polls of its     *)
(* window, and, where the durations fit each other, a charge of            *)
(* PowerSync's own is never taken for somebody else's.                     *)
(***************************************************************************)
EXTENDS EvOwnership, TLAPS

-----------------------------------------------------------------------------
(* The override policy.  A provisional lease is told from a lasting one by *)
(* its end, so every recorded command must carry a time.                   *)

Times == Nat \ {0}
CommandNames == {"start", "stop", "stop_observed", "other", "external"}
Records ==
  [name : CommandNames, ok : BOOLEAN, at : Times, settled : BOOLEAN] \cup {None}

ControlInvariant ==
  /\ now \in Times
  /\ cmd \in Records
  /\ disk.cmd \in Records
  /\ OverrideKeepsControl

\* A recorded command carries a time.
LEMMA CommandsAreTimed ==
  ASSUME now \in Times, NEW name \in CommandNames, NEW ok \in BOOLEAN
  PROVE  Command(name, ok) \in Records
  BY DEF Command, Records

\* A release leaves a timed command and no lease.
LEMMA ReleaseIsSafe ==
  ASSUME now \in Times, NEW name \in CommandNames, Release(name)
  PROVE  cmd' \in Records /\ ~Sticky(lease')
  <1>1. cmd' \in Records  BY CommandsAreTimed DEF Release
  <1>2. ~Sticky(lease')  BY DEF Release, Sticky, IsExternal
  <1> QED  BY <1>1, <1>2

\* Telemetry of a charge makes a lasting lease under the yield policy only.
LEMMA EnsuringIsSafe ==
  ASSUME ControlInvariant, NEW seen, EnsureExternal(seen)
  PROVE  cmd' \in Records /\ (policy = "override" => ~Sticky(lease'))
  <1> USE DEF ControlInvariant
  <1>1. CASE UNCHANGED <<lease, cmd>>
        BY <1>1 DEF OverrideKeepsControl
  <1>2. CASE Release("other")
        BY <1>2, ReleaseIsSafe DEF CommandNames
  <1>3. CASE policy = "yield" /\ UNCHANGED cmd
        BY <1>3
  <1>4. CASE /\ StopIsOpen(cmd) /\ UNCHANGED cmd
             /\ lease' = Lease("external", cmd.at, cmd.at + Confirm)
    <2>1. cmd.at \in Times /\ Confirm \in Nat
          BY <1>4, DurationsAreNatural DEF StopIsOpen, Records
    <2>2. cmd.at + Confirm > 0  BY <2>1 DEF Times
    <2>3. ~Sticky(lease')  BY <1>4, <2>2 DEF Sticky, Lease
    <2> QED  BY <1>4, <2>3
  <1> QED  BY <1>1, <1>2, <1>3, <1>4 DEF EnsureExternal

\* The confirmation of a stop makes no lasting lease.
LEMMA ConfirmingIsSafe ==
  ASSUME ControlInvariant, ConfirmStop
  PROVE  cmd' \in Records /\ (policy = "override" => ~Sticky(lease'))
  <1> USE DEF ControlInvariant
  <1>1. CASE Release("stop_observed")
        BY <1>1, ReleaseIsSafe DEF CommandNames
  <1>2. CASE /\ StopIsOpen(cmd) /\ UNCHANGED lease
             /\ cmd' = [cmd EXCEPT !.settled = TRUE]
    <2>1. cmd' \in Records  BY <1>2 DEF StopIsOpen, Records
    <2> QED  BY <1>2, <2>1 DEF OverrideKeepsControl
  <1>3. CASE UNCHANGED <<lease, cmd>>
        BY <1>3 DEF OverrideKeepsControl
  <1> QED  BY <1>1, <1>2, <1>3 DEF ConfirmStop

\* What the initial state gives.
LEMMA ControlInitially == Init => ControlInvariant
  BY
     DEF Init, ControlInvariant, Times, Records, OverrideKeepsControl, Sticky, IsExternal

\* Every step keeps the invariant of the override policy.
LEMMA ControlStep == ControlInvariant /\ [Next]_vars => ControlInvariant'
  <1> SUFFICES ASSUME ControlInvariant, [Next]_vars
               PROVE  ControlInvariant'
      OBVIOUS
  <1> USE DEF ControlInvariant
  <1>0. CASE UNCHANGED vars
        BY <1>0 DEF vars, env, memory, stored, OverrideKeepsControl
  <1>1. CASE \E ok \in BOOLEAN : StopEnds(ok)
    <2>1. PICK ok \in BOOLEAN : StopEnds(ok)  BY <1>1
    <2>2. cmd' \in Records  BY <2>1, CommandsAreTimed DEF StopEnds, CommandNames
    <2> QED  BY <2>1, <2>2 DEF StopEnds, OverrideKeepsControl
  <1>2. CASE Tick
        BY <1>2 DEF Tick, Times, memory, stored, OverrideKeepsControl
  <1>3. CASE OtherStarts \/ OtherStops \/ StopLands \/ Unplugged \/ PluggedIn \/ Report
        BY <1>3 DEF OtherStarts, OtherStops, StopLands, Unplugged, PluggedIn, Report,
                    memory, stored, OverrideKeepsControl
  <1>4. CASE \E mode \in Modes, allow \in BOOLEAN : Start(mode, allow)
    <2>1. PICK mode \in Modes, allow \in BOOLEAN : Start(mode, allow)  BY <1>4
    <2>2. cmd' \in Records  BY <2>1, CommandsAreTimed DEF Start, CommandNames
    <2>3. ~Sticky(lease')
          BY <2>1, ModesAreKnown DEF Start, Sticky, IsExternal, Lease
    <2> QED  BY <2>1, <2>2, <2>3 DEF Start, OverrideKeepsControl
  <1>5. CASE \E mode \in Modes, allow \in BOOLEAN : StartRefused(mode, allow)
    <2>1. PICK mode \in Modes, allow \in BOOLEAN : StartRefused(mode, allow)  BY <1>5
    <2>2. cmd' \in Records  BY <2>1, CommandsAreTimed DEF StartRefused, CommandNames
    <2>3. ~Sticky(None)  BY DEF Sticky, IsExternal
    <2> QED  BY <2>1, <2>2, <2>3 DEF StartRefused, env, stored, OverrideKeepsControl
  <1>6. CASE StopBegins
    <2>1. cmd' \in Records  BY <1>6, CommandsAreTimed DEF StopBegins, CommandNames
    <2>2. ~Sticky(lease')  BY <1>6 DEF StopBegins, Sticky, IsExternal
    <2> QED  BY <1>6, <2>1, <2>2 DEF StopBegins, env, stored, OverrideKeepsControl
  <1>7. CASE UserStops
    <2>1. cmd' \in Records  BY <1>7, CommandsAreTimed DEF UserStops, CommandNames
    <2>2. ~Sticky(None)  BY DEF Sticky, IsExternal
    <2> QED  BY <1>7, <2>1, <2>2 DEF UserStops, stored, OverrideKeepsControl
  <1>8. CASE TrackerSeesCharging \/ PlannerSeesCharging
    <2>1. \E seen : EnsureExternal(seen)
          BY <1>8 DEF TrackerSeesCharging, PlannerSeesCharging
    <2>2. cmd' \in Records /\ (policy = "override" => ~Sticky(lease'))
          BY <2>1, EnsuringIsSafe
    <2> QED  BY <1>8, <2>2

                DEF TrackerSeesCharging, PlannerSeesCharging, env, stored, OverrideKeepsControl
  <1>9. CASE \E observed \in BOOLEAN : TrackerSeesIdle(observed)
    <2>1. PICK observed \in BOOLEAN : TrackerSeesIdle(observed)  BY <1>9
    <2>2. Release("external") \/ ConfirmStop \/ UNCHANGED <<lease, cmd>>
          BY <2>1 DEF TrackerSeesIdle, IdlePoll
    <2>3. cmd' \in Records /\ (policy = "override" => ~Sticky(lease'))
          BY <2>2, ReleaseIsSafe, ConfirmingIsSafe
             DEF CommandNames, OverrideKeepsControl
    <2> QED  BY <2>1, <2>3
       DEF TrackerSeesIdle, IdlePoll, env, stored, OverrideKeepsControl
  <1>10. CASE SetPolicy
    <2>1. cmd' \in Records
          BY <1>10, ReleaseIsSafe DEF SetPolicy, CommandNames
    <2>2. policy' = "override" => ~Sticky(lease')
          BY <1>10, ReleaseIsSafe DEF SetPolicy, CommandNames, Sticky
    <2> QED  BY <1>10, <2>1, <2>2 DEF SetPolicy, env, stored, OverrideKeepsControl
  <1>11. CASE Persist
         BY <1>11 DEF Persist, env, memory, OverrideKeepsControl
  <1>12. CASE Restart
    <2>1. cmd' \in Records
          BY <1>12, CommandsAreTimed DEF Restart, RestartWith, CommandNames
    <2>2. ~Sticky(lease')  BY <1>12 DEF Restart, RestartWith, Sticky, IsExternal
    <2> QED  BY <1>12, <2>1, <2>2 DEF Restart, RestartWith, env, OverrideKeepsControl
  <1> QED  BY <1>0, <1>1, <1>2, <1>3, <1>4, <1>5, <1>6, <1>7, <1>8, <1>9, <1>10,
              <1>11, <1>12 DEF Next

\* Under the override policy no lasting external lease ever stands in the way
\* of PowerSync, whatever stops, refusals, polls and policy changes came before.
THEOREM OverrideControl == Spec => []OverrideKeepsControl
  <1>1. ControlInvariant => OverrideKeepsControl  BY DEF ControlInvariant
  <1> QED  BY ControlInitially, ControlStep, <1>1, PTL DEF Spec
-----------------------------------------------------------------------------
(* The yield policy.  Only a user's start, a cable seen unplugged, a change *)
(* of policy or a restart ends a lasting external lease.                   *)

ExternalStays ==
  Sticky(lease) /\ policy = "yield" /\ policy' = "yield" /\ restarts' = restarts
     => Sticky(lease') \/ lease' = Lease("manual", 0, 0) \/ ~tele.plugged

\* A lasting external lease is neither PowerSync's nor provisional.
LEMMA StickyIsNothingElse ==
  ASSUME Sticky(lease)
  PROVE  /\ lease # None /\ lease.mode = "external" /\ IsExternal(lease)
         /\ ~Settling(lease) /\ ~IsPowersync(lease)
  BY DEF Sticky, Settling, IsExternal, IsPowersync

\* A restart is told from the other steps by the counter.
RestartsAreCounted == restarts \in Nat

\* What the initial state gives.
LEMMA RestartsInitially == Init => RestartsAreCounted
  BY DEF Init, RestartsAreCounted

\* Every step keeps the count of restarts a number.
LEMMA RestartsStep == RestartsAreCounted /\ [Next]_vars => RestartsAreCounted'
  <1> SUFFICES ASSUME RestartsAreCounted, [Next]_vars
               PROVE  RestartsAreCounted'
      OBVIOUS
  <1> USE DEF RestartsAreCounted
  <1>1. CASE Restart
        BY <1>1 DEF Restart, RestartWith
  <1>2. CASE UNCHANGED restarts
        BY <1>2
  <1> QED
    BY <1>1, <1>2

       DEF Next, vars, stored, StopEnds, Tick, OtherStarts, OtherStops, StopLands, Unplugged,
        PluggedIn, Report, Start, StartRefused, StopBegins, UserStops,
        TrackerSeesCharging,
        PlannerSeesCharging, TrackerSeesIdle, IdlePoll, SetPolicy, Persist

\* A step of the yield policy leaves a lasting lease, but for the exceptions.
LEMMA ExternalStaysStep == RestartsAreCounted /\ [Next]_vars => [ExternalStays]_vars
  <1> SUFFICES ASSUME RestartsAreCounted, [Next]_vars, vars' # vars, Sticky(lease),
                      policy = "yield", policy' = "yield", restarts' = restarts
               PROVE  Sticky(lease') \/ lease' = Lease("manual", 0, 0) \/ ~tele.plugged
      BY DEF ExternalStays
  <1> USE StickyIsNothingElse
  <1>1. CASE UNCHANGED lease
        BY <1>1 DEF Sticky, IsExternal
  <1>2. CASE \E mode \in Modes, allow \in BOOLEAN : Start(mode, allow)
    <2>1. PICK mode \in Modes, allow \in BOOLEAN : Start(mode, allow)  BY <1>2
    <2>2. CanTakeOver("external", mode, allow)  BY <2>1 DEF Start, MayClaim
    <2>3. mode = "manual"  BY <2>2, ModesAreKnown DEF CanTakeOver
    <2> QED  BY <2>1, <2>3 DEF Start
  <1>3. CASE \E mode \in Modes, allow \in BOOLEAN : StartRefused(mode, allow)
        BY <1>1, <1>3 DEF StartRefused
  <1>4. CASE StopBegins
        BY <1>4 DEF StopBegins
  <1>5. CASE UserStops
        BY <1>1, <1>5 DEF UserStops
  <1>6. CASE TrackerSeesCharging \/ PlannerSeesCharging
    <2>1. PICK seen : EnsureExternal(seen)
          BY <1>6 DEF TrackerSeesCharging, PlannerSeesCharging
    <2>2. UNCHANGED lease  BY <2>1 DEF EnsureExternal
    <2> QED  BY <1>1, <2>2
  <1>7. CASE \E observed \in BOOLEAN : TrackerSeesIdle(observed)
    <2>1. PICK observed \in BOOLEAN : TrackerSeesIdle(observed)  BY <1>7
    <2>2. ~tele.plugged \/ ConfirmStop \/ UNCHANGED lease
          BY <2>1 DEF TrackerSeesIdle, IdlePoll
    <2>3. ConfirmStop => UNCHANGED lease  BY DEF ConfirmStop
    <2> QED  BY <1>1, <2>2, <2>3
  <1>8. CASE SetPolicy
        BY <1>8 DEF SetPolicy
  <1>9. CASE Restart
        BY <1>9 DEF Restart, RestartWith, RestartsAreCounted
  <1> QED
    BY <1>1, <1>2, <1>3, <1>4, <1>5, <1>6, <1>7, <1>8, <1>9

       DEF Next, vars, memory, StopEnds, Tick, OtherStarts, OtherStops, StopLands, Unplugged,
        PluggedIn, Report, Persist

\* Under the yield policy a lasting external lease outlives every automated
\* start, refused start, confirmation and poll of a car that is plugged in.
THEOREM ExternalStands == Spec => ExternalLasts
  <1>1. RestartsAreCounted /\ [Next]_vars
        => [Sticky(lease) /\ policy = "yield" /\ policy' = "yield" /\ restarts' = restarts
            => Sticky(lease') \/ lease' = Lease("manual", 0, 0) \/ ~tele.plugged]_vars
        BY ExternalStaysStep DEF ExternalStays
  <1> QED  BY RestartsInitially, RestartsStep, <1>1, PTL DEF Spec, ExternalLasts

-----------------------------------------------------------------------------
(* The stop hold.  What the disk promises is never more than what memory   *)
(* holds, because a hold set later ends later.                             *)

HoldInvariant ==
  /\ now \in Nat /\ held \in Nat /\ promised \in Nat
  /\ promised <= held
  /\ held <= now + Hold
  /\ disk.held = promised

\* What the initial state gives.
LEMMA HoldInitially == Init => HoldInvariant
  BY DurationsAreNatural DEF Init, HoldInvariant

\* Every step keeps the invariant of the hold.
LEMMA HoldStep == HoldInvariant /\ [Next]_vars => HoldInvariant'
  <1> SUFFICES ASSUME HoldInvariant, [Next]_vars
               PROVE  HoldInvariant'
      OBVIOUS
  <1> USE DurationsAreNatural DEF HoldInvariant
  <1>1. CASE UNCHANGED <<now, held, disk, promised>>
        BY <1>1
  <1>2. CASE Tick
        BY <1>2 DEF Tick, memory, stored
  <1>3. CASE UserStops
        BY <1>3 DEF UserStops, stored
  <1>4. CASE Persist
        BY <1>4 DEF Persist, env, memory
  <1>5. CASE Restart
        BY <1>5 DEF Restart, RestartWith, env
  <1> QED
    BY <1>1, <1>2, <1>3, <1>4, <1>5

       DEF Next, vars, env, memory, stored, StopEnds, OtherStarts, OtherStops, StopLands,
        Unplugged, PluggedIn, Report, Start, StartRefused, StopBegins,
        TrackerSeesCharging, PlannerSeesCharging, TrackerSeesIdle, IdlePoll,
        SetPolicy

SolarStarts ==
  /\ cmd' # cmd /\ cmd' = [Command("start", TRUE) EXCEPT !.at = now]
  /\ lease' # None /\ lease'.mode = "solar_surplus"

\* Every other action gives up the lease, leaves the command, or records a
\* command that is not a successful start.
LEMMA OnlyStartsStart ==
  ASSUME ControlInvariant, [Next]_vars, SolarStarts
  PROVE  \E mode \in Modes, allow \in BOOLEAN : Start(mode, allow)
  <1> USE DEF SolarStarts
  <1>1. lease' # None /\ cmd' # cmd /\ cmd'.name = "start" /\ cmd'.ok = TRUE
        BY DEF Command
  <1>2. ~\E ok \in BOOLEAN : StopEnds(ok)
        BY <1>1 DEF StopEnds, Command
  <1>3. ~\E mode \in Modes, allow \in BOOLEAN : StartRefused(mode, allow)
        BY <1>1 DEF StartRefused, Command
  <1>4. ~StopBegins /\ ~UserStops /\ ~Restart
        BY <1>1 DEF StopBegins, UserStops, Restart, RestartWith
  <1>5. ASSUME NEW name, Release(name)  PROVE FALSE
        BY <1>1, <1>5 DEF Release
  <1>6. ~ConfirmStop
    <2>1. SUFFICES ASSUME StopIsOpen(cmd), cmd' = [cmd EXCEPT !.settled = TRUE]
                   PROVE  FALSE
          BY <1>1, <1>5 DEF ConfirmStop
    <2>2. cmd.name # "start" /\ cmd # None /\ cmd \in Records
          BY <2>1 DEF StopIsOpen, ControlInvariant
    <2>3. cmd'.name = cmd.name  BY <2>1, <2>2 DEF Records
    <2> QED  BY <1>1, <2>2, <2>3
  <1>7. ~TrackerSeesCharging /\ ~PlannerSeesCharging
    <2>1. ASSUME NEW seen, EnsureExternal(seen)  PROVE FALSE
          BY <1>1, <1>5, <2>1 DEF EnsureExternal
    <2> QED  BY <2>1 DEF TrackerSeesCharging, PlannerSeesCharging
  <1>8. ASSUME NEW observed \in BOOLEAN  PROVE ~TrackerSeesIdle(observed)
        BY <1>1, <1>5, <1>6 DEF TrackerSeesIdle, IdlePoll
  <1>9. ~SetPolicy
        BY <1>1, <1>5 DEF SetPolicy
  <1> QED
    BY <1>1, <1>2, <1>3, <1>4, <1>7, <1>8, <1>9
    DEF Next, vars, memory, Tick, OtherStarts, OtherStops, StopLands, Unplugged,
        PluggedIn, Report, Persist

\* A solar start comes after the end of a saved hold.
LEMMA HoldActionStep ==
  HoldInvariant /\ ControlInvariant /\ [Next]_vars => [SolarStarts => now >= promised]_vars
  <1> SUFFICES ASSUME HoldInvariant, ControlInvariant, [Next]_vars, SolarStarts
               PROVE  now >= promised
      OBVIOUS
  <1>1. PICK mode \in Modes, allow \in BOOLEAN : Start(mode, allow)
        BY OnlyStartsStart
  <1>2. mode = "solar_surplus"
        BY <1>1 DEF Start, Lease, SolarStarts
  <1>3. ~(held > now)
        BY <1>1, <1>2 DEF Start, HoldBlocks
  <1> QED  BY <1>3 DEF HoldInvariant

\* Once a stop hold is on disk no solar start claims the loadpoint before the
\* hold ends, whatever is saved, restarted and stopped in between.
THEOREM HoldStands == Spec => SavedHoldHolds
  <1>1. HoldInvariant /\ ControlInvariant /\ [Next]_vars
        => [/\ cmd' # cmd /\ cmd' = [Command("start", TRUE) EXCEPT !.at = now]
            /\ lease' # None /\ lease'.mode = "solar_surplus"
            => now >= promised]_vars
        BY HoldActionStep DEF SolarStarts
  <1> QED  BY HoldInitially, HoldStep, ControlInitially, ControlStep, <1>1, PTL
           DEF Spec, SavedHoldHolds

-----------------------------------------------------------------------------
(* Types                                                                   *)

\* A recorded command and a lease made from one are well-formed.
LEMMA CommandShape ==
  ASSUME now \in 1..MaxTime, NEW name \in CommandNames, NEW ok \in BOOLEAN
  PROVE  Command(name, ok) \in Commands
  BY DurationsAreNatural DEF Command, Commands, CommandNames

\* The fields of a lease, and which leases the steps make.
LEMMA LeaseShape ==
  /\ \A mode \in Modes \cup {"external"} : \A at \in 0..MaxTime :
       \A until \in 0..(MaxTime + Confirm) : Lease(mode, at, until) \in Leases
  /\ External \in Leases
  /\ \A l \in Leases : l.stopAt \in 0..MaxTime /\ l.until \in 0..(MaxTime + Confirm)
  BY DurationsAreNatural DEF Lease, Leases, External

\* The restart evidence and the snapshot are records of these.
LEMMA StoredShapes ==
  /\ \A l \in Leases \cup {None} : \A t \in 0..MaxTime :
       [lease |-> l, at |-> t] \in Evidences
  /\ \A l \in Leases \cup {None} : \A c \in Commands \cup {None} :
       \A h \in 0..(MaxTime + Hold) : \A t \in 0..MaxTime :
         [lease |-> l, cmd |-> c, held |-> h, at |-> t] \in Snapshots
  /\ Discarded \in Evidences
  BY DurationsAreNatural DEF Discarded, Evidences, Snapshots

\* What a snapshot holds.
LEMMA SnapshotFields ==
  ASSUME disk \in Snapshots
  PROVE  /\ disk.lease \in Leases \cup {None} /\ disk.cmd \in Commands \cup {None}
         /\ disk.held \in 0..(MaxTime + Hold) /\ disk.at \in 0..MaxTime
  BY DEF Snapshots

\* A release keeps the types.
LEMMA ReleaseTypes ==
  ASSUME TypeOK, NEW name \in CommandNames, Release(name)
  PROVE  lease' = None /\ cmd' \in Commands /\ dirty' = TRUE
  BY CommandShape DEF Release, Save, TypeOK, EnvTypes

\* Telemetry of a charge keeps the types.
LEMMA EnsuringTypes ==
  ASSUME TypeOK, NEW seen, EnsureExternal(seen)
  PROVE  /\ lease' \in Leases \cup {None} /\ cmd' \in Commands \cup {None}
         /\ dirty' \in BOOLEAN
  <1> USE DEF TypeOK, RuntimeTypes, StoreTypes
  <1>1. CASE UNCHANGED <<lease, cmd, dirty>>
    BY <1>1
  <1>2. CASE Release("other")
    BY <1>2, ReleaseTypes DEF CommandNames
  <1>3. CASE lease' = External /\ Save /\ UNCHANGED cmd
    BY <1>3, LeaseShape DEF Save
  <1>4. CASE /\ StopIsOpen(cmd) /\ Save /\ UNCHANGED cmd
             /\ lease' = Lease("external", cmd.at, cmd.at + Confirm)
    <2>1. cmd.at \in 0..MaxTime
      BY <1>4 DEF StopIsOpen, Commands
    <2>2. cmd.at + Confirm \in 0..(MaxTime + Confirm)
      BY <2>1, DurationsAreNatural
    <2>3. lease' \in Leases
      BY <1>4, <2>1, <2>2, LeaseShape
    <2> QED
      BY <1>4, <2>3 DEF Save
  <1> QED
    BY <1>1, <1>2, <1>3, <1>4 DEF EnsureExternal

\* So does the confirmation of a stop.
LEMMA ConfirmingTypes ==
  ASSUME TypeOK, ConfirmStop
  PROVE  /\ lease' \in Leases \cup {None} /\ cmd' \in Commands \cup {None}
         /\ dirty' \in BOOLEAN
  <1> USE DEF TypeOK, RuntimeTypes, StoreTypes
  <1>1. CASE Release("stop_observed")
    BY <1>1, ReleaseTypes DEF CommandNames
  <1>2. CASE /\ StopIsOpen(cmd) /\ Save /\ UNCHANGED lease
             /\ cmd' = [cmd EXCEPT !.settled = TRUE]
    <2>1. cmd' \in Commands
      BY <1>2 DEF StopIsOpen, Commands
    <2> QED
      BY <1>2, <2>1 DEF Save
  <1>3. CASE UNCHANGED <<lease, cmd, dirty>>
    BY <1>3
  <1> QED
    BY <1>1, <1>2, <1>3 DEF ConfirmStop

\* What the car, its telemetry and the clock do keeps the types.
LEMMA EnvironmentTypes ==
  ASSUME TypeOK,
         \/ Tick \/ OtherStarts \/ OtherStops \/ StopLands \/ Unplugged
         \/ PluggedIn \/ Report
  PROVE  TypeOK'
  <1> USE DurationsAreNatural DEF TypeOK
  <1>1. Changes => changed' \in 0..MaxTime
    BY DEF Changes, EnvTypes
  <1>2. EnvTypes'
    <2>1. CASE Tick
      BY <2>1 DEF Tick, EnvTypes
    <2>2. CASE OtherStarts
      BY <1>1, <2>2 DEF OtherStarts, EnvTypes
    <2>3. CASE OtherStops \/ StopLands \/ Unplugged \/ PluggedIn
      BY <1>1, <2>3 DEF OtherStops, StopLands, Unplugged, PluggedIn, EnvTypes
    <2>4. CASE Report
      <3>1. PICK at \in {now} \cup {tele.at} :
              tele' = [by |-> car, at |-> at, plugged |-> plugged]
        BY <2>4 DEF Report
      <3>2. at \in 0..MaxTime
        BY <3>1 DEF EnvTypes
      <3>3. tele' \in [by : {"powersync", "external", None}, at : 0..MaxTime,
                       plugged : BOOLEAN]
        BY <3>1, <3>2 DEF EnvTypes
      <3> QED
        BY <2>4, <3>3 DEF Report, EnvTypes
    <2> QED
      BY <2>1, <2>2, <2>3, <2>4
  <1>3. RuntimeTypes' /\ StoreTypes'
    BY DEF Tick, OtherStarts, OtherStops, StopLands, Unplugged, PluggedIn, Report,
           memory, stored, RuntimeTypes, StoreTypes
  <1> QED
    BY <1>2, <1>3

\* Every step keeps the types.
LEMMA TypeStep == TypeOK /\ [Next]_vars => TypeOK'
  <1> SUFFICES ASSUME TypeOK, [Next]_vars
               PROVE  TypeOK'
    OBVIOUS
  <1> USE DurationsAreNatural DEF TypeOK
  <1>0. CASE UNCHANGED vars
    BY <1>0 DEF vars, env, memory, stored, EnvTypes, RuntimeTypes, StoreTypes
  <1>1. CASE \E ok \in BOOLEAN : StopEnds(ok)
    <2>1. PICK ok \in BOOLEAN : StopEnds(ok)
      BY <1>1
    <2>2. cmd' \in Commands
      BY <2>1, CommandShape DEF StopEnds, CommandNames, EnvTypes
    <2>3. EnvTypes'
      BY <2>1 DEF StopEnds, EnvTypes
    <2>4. RuntimeTypes'
      BY <2>1, <2>2 DEF StopEnds, RuntimeTypes
    <2>5. StoreTypes'
      BY <2>1 DEF StopEnds, Save, StoreTypes
    <2> QED
      BY <2>3, <2>4, <2>5
  <1>2. CASE \/ Tick \/ OtherStarts \/ OtherStops \/ StopLands \/ Unplugged
             \/ PluggedIn \/ Report
    BY <1>2, EnvironmentTypes
  <1>3. CASE \E mode \in Modes, allow \in BOOLEAN : Start(mode, allow)
    <2>1. PICK mode \in Modes, allow \in BOOLEAN : Start(mode, allow)
      BY <1>3
    <2>2. cmd' \in Commands
      BY <2>1, CommandShape DEF Start, CommandNames, EnvTypes
    <2>3. lease' \in Leases
      BY <2>1, LeaseShape DEF Start
    <2>4. EnvTypes'
      BY <2>1 DEF Start, Changes, EnvTypes
    <2>5. RuntimeTypes'
      BY <2>1, <2>2, <2>3, StoredShapes DEF Start, RuntimeTypes
    <2>6. StoreTypes'
      BY <2>1 DEF Start, Save, StoreTypes
    <2> QED
      BY <2>4, <2>5, <2>6
  <1>4. CASE \E mode \in Modes, allow \in BOOLEAN : StartRefused(mode, allow)
    <2>1. PICK mode \in Modes, allow \in BOOLEAN : StartRefused(mode, allow)
      BY <1>4
    <2>2. cmd' \in Commands
      BY <2>1, CommandShape DEF StartRefused, CommandNames, EnvTypes
    <2>3. EnvTypes'
      BY <2>1 DEF StartRefused, env, EnvTypes
    <2>4. RuntimeTypes'
      BY <2>1, <2>2 DEF StartRefused, RuntimeTypes
    <2>5. StoreTypes'
      BY <2>1 DEF StartRefused, Save, stored, StoreTypes
    <2> QED
      BY <2>3, <2>4, <2>5
  <1>5. CASE StopBegins
    <2>1. cmd' \in Commands
      BY <1>5, CommandShape DEF StopBegins, CommandNames, EnvTypes
    <2> QED
      BY <1>5, <2>1 DEF StopBegins, Save, env, stored, EnvTypes, RuntimeTypes,
         StoreTypes
  <1>6. CASE UserStops
    <2>1. cmd' \in Commands \cup {None} /\ lease' \in Leases \cup {None}
      BY <1>6, CommandShape DEF UserStops, CommandNames, EnvTypes, RuntimeTypes
    <2>2. EnvTypes'
      BY <1>6 DEF UserStops, EnvTypes
    <2>3. RuntimeTypes'
      BY <1>6, <2>1, StoredShapes DEF UserStops, EnvTypes, RuntimeTypes
    <2>4. StoreTypes'
      BY <1>6 DEF UserStops, Save, stored, StoreTypes
    <2> QED
      BY <2>2, <2>3, <2>4
  <1>7. CASE TrackerSeesCharging \/ PlannerSeesCharging
    <2>1. \E seen : EnsureExternal(seen)
      BY <1>7 DEF TrackerSeesCharging, PlannerSeesCharging
    <2>2. /\ lease' \in Leases \cup {None} /\ cmd' \in Commands \cup {None}
          /\ dirty' \in BOOLEAN
      BY <2>1, EnsuringTypes
    <2>3. recovered' \in Evidences
      BY <1>7, StoredShapes DEF TrackerSeesCharging, PlannerSeesCharging,
         Superseded, RuntimeTypes
    <2>4. idle' \in 0..1
      BY <1>7 DEF TrackerSeesCharging, PlannerSeesCharging, RuntimeTypes
    <2>5. polled' \in BOOLEAN
      BY <1>7 DEF TrackerSeesCharging, PlannerSeesCharging, RuntimeTypes
    <2> QED
      BY <1>7, <2>2, <2>3, <2>4, <2>5
         DEF TrackerSeesCharging, PlannerSeesCharging, env, stored,
         EnvTypes, RuntimeTypes, StoreTypes
  <1>8. CASE \E observed \in BOOLEAN : TrackerSeesIdle(observed)
    <2>1. PICK observed \in BOOLEAN : TrackerSeesIdle(observed)
      BY <1>8
    <2>2. Release("external") \/ ConfirmStop \/ UNCHANGED <<lease, cmd, dirty>>
      BY <2>1 DEF TrackerSeesIdle, IdlePoll
    <2>3. /\ lease' \in Leases \cup {None} /\ cmd' \in Commands \cup {None}
          /\ dirty' \in BOOLEAN
      BY <2>2, ReleaseTypes, ConfirmingTypes DEF CommandNames, RuntimeTypes,
         StoreTypes
    <2>4. idle' \in 0..1 /\ polled' = TRUE
      BY <2>1 DEF TrackerSeesIdle, IdlePoll
    <2> QED
      BY <2>1, <2>3, <2>4 DEF TrackerSeesIdle, IdlePoll, env, stored, EnvTypes,
         RuntimeTypes, StoreTypes
  <1>9. CASE SetPolicy
    <2>1. /\ lease' \in Leases \cup {None} /\ cmd' \in Commands \cup {None}
          /\ dirty' \in BOOLEAN
      BY <1>9, ReleaseTypes DEF SetPolicy, CommandNames, RuntimeTypes, StoreTypes
    <2> QED
      BY <1>9, <2>1 DEF SetPolicy, env, stored, EnvTypes, RuntimeTypes, StoreTypes
  <1>10. CASE Persist
    <2>1. disk' \in Snapshots
      BY <1>10, StoredShapes DEF Persist, EnvTypes, RuntimeTypes
    <2> QED
      BY <1>10, <2>1 DEF Persist, env, memory, EnvTypes, RuntimeTypes, StoreTypes
  <1>11. CASE Restart
    <2>1. cmd' \in Commands \cup {None}
      BY <1>11, CommandShape, SnapshotFields DEF Restart, RestartWith,
         CommandNames, EnvTypes, StoreTypes
    <2>2. owned' \in 0..(MaxTime + MaxAge)
      BY <1>11, SnapshotFields DEF Restart, RestartWith, StoreTypes
    <2>3. /\ disk.lease \in Leases \cup {None} /\ disk.at \in 0..MaxTime
          /\ disk.held \in 0..(MaxTime + Hold)
      BY SnapshotFields DEF StoreTypes
    <2>4. recovered' \in Evidences
      BY <1>11, <2>3, StoredShapes DEF Restart, RestartWith
    <2>5. EnvTypes'
      BY <1>11 DEF Restart, RestartWith, env, EnvTypes
    <2>7. /\ held' \in 0..(MaxTime + Hold) /\ lease' = None /\ idle' = 0
          /\ calling' = FALSE /\ UNCHANGED <<policy, polled>>
      BY <1>11, <2>3 DEF Restart, RestartWith
    <2>8. RuntimeTypes'
      <3>1. calling' \in BOOLEAN /\ polled' \in BOOLEAN
        BY <2>7 DEF RuntimeTypes
      <3> QED
        BY <2>1, <2>4, <2>7, <3>1 DEF RuntimeTypes
    <2>6. StoreTypes'
      BY <1>11, <2>2 DEF Restart, RestartWith, StoreTypes
    <2> QED
      BY <2>5, <2>6, <2>8
  <1> QED
    BY <1>0, <1>1, <1>2, <1>3, <1>4, <1>5, <1>6, <1>7, <1>8, <1>9, <1>10, <1>11
       DEF Next

\* What the initial state gives.
LEMMA TypeInitially == Init => TypeOK
  <1> SUFFICES ASSUME Init PROVE TypeOK
    OBVIOUS
  <1> USE DurationsAreNatural DEF Init
  <1>1. EnvTypes
    BY DEF EnvTypes
  <1>2. recovered \in Evidences
    BY StoredShapes DEF Discarded
  <1>3. RuntimeTypes
    <2>1. calling \in BOOLEAN /\ polled \in BOOLEAN
      OBVIOUS
    <2> QED
      BY <1>2, <2>1 DEF RuntimeTypes
  <1>4. disk \in Snapshots
    BY DEF Snapshots
  <1>5. StoreTypes
    <2>1. dirty \in BOOLEAN
      OBVIOUS
    <2> QED
      BY <1>4, <2>1 DEF StoreTypes
  <1> QED
    BY <1>1, <1>3, <1>5 DEF TypeOK

\* Every variable keeps to its values, for all durations, modes, policies and
\* events: no lease, command or snapshot ever lacks a field or runs past the
\* clock.
THEOREM TypeCorrect == Spec => []TypeOK
  BY TypeInitially, TypeStep, PTL DEF Spec

-----------------------------------------------------------------------------
(* The clock, the car and its telemetry                                    *)

\* Nothing lies in the future, an accepted stop is not overdue, and telemetry
\* is not behind the car for longer than it may be.
ClockFacts ==
  /\ changed <= now /\ tele.at <= now
  /\ dies # None => now <= dies
  /\ TelemetryIsBehind => now <= changed + Lag

\* Every step keeps to that.
LEMMA ClockStep ==
  ASSUME TypeOK, ClockFacts, [Next]_vars
  PROVE  ClockFacts'
  <1> USE DurationsAreNatural, NoneIsNothing DEF TypeOK, EnvTypes, ClockFacts
  <1>0. CASE UNCHANGED env
    BY <1>0 DEF env, TelemetryIsBehind
  <1>1. CASE \E ok \in BOOLEAN : StopEnds(ok)
    <2>1. PICK ok \in BOOLEAN : StopEnds(ok)
      BY <1>1
    <2>2. /\ UNCHANGED <<now, changed, tele, plugged>>
          /\ dies' \in {dies, now + Latency}
          /\ (car = None) = (car' = None)
      BY <2>1 DEF StopEnds
    <2> QED
      BY <2>2 DEF TelemetryIsBehind
  <1>2. CASE Tick
    BY <1>2 DEF Tick, TelemetryIsBehind
  <1>3. ASSUME UNCHANGED <<now, tele>>, dies' \in {dies, None}, Changes
        PROVE  ClockFacts'
    BY <1>3 DEF Changes, TelemetryIsBehind
  <1>4. CASE OtherStarts
    <2>1. /\ UNCHANGED <<now, dies, plugged>> /\ tele'.at = tele.at
          /\ tele'.plugged = tele.plugged /\ (tele'.by = None) = (tele.by = None)
      <3>1. CASE tele.by = None
        BY <1>4, <3>1 DEF OtherStarts
      <3>2. CASE tele.by # None
        <4>1. tele' = [tele EXCEPT !.by = "external"]
          BY <1>4, <3>2 DEF OtherStarts
        <4>2. /\ tele'.by = "external" /\ tele'.at = tele.at
              /\ tele'.plugged = tele.plugged
          BY <4>1
        <4> QED
          BY <1>4, <3>2, <4>2 DEF OtherStarts
      <3> QED
        BY <3>1, <3>2
    <2>2. changed' = IF TelemetryIsBehind THEN changed ELSE now
      BY <1>4 DEF OtherStarts, Changes
    <2>3. tele'.at <= now' /\ (dies' # None => now' <= dies')
      BY <2>1
    <2>4. changed' <= now' /\ now' <= changed' + Lag
      BY <2>1, <2>2
    <2> QED
      BY <2>3, <2>4
  <1>5. CASE OtherStops \/ StopLands \/ Unplugged \/ PluggedIn
    BY <1>3, <1>5 DEF OtherStops, StopLands, Unplugged, PluggedIn
  <1>6. CASE Report
    <2>1. /\ UNCHANGED <<now, changed, car, dies, plugged>>
          /\ tele'.by = car /\ tele'.plugged = plugged /\ tele'.at <= now
      BY <1>6 DEF Report
    <2> QED
      BY <2>1 DEF TelemetryIsBehind
  <1>7. CASE \E mode \in Modes, allow \in BOOLEAN : Start(mode, allow)
    BY <1>3, <1>7 DEF Start
  <1>8. CASE UserStops
    BY <1>8 DEF UserStops, TelemetryIsBehind
  <1> QED
    BY <1>0, <1>1, <1>2, <1>4, <1>5, <1>6, <1>7, <1>8
       DEF Next, vars, StartRefused, StopBegins, TrackerSeesCharging,
           PlannerSeesCharging, TrackerSeesIdle, IdlePoll, SetPolicy, Persist,
           Restart, RestartWith

\* What the initial state gives.
LEMMA ClockInitially == Init => ClockFacts
  BY DurationsAreNatural DEF Init, ClockFacts, TelemetryIsBehind

-----------------------------------------------------------------------------
(* The end of a provisional lease.  The first poll after its window is the *)
(* first idle one at worst, and the second one ends it, unless the lease   *)
(* was made by the very poll at the end of the window.                     *)

LapseFacts ==
  Settling(lease) =>
    /\ tele.at > lease.stopAt
    /\ now <= lease.until + 2
    /\ now = lease.until + 1 /\ polled => idle = 1
    /\ now = lease.until + 2 => idle = 1 /\ ~polled

\* Every step keeps to that, where the tracker follows the car.
LEMMA LapseStep ==
  ASSUME Tracked, TypeOK, ClockFacts, LapseFacts, [Next]_vars
  PROVE  LapseFacts'
  <1> USE DurationsAreNatural DEF TypeOK
  <1>0. \A l \in Leases : l.stopAt \in Nat /\ l.until \in Nat
    BY LeaseShape
  <1>1. CASE ~Settling(lease')
    BY <1>1 DEF LapseFacts
  <1>2. CASE UNCHANGED <<lease, now, idle, polled>> /\ tele'.at \in {tele.at, now}
    BY <1>0, <1>2 DEF LapseFacts, ClockFacts, EnvTypes, RuntimeTypes, Settling,
       IsExternal
  <1>3. CASE Tick
    <2>1. UNCHANGED <<lease, idle, tele>> /\ polled /\ now' = now + 1 /\ ~polled'
      BY <1>3 DEF Tick, memory
    <2>2. Settling(lease) => now <= lease.until + 1 /\ (now = lease.until + 1 => idle = 1)
      BY <1>0, <2>1 DEF LapseFacts, EnvTypes, RuntimeTypes, Settling, IsExternal
    <2> QED
      BY <1>0, <2>1, <2>2
         DEF LapseFacts, EnvTypes, RuntimeTypes, Settling, IsExternal
  <1>4. CASE Report
    <2>1. UNCHANGED <<lease, now, idle, polled>> /\ tele'.at \in {tele.at, now}
      BY <1>4 DEF Report, memory
    <2> QED
      BY <1>2, <2>1
  <1>5. CASE TrackerSeesCharging
    <2>1. EnsureExternal(tele.at) /\ UNCHANGED <<now, tele>>
      BY <1>5 DEF TrackerSeesCharging, env
    <2>2. CASE Settling(lease) /\ now < lease.until /\ UNCHANGED lease
      BY <1>0, <2>1, <2>2
         DEF LapseFacts, EnvTypes, RuntimeTypes, Settling, IsExternal
    <2>3. CASE /\ lease' = Lease("external", cmd.at, cmd.at + Confirm)
               /\ StopIsOpen(cmd) /\ now - cmd.at <= Confirm
               /\ tele.at # None => tele.at > cmd.at
      <3>1. cmd.at \in Nat /\ tele.at \in Nat /\ tele.at # None
        BY <2>3, NoneIsNothing DEF StopIsOpen, Commands, RuntimeTypes, EnvTypes
      <3>2. lease'.stopAt = cmd.at /\ lease'.until = cmd.at + Confirm
        BY <2>3 DEF Lease
      <3> QED
        BY <2>1, <2>3, <3>1, <3>2 DEF LapseFacts, EnvTypes
    <2>4. CASE ~Settling(lease')
      BY <1>1, <2>4
    <2>5. \/ Settling(lease) /\ now < lease.until /\ UNCHANGED lease
          \/ ~Settling(lease) /\ UNCHANGED lease
          \/ lease' = None \/ lease' = External
          \/ /\ lease' = Lease("external", cmd.at, cmd.at + Confirm)
             /\ StopIsOpen(cmd) /\ now - cmd.at <= Confirm
             /\ tele.at # None => tele.at > cmd.at
      <3>1. IsPowersync(lease) \/ Sticky(lease) \/ lease = None => ~Settling(lease)
        BY DEF IsPowersync, Sticky, Settling, IsExternal
      <3> QED
        BY <2>1, <3>1 DEF EnsureExternal, Release
    <2>6. ~Settling(None) /\ ~Settling(External)
      BY DEF Settling, IsExternal, External, Lease
    <2> QED
      BY <2>2, <2>3, <2>4, <2>5, <2>6
  <1>6. CASE \E observed \in BOOLEAN : TrackerSeesIdle(observed)
    <2>1. PICK observed \in BOOLEAN : TrackerSeesIdle(observed)
      BY <1>6
    <2>2. UNCHANGED <<now, tele>> /\ polled'
      BY <2>1 DEF TrackerSeesIdle, IdlePoll, env
    <2>3. CASE Settling(lease) /\ idle = 0 /\ idle' = 1 /\ UNCHANGED lease
      BY <1>0, <2>2, <2>3
         DEF LapseFacts, EnvTypes, RuntimeTypes, Settling, IsExternal
    <2>4. \/ Settling(lease) /\ idle = 0 /\ idle' = 1 /\ UNCHANGED lease
          \/ ~Settling(lease) /\ UNCHANGED lease
          \/ lease' = None
      <3>1. Release("external") \/ Release("stop_observed") => lease' = None
        BY DEF Release
      <3>2. ConfirmStop => lease' = None \/ (~Settling(lease) /\ UNCHANGED lease)
        BY <3>1 DEF ConfirmStop, LapseFacts, Settling
      <3> QED
        BY <2>1, <3>1, <3>2 DEF TrackerSeesIdle, IdlePoll, Settling
    <2>5. ~Settling(None)
      BY DEF Settling, IsExternal
    <2> QED
      BY <1>1, <2>3, <2>4, <2>5
  <1>7. CASE \/ \E ok \in BOOLEAN : StopEnds(ok)
             \/ OtherStarts \/ OtherStops \/ StopLands \/ Unplugged \/ PluggedIn
    <2>1. UNCHANGED <<lease, now, idle, polled>> /\ tele'.at = tele.at
      BY <1>7 DEF StopEnds, OtherStarts, OtherStops, StopLands, Unplugged,
         PluggedIn, memory, EnvTypes
    <2> QED
      BY <1>2, <2>1
  <1>8. CASE \E mode \in Modes, allow \in BOOLEAN : Start(mode, allow)
    <2>1. ~Settling(lease')
      BY <1>8, ModesAreKnown DEF Start, Settling, IsExternal, Lease
    <2> QED
      BY <1>1, <2>1
  <1>9. CASE \/ \E mode \in Modes, allow \in BOOLEAN : StartRefused(mode, allow)
             \/ StopBegins \/ UserStops \/ SetPolicy \/ Persist \/ Restart
    <2>1. ~Settling(None)
      BY DEF Settling, IsExternal
    <2>2. \/ lease' = None
          \/ UNCHANGED <<lease, now, idle, polled, tele>>
      BY <1>9 DEF StartRefused, StopBegins, UserStops, SetPolicy, Release, Persist,
         Restart, RestartWith, env, memory
    <2> QED
      BY <1>1, <1>2, <2>1, <2>2
  <1>10. CASE UNCHANGED vars
    BY <1>2, <1>10 DEF vars, env, memory
  <1> QED
    BY <1>3, <1>4, <1>5, <1>6, <1>7, <1>8, <1>9, <1>10
       DEF Next, PlannerSeesCharging

\* Where the tracker follows the car, the lease of a settling stop is gone two
\* polls after its window, whatever telemetry shows, and for all durations.
THEOREM SettlingEnds ==
  ASSUME Tracked
  PROVE  Spec => []SettlingLapses
  <1>1. Init => TypeOK /\ ClockFacts /\ LapseFacts
    BY TypeInitially, ClockInitially DEF Init, LapseFacts, Settling, IsExternal
  <1>2. TypeOK /\ ClockFacts /\ LapseFacts /\ [Next]_vars
        => (TypeOK /\ ClockFacts /\ LapseFacts)'
    BY TypeStep, ClockStep, LapseStep
  <1>3. LapseFacts => SettlingLapses
    BY DEF LapseFacts, SettlingLapses
  <1> QED
    BY <1>1, <1>2, <1>3, PTL DEF Spec

-----------------------------------------------------------------------------
(* PowerSync's own charge.  After an accepted stop the car may go on for    *)
(* Latency and telemetry for Lag after that; both must end within the times *)
(* in which ownership disregards what telemetry shows.                      *)

\* The times fit each other, no start is refused and no user stops the charge,
\* nothing happens while a stop waits for its answer, external charging is
\* yielded to, and Home Assistant restarts at most once.
OwnPremises ==
  /\ Latency + Lag <= Settle /\ Latency + Lag < Confirm
  /\ Happens \subseteq {"outside_charge"}
  /\ "override" \notin Policies
  /\ MaxRestarts <= 1

Always == MaxTime + MaxAge

\* What is not saved yet is marked so.
SavedFacts == ~dirty => disk.lease = lease /\ disk.cmd = cmd

\* While a stop waits for its answer there is no lease; before the restart there
\* is no evidence of one and the charge counts as owned for ever or not at all;
\* a charge that somebody else carries on is not owned.
OwnedFacts ==
  /\ calling => lease = None
  /\ restarts = 0 => owned \in {0, Always} /\ recovered.lease = None
  /\ tele.by = "powersync" /\ car = "external" => owned = 0

\* A charge of PowerSync's own that is seen or goes on without a lease.
Stray ==
  /\ tele.by = "powersync" \/ car = "powersync"
  /\ ~IsPowersync(lease) /\ ~calling /\ now <= owned

\* It is covered by fresh restart evidence,
Evidence ==
  /\ lease = None /\ IsPowersync(recovered.lease)
  /\ owned <= recovered.at + MaxAge

\* or by a stop at s that is open or settles
SettlesAt(s) ==
  \/ /\ lease = None /\ StopIsOpen(cmd)
     /\ cmd.name = "stop" /\ cmd.at = s
  \/ /\ Settling(lease) /\ lease.stopAt = s /\ lease.until = s + Confirm
     /\ Tracked => tele.at > s

\* and to which the car and its telemetry answer in time.
Answers(s) ==
  /\ car = "powersync" => /\ dies # None /\ dies <= s + Latency
                          /\ tele.by = None => tele.at <= s
  /\ car = None /\ tele.by = "powersync" => changed <= s + Latency

OwnIsCovered ==
  Stray => Evidence \/ \E s \in 0..MaxTime : SettlesAt(s) /\ Answers(s)

\* Telemetry of a charge changes the lease only with a save pending.
LEMMA EnsuringSaves ==
  ASSUME NEW seen, EnsureExternal(seen)
  PROVE  dirty' = TRUE \/ UNCHANGED <<lease, cmd, dirty>>
  BY DEF EnsureExternal, Release, Save

\* Every step keeps what the disk is known to hold.
LEMMA SavedStep ==
  ASSUME TypeOK, SavedFacts, [Next]_vars
  PROVE  SavedFacts'
  <1> USE DEF SavedFacts
  <1>1. CASE dirty' = TRUE
    BY <1>1
  <1>2. CASE UNCHANGED <<lease, cmd, dirty, disk>>
    BY <1>2
  <1>3. CASE \/ \E ok \in BOOLEAN : StopEnds(ok)
             \/ \E mode \in Modes, allow \in BOOLEAN : Start(mode, allow)
             \/ \E mode \in Modes, allow \in BOOLEAN : StartRefused(mode, allow)
             \/ StopBegins \/ UserStops
    BY <1>1, <1>3 DEF StopEnds, Start, StartRefused, StopBegins, UserStops, Save
  <1>4. CASE TrackerSeesCharging \/ PlannerSeesCharging
    <2>1. dirty' = TRUE \/ UNCHANGED <<lease, cmd, dirty>>
      BY <1>4, EnsuringSaves DEF TrackerSeesCharging, PlannerSeesCharging
    <2> QED
      BY <1>1, <1>2, <1>4, <2>1
         DEF TrackerSeesCharging, PlannerSeesCharging, stored
  <1>5. CASE \E observed \in BOOLEAN : TrackerSeesIdle(observed)
    <2>1. PICK observed \in BOOLEAN : TrackerSeesIdle(observed)
      BY <1>5
    <2>2. dirty' = TRUE \/ UNCHANGED <<lease, cmd, dirty>>
      BY <2>1 DEF TrackerSeesIdle, IdlePoll, ConfirmStop, Release, Save
    <2> QED
      BY <1>1, <1>2, <2>1, <2>2 DEF TrackerSeesIdle, IdlePoll, stored
  <1>6. CASE SetPolicy
    BY <1>1, <1>2, <1>6 DEF SetPolicy, Release, Save, stored
  <1>7. CASE Persist
    BY <1>7 DEF Persist, memory
  <1>8. CASE Restart
    BY <1>8 DEF Restart, RestartWith
  <1> QED
    BY <1>2, <1>3, <1>4, <1>5, <1>6, <1>7, <1>8
       DEF Next, vars, memory, stored, Tick, OtherStarts, OtherStops, StopLands,
           Unplugged, PluggedIn, Report

\* Without the excluded events only the answer to a stop happens while it waits.
LEMMA CallIsAlone ==
  ASSUME OwnPremises, [Next]_vars, calling
  PROVE  (\E ok \in BOOLEAN : StopEnds(ok)) \/ UNCHANGED vars
  BY DEF Next, Free, OwnPremises

\* The steps the premises leave.
LEMMA OwnSteps ==
  ASSUME OwnPremises, TypeOK, [Next]_vars
  PROVE  \/ \E ok \in BOOLEAN : StopEnds(ok)
         \/ Tick \/ OtherStarts \/ OtherStops \/ StopLands \/ Unplugged
         \/ PluggedIn \/ Report
         \/ \E mode \in Modes, allow \in BOOLEAN : Start(mode, allow)
         \/ StopBegins \/ TrackerSeesCharging \/ PlannerSeesCharging
         \/ \E observed \in BOOLEAN : TrackerSeesIdle(observed)
         \/ Persist \/ Restart \/ UNCHANGED vars
  <1>1. ~SetPolicy
    BY PoliciesAreKnown DEF SetPolicy, OwnPremises, TypeOK, RuntimeTypes
  <1>2. ~UserStops /\ \A mode, allow : ~StartRefused(mode, allow)
    BY DEF UserStops, StartRefused, OwnPremises
  <1> QED
    BY <1>1, <1>2 DEF Next

\* Every step keeps what is known of the evidence and of who owns a charge.
LEMMA OwnedStep ==
  ASSUME OwnPremises, TypeOK, OwnedFacts, [Next]_vars
  PROVE  OwnedFacts'
  <1> USE DurationsAreNatural, NoneIsNothing DEF TypeOK, OwnedFacts
  <1>0. CASE calling
    <2>1. CASE UNCHANGED vars
      BY <2>1 DEF vars, env, memory, stored
    <2>2. CASE \E ok \in BOOLEAN : StopEnds(ok)
      BY <2>2 DEF StopEnds, EnvTypes
    <2> QED
      BY <1>0, <2>1, <2>2, CallIsAlone
  <1>1. CASE \E ok \in BOOLEAN : StopEnds(ok)
    BY <1>0, <1>1 DEF StopEnds
  <1>2. CASE Tick \/ Persist \/ UNCHANGED vars
    BY <1>2 DEF Tick, Persist, vars, env, memory, stored
  <1>3. CASE OtherStarts
    <2>1. tele.by = None => tele'.by = None
      BY <1>3 DEF OtherStarts
    <2>2. tele.by # None => tele'.by = "external"
      BY <1>3 DEF OtherStarts, EnvTypes
    <2>3. tele'.by # "powersync"
      BY <2>1, <2>2
    <2> QED
      BY <1>3, <2>3 DEF OtherStarts, memory, stored
  <1>4. CASE OtherStops \/ StopLands \/ Unplugged
    BY <1>4 DEF OtherStops, StopLands, Unplugged, memory, stored
  <1>5. CASE PluggedIn
    BY <1>5 DEF PluggedIn, memory, stored
  <1>6. CASE Report
    BY <1>6 DEF Report, memory, stored
  <1>7. CASE \E mode \in Modes, allow \in BOOLEAN : Start(mode, allow)
    <2>1. PICK mode \in Modes, allow \in BOOLEAN : Start(mode, allow)
      BY <1>7
    <2>2. /\ UNCHANGED <<calling, restarts>> /\ car' = "powersync"
          /\ owned' = Always /\ recovered'.lease = None
      BY <2>1 DEF Start, Always, Discarded
    <2> QED
      BY <1>0, <2>2
  <1>8. CASE StopBegins
    BY <1>8 DEF StopBegins, env, stored
  <1>9. CASE TrackerSeesCharging \/ PlannerSeesCharging
    <2>1. UNCHANGED <<tele, car, owned, restarts, calling>>
      BY <1>9 DEF TrackerSeesCharging, PlannerSeesCharging, env, stored
    <2>2. recovered' \in {recovered, Discarded} /\ Discarded.lease = None
      BY <1>9 DEF TrackerSeesCharging, PlannerSeesCharging, Superseded, Discarded
    <2> QED
      BY <1>0, <2>1, <2>2
  <1>10. CASE \E observed \in BOOLEAN : TrackerSeesIdle(observed)
    BY <1>0, <1>10 DEF TrackerSeesIdle, IdlePoll, env, stored
  <1>11. CASE Restart
    <2>1. restarts = 0 /\ restarts' # 0 /\ lease' = None
      BY <1>11 DEF Restart, RestartWith, OwnPremises, StoreTypes
    <2>2. owned = 0 => owned' = 0
      BY <1>0, <1>11 DEF Restart, RestartWith
    <2> QED
      BY <1>11, <2>1, <2>2 DEF Restart, RestartWith, env
  <1> QED
    BY <1>1, <1>2, <1>3, <1>4, <1>5, <1>6, <1>7, <1>8, <1>9, <1>10, <1>11, OwnSteps

\* A stray charge that is covered by a stop is not seen after the stop has
\* settled, nor while what telemetry shows is still told from a new charge.
LEMMA StrayEnds ==
  ASSUME OwnPremises, TypeOK, ClockFacts, OwnedFacts, Stray, tele.by # None,
         NEW s \in 0..MaxTime, Answers(s)
  PROVE  now <= s + Latency + Lag
  <1> USE DurationsAreNatural, NoneIsNothing DEF TypeOK, EnvTypes
  <1>1. CASE car = "powersync"
    BY <1>1 DEF Answers, ClockFacts
  <1>2. CASE car = None
    <2>1. tele.by = "powersync" /\ TelemetryIsBehind
      BY <1>2 DEF Stray, TelemetryIsBehind
    <2> QED
      BY <1>2, <2>1 DEF Answers, ClockFacts
  <1>3. CASE car = "external"
    BY <1>3 DEF Stray, OwnedFacts
  <1> QED
    BY <1>1, <1>2, <1>3

\* Telemetry of a stray charge makes no lasting lease of it: the charge stays
\* covered by the evidence or the stop that covered it.
LEMMA StrayIsNotTaken ==
  ASSUME OwnPremises, TypeOK, ClockFacts, OwnedFacts, OwnIsCovered, Stray,
         tele.by # None, NEW seen \in {tele.at, None}, EnsureExternal(seen),
         Tracked => seen = tele.at,
         recovered' = Superseded, UNCHANGED <<env, owned>>
  PROVE  Evidence' \/ \E s \in 0..MaxTime : SettlesAt(s)' /\ Answers(s)'
  <1> USE DurationsAreNatural, NoneIsNothing DEF TypeOK
  <1>0. \A t : t \in 0..MaxTime => t \in Nat
    OBVIOUS
  <1>1. CASE Evidence
    <2>1. recovered.at \in Nat /\ now \in Nat /\ owned \in Nat /\ now <= owned
      BY DEF RuntimeTypes, Evidences, EnvTypes, StoreTypes, Stray
    <2>2. EvidenceIsFresh /\ lease = None
      BY <1>1, <2>1 DEF Evidence, EvidenceIsFresh
    <2>3. UNCHANGED lease
      BY <2>2 DEF EnsureExternal, Settling, Sticky, IsExternal, IsPowersync
    <2> QED
      BY <1>1, <2>3 DEF Evidence, Superseded
  <1>2. ASSUME NEW s \in 0..MaxTime, SettlesAt(s), Answers(s)
        PROVE  SettlesAt(s)' \/ Evidence'
    <2>1. now <= s + Latency + Lag
      BY <1>2, StrayEnds
    <2>2. now \in Nat /\ tele.at \in Nat /\ s \in Nat
      BY DEF EnvTypes
    <2>3. CASE Settling(lease)
      <3>1. lease # None /\ lease.until = s + Confirm /\ lease.stopAt = s
        BY <1>2, <2>3 DEF SettlesAt, Settling, IsExternal
      <3>2. now < lease.until
        BY <2>1, <2>2, <3>1 DEF OwnPremises
      <3>3. UNCHANGED lease
        BY <2>2, <2>3, <3>1, <3>2 DEF EnsureExternal, Sticky, Settling, IsPowersync,
           IsExternal
      <3> QED
        BY <1>2, <2>3, <3>3 DEF SettlesAt, Settling, IsExternal, env
    <2>4. CASE ~Settling(lease)
      <3>1. /\ lease = None /\ StopIsOpen(cmd) /\ cmd.name = "stop" /\ cmd.at = s
            /\ cmd # None
        BY <1>2, <2>4 DEF SettlesAt, StopIsOpen
      <3>2. now - cmd.at <= Confirm /\ now - cmd.at <= Settle
        BY <2>1, <2>2, <3>1 DEF OwnPremises
      <3>3. \/ UNCHANGED <<lease, cmd>>
            \/ /\ lease' = Lease("external", cmd.at, cmd.at + Confirm)
               /\ seen # None => seen > cmd.at
        <4>1. ~Settling(None) /\ ~Sticky(None) /\ ~IsPowersync(None)
          BY DEF Settling, Sticky, IsExternal, IsPowersync
        <4>2. seen # None => seen \in Nat
          BY <2>2
        <4> QED
          BY <2>2, <3>1, <3>2, <4>1, <4>2 DEF EnsureExternal
      <3>4. CASE UNCHANGED <<lease, cmd>>
        BY <3>1, <3>4 DEF SettlesAt
      <3>5. CASE /\ lease' = Lease("external", cmd.at, cmd.at + Confirm)
                 /\ seen # None => seen > cmd.at
        <4>1. lease'.stopAt = s /\ lease'.until = s + Confirm /\ lease'.mode = "external"
          BY <3>1, <3>5 DEF Lease
        <4>2. s + Confirm > 0 /\ s + Confirm \in 0..(MaxTime + Confirm)
          BY <2>2 DEF OwnPremises
        <4>3. lease' # None
          BY <3>1, <3>5, <4>2, LeaseShape
        <4>4. Settling(lease')
          BY <4>1, <4>2, <4>3 DEF Settling, IsExternal
        <4>5. Tracked => tele'.at > s
          BY <2>2, <3>1, <3>5 DEF env
        <4> QED
          BY <4>1, <4>4, <4>5 DEF SettlesAt
      <3> QED
        BY <3>3, <3>4, <3>5
    <2> QED
      BY <2>3, <2>4
  <1>3. \A s : Answers(s) => Answers(s)'
    BY DEF Answers, env
  <1> QED
    BY <1>1, <1>2, <1>3 DEF OwnIsCovered

\* The environment leaves the evidence and the stop alone: it is enough that a
\* stray charge was one before, and that the answers still come in time.
LEMMA CoveredOutside ==
  ASSUME TypeOK, OwnIsCovered, Stray' => Stray, UNCHANGED <<memory, owned>>,
         tele'.at \in {tele.at, now}, tele.at <= now,
         \A s \in 0..MaxTime : Stray' /\ Answers(s) => Answers(s)'
  PROVE  OwnIsCovered'
  <1> SUFFICES ASSUME Stray'
               PROVE  Evidence' \/ \E s \in 0..MaxTime : SettlesAt(s)' /\ Answers(s)'
    BY DEF OwnIsCovered
  <1>1. CASE Evidence
    BY <1>1 DEF Evidence, memory
  <1>2. ASSUME NEW s \in 0..MaxTime, SettlesAt(s), Answers(s)
        PROVE  SettlesAt(s)' /\ Answers(s)'
    <2>1. Tracked /\ tele.at > s => tele'.at > s
      BY DEF TypeOK, EnvTypes
    <2>2. SettlesAt(s)'
      BY <1>2, <2>1 DEF SettlesAt, memory
    <2> QED
      BY <1>2, <2>2
  <1> QED
    BY <1>1, <1>2 DEF OwnIsCovered

\* The environment keeps a charge of PowerSync's own covered.
LEMMA CoveredByEnvironment ==
  ASSUME TypeOK, ClockFacts, OwnedFacts, OwnIsCovered,
         \/ Tick \/ OtherStarts \/ OtherStops \/ StopLands \/ Unplugged
         \/ PluggedIn \/ Report
  PROVE  OwnIsCovered'
  <1> USE DurationsAreNatural, NoneIsNothing DEF TypeOK, EnvTypes, StoreTypes
  <1>0. UNCHANGED <<memory, owned>> /\ tele.at <= now
    BY DEF Tick, OtherStarts, OtherStops, StopLands, Unplugged, PluggedIn, Report,
       ClockFacts, stored
  <1>1. CASE Tick
    <2>1. UNCHANGED <<car, changed, dies, tele>> /\ now' = now + 1
      BY <1>1 DEF Tick
    <2>2. Stray' => Stray
      BY <1>0, <2>1 DEF Stray, memory
    <2>3. \A s \in 0..MaxTime : Answers(s) => Answers(s)'
      BY <2>1 DEF Answers
    <2> QED
      BY <1>0, <2>1, <2>2, <2>3, CoveredOutside
  <1>2. CASE OtherStarts
    <2>1. tele'.by # "powersync"
      <3>1. CASE tele.by = None
        BY <1>2, <3>1 DEF OtherStarts
      <3>2. CASE tele.by # None
        <4>1. tele' = [tele EXCEPT !.by = "external"]
          BY <1>2, <3>2 DEF OtherStarts
        <4> QED
          BY <4>1
      <3> QED
        BY <3>1, <3>2
    <2>2. car' = "external"
      BY <1>2 DEF OtherStarts
    <2> QED
      BY <2>1, <2>2 DEF OwnIsCovered, Stray
  <1>3. CASE OtherStops \/ StopLands \/ Unplugged
    <2>1. /\ UNCHANGED <<now, tele>> /\ car' = None /\ Changes
          /\ StopLands \/ car # "powersync"
      BY <1>3 DEF OtherStops, StopLands, Unplugged
    <2>2. Stray' => Stray /\ tele.by = "powersync" /\ car # "external"
      BY <1>0, <2>1 DEF Stray, memory, OwnedFacts
    <2>3. ASSUME NEW s \in 0..MaxTime, Answers(s), Stray'
          PROVE  Answers(s)'
      <3>1. tele.by = "powersync" /\ car # "external"
        BY <2>2, <2>3
      <3>2. CASE car = "powersync"
        <4>1. now <= s + Latency
          BY <1>3, <2>1, <2>3, <3>2 DEF Answers, ClockFacts
        <4>2. changed' <= now
          BY <2>1 DEF Changes, ClockFacts
        <4> QED
          BY <2>1, <4>1, <4>2 DEF Answers, Changes
      <3>3. CASE car = None
        <4>1. TelemetryIsBehind
          BY <3>1, <3>3 DEF TelemetryIsBehind
        <4> QED
          BY <2>1, <2>3, <3>1, <3>3, <4>1 DEF Answers, Changes
      <3> QED
        BY <3>1, <3>2, <3>3
    <2> QED
      BY <1>0, <2>1, <2>2, <2>3, CoveredOutside
  <1>4. CASE PluggedIn
    <2>1. UNCHANGED <<now, tele, car, dies>> /\ Changes
      BY <1>4 DEF PluggedIn
    <2>2. Stray' => Stray
      BY <1>0, <2>1 DEF Stray, memory
    <2>3. car = None /\ tele.by = "powersync" => changed' = changed
      BY <2>1 DEF Changes, TelemetryIsBehind
    <2>4. \A s \in 0..MaxTime : Answers(s) => Answers(s)'
      BY <2>1, <2>3 DEF Answers
    <2> QED
      BY <1>0, <2>1, <2>2, <2>4, CoveredOutside
  <1>5. CASE Report
    <2>1. /\ UNCHANGED <<now, changed, car, dies>>
          /\ tele'.by = car /\ tele'.at \in {tele.at, now}
      BY <1>5 DEF Report
    <2>2. Stray' => Stray /\ car = "powersync"
      BY <1>0, <2>1 DEF Stray, memory
    <2>3. \A s \in 0..MaxTime : Stray' /\ Answers(s) => Answers(s)'
      BY <2>1, <2>2 DEF Answers
    <2> QED
      BY <1>0, <2>1, <2>2, <2>3, CoveredOutside
  <1> QED
    BY <1>1, <1>2, <1>3, <1>4, <1>5

\* The answer to a stop covers the charge: it settles, or the car has refused
\* and the charge is no longer PowerSync's own.
LEMMA CoveredByAnswer ==
  ASSUME TypeOK, ClockFacts, OwnedFacts, NEW ok \in BOOLEAN, StopEnds(ok)
  PROVE  OwnIsCovered'
  <1> USE DurationsAreNatural, NoneIsNothing DEF TypeOK, EnvTypes
  <1>1. CASE ~ok
    <2>1. owned' = 0 /\ now' = now
      BY <1>1 DEF StopEnds
    <2> QED
      BY <2>1 DEF OwnIsCovered, Stray
  <1>2. CASE ok
    <2>1. /\ UNCHANGED <<now, changed, tele>> /\ lease' = None
          /\ cmd' = Command("stop", TRUE) /\ car' = car
          /\ car = "powersync" => dies' = now + Latency
      BY <1>2 DEF StopEnds, OwnedFacts
    <2>2. /\ cmd'.name = "stop" /\ cmd'.ok /\ cmd'.at = now /\ ~cmd'.settled
      BY <2>1 DEF Command
    <2>3. cmd' # None
      BY <2>1, CommandShape DEF CommandNames
    <2>4. SettlesAt(now)'
      BY <2>1, <2>2, <2>3 DEF SettlesAt, StopIsOpen
    <2>5. Answers(now)'
      BY <2>1 DEF Answers, ClockFacts
    <2>6. \E s \in 0..MaxTime : SettlesAt(s)' /\ Answers(s)'
      BY <2>1, <2>4, <2>5
    <2> QED
      BY <2>6 DEF OwnIsCovered
  <1> QED
    BY <1>1, <1>2

\* Telemetry of a charge keeps it covered.
LEMMA CoveredBySight ==
  ASSUME OwnPremises, TypeOK, ClockFacts, OwnedFacts, OwnIsCovered,
         TrackerSeesCharging \/ PlannerSeesCharging
  PROVE  OwnIsCovered'
  <1>1. PICK seen \in {tele.at, None} :
          EnsureExternal(seen) /\ (Tracked => seen = tele.at)
    BY DEF TrackerSeesCharging, PlannerSeesCharging
  <1>2. /\ UNCHANGED <<env, owned, calling>> /\ recovered' = Superseded
        /\ tele.by # None
    BY DEF TrackerSeesCharging, PlannerSeesCharging, stored
  <1>3. CASE Stray
    BY <1>1, <1>2, <1>3, StrayIsNotTaken DEF OwnIsCovered
  <1>4. CASE ~Stray
    <2>1. IsPowersync(lease) => UNCHANGED lease
      BY <1>1 DEF EnsureExternal, IsPowersync, Settling, Sticky, IsExternal
    <2> QED
      BY <1>2, <1>4, <2>1 DEF OwnIsCovered, Stray, env
  <1> QED
    BY <1>3, <1>4

\* An idle poll does not end what covers a charge that goes on unseen.
LEMMA CoveredByIdlePoll ==
  ASSUME TypeOK, ClockFacts, OwnedFacts, OwnIsCovered,
         NEW observed \in BOOLEAN, TrackerSeesIdle(observed)
  PROVE  OwnIsCovered'
  <1> USE DurationsAreNatural, NoneIsNothing DEF TypeOK, EnvTypes
  <1>1. /\ UNCHANGED <<env, owned, calling, recovered>> /\ Tracked
        /\ tele.by = None
    BY DEF TrackerSeesIdle, IdlePoll, stored
  <1>2. \/ UNCHANGED <<lease, cmd>>
        \/ IsExternal(lease) /\ ~tele.plugged /\ lease' = None
        \/ ConfirmStop
    BY DEF TrackerSeesIdle, IdlePoll, Release
  <1>3. IsPowersync(lease) => UNCHANGED lease
    BY <1>2 DEF ConfirmStop, IsPowersync, Settling, IsExternal
  <1>4. Stray' => Stray /\ car = "powersync"
    BY <1>1, <1>3 DEF Stray, env
  <1> SUFFICES ASSUME Stray'
               PROVE  Evidence' \/ \E s \in 0..MaxTime : SettlesAt(s)' /\ Answers(s)'
    BY DEF OwnIsCovered
  <1>5. CASE Evidence
    <2>1. UNCHANGED lease
      BY <1>2, <1>5 DEF Evidence, ConfirmStop, Settling, IsExternal
    <2> QED
      BY <1>1, <1>5, <2>1 DEF Evidence
  <1>6. ASSUME NEW s \in 0..MaxTime, SettlesAt(s), Answers(s)
        PROVE  SettlesAt(s)' /\ Answers(s)'
    <2>1. tele.at <= s
      BY <1>1, <1>4, <1>6 DEF Answers
    <2>2. lease = None /\ StopIsOpen(cmd) /\ cmd.at = s
      BY <1>1, <1>6, <2>1 DEF SettlesAt
    <2>3. UNCHANGED <<lease, cmd>>
      BY <1>2, <2>1, <2>2 DEF ConfirmStop, Settling, IsExternal
    <2> QED
      BY <1>1, <1>6, <2>3 DEF SettlesAt, Answers, env
  <1> QED
    BY <1>4, <1>5, <1>6 DEF OwnIsCovered

\* A restart leaves the stop on disk, fresh evidence of a lease, or a charge
\* that no longer counts as PowerSync's own.
LEMMA CoveredByRestart ==
  ASSUME OwnPremises, TypeOK, SavedFacts, OwnedFacts, OwnIsCovered, ~calling, Restart
  PROVE  OwnIsCovered'
  <1> USE DurationsAreNatural, NoneIsNothing DEF TypeOK
  <1>1. /\ UNCHANGED env /\ lease' = None /\ restarts = 0
        /\ recovered' = [lease |-> disk.lease, at |-> disk.at]
    BY DEF Restart, RestartWith, OwnPremises, StoreTypes
  <1>2. owned \in {0, Always} /\ recovered.lease = None
    BY <1>1 DEF OwnedFacts
  <1>3. now \in Nat /\ now > 0 /\ Always > 0
    BY DEF EnvTypes, Always
  <1>4. CASE owned = 0
    <2>1. owned' = 0
      BY <1>3, <1>4 DEF Restart, RestartWith, Always
    <2> QED
      BY <1>1, <1>3, <2>1 DEF OwnIsCovered, Stray, env
  <1>5. CASE owned = Always /\ ~dirty /\ lease = None
    <2>1. disk.lease = None /\ disk.cmd = cmd
      BY <1>5 DEF SavedFacts
    <2>2. cmd' = cmd /\ owned' = owned
      BY <1>5, <2>1 DEF Restart, RestartWith
    <2>3. Stray' => Stray
      BY <1>1, <1>5, <2>2 DEF Stray, env, IsPowersync
    <2>4. ~Evidence
      BY <1>2 DEF Evidence, IsPowersync
    <2>5. \A s : SettlesAt(s) /\ Answers(s) => SettlesAt(s)' /\ Answers(s)'
      BY <1>1, <1>5, <2>2 DEF SettlesAt, Answers, env, Settling, IsExternal
    <2> QED
      BY <2>3, <2>4, <2>5 DEF OwnIsCovered
  <1>6. CASE owned = Always /\ ~(~dirty /\ lease = None)
    <2>1. owned' = IF IsPowersync(disk.lease) THEN disk.at + MaxAge ELSE 0
      BY <1>6, <1>3 DEF Restart, RestartWith, Always
    <2>2. CASE IsPowersync(disk.lease)
      <3>1. disk.at + MaxAge <= disk.at + MaxAge
        BY SnapshotFields DEF StoreTypes
      <3> QED
        BY <1>1, <2>1, <2>2, <3>1 DEF OwnIsCovered, Evidence
    <2>3. CASE ~IsPowersync(disk.lease)
      BY <1>1, <1>3, <2>1, <2>3 DEF OwnIsCovered, Stray, env
    <2> QED
      BY <2>2, <2>3
  <1> QED
    BY <1>2, <1>4, <1>5, <1>6

\* Every step keeps a charge of PowerSync's own covered.
LEMMA CoveredStep ==
  ASSUME OwnPremises, TypeOK, ClockFacts, SavedFacts, OwnedFacts, OwnIsCovered,
         [Next]_vars
  PROVE  OwnIsCovered'
  <1>1. CASE UNCHANGED vars
    <2>1. UNCHANGED <<env, memory, owned>>
      BY <1>1 DEF vars, stored
    <2> QED
      BY <2>1 DEF OwnIsCovered, Stray, Evidence, SettlesAt, Answers, env, memory
  <1>2. CASE \E ok \in BOOLEAN : StopEnds(ok)
    BY <1>2, CoveredByAnswer
  <1>3. CASE \/ Tick \/ OtherStarts \/ OtherStops \/ StopLands \/ Unplugged
             \/ PluggedIn \/ Report
    BY <1>3, CoveredByEnvironment
  <1>4. CASE \E mode \in Modes, allow \in BOOLEAN : Start(mode, allow)
    <2>1. PICK mode \in Modes, allow \in BOOLEAN : Start(mode, allow)
      BY <1>4
    <2>2. lease' = Lease(mode, 0, 0) /\ mode # "external"
      BY <2>1, ModesAreKnown DEF Start
    <2>3. lease' \in Leases /\ lease'.mode = mode
      BY <2>2, LeaseShape, DurationsAreNatural DEF Lease
    <2>4. IsPowersync(lease')
      BY <2>2, <2>3, NoneIsNothing DEF IsPowersync
    <2> QED
      BY <2>4 DEF OwnIsCovered, Stray
  <1>5. CASE StopBegins
    BY <1>5 DEF StopBegins, OwnIsCovered, Stray
  <1>6. CASE TrackerSeesCharging \/ PlannerSeesCharging
    BY <1>6, CoveredBySight
  <1>7. CASE \E observed \in BOOLEAN : TrackerSeesIdle(observed)
    BY <1>7, CoveredByIdlePoll
  <1>8. CASE Persist
    <2>1. UNCHANGED <<env, memory, owned>>
      BY <1>8 DEF Persist
    <2> QED
      BY <2>1 DEF OwnIsCovered, Stray, Evidence, SettlesAt, Answers, env, memory
  <1>9. CASE Restart
    <2>1. CASE ~calling
      BY <1>9, <2>1, CoveredByRestart
    <2>2. CASE calling
      BY <1>1, <1>2, <2>2, CallIsAlone
    <2> QED
      BY <2>1, <2>2
  <1> QED
    BY <1>1, <1>2, <1>3, <1>4, <1>5, <1>6, <1>7, <1>8, <1>9, OwnSteps

\* What the initial state gives.
LEMMA OwnInitially == Init => SavedFacts /\ OwnedFacts /\ OwnIsCovered
  <1> SUFFICES ASSUME Init PROVE SavedFacts /\ OwnedFacts /\ OwnIsCovered
    OBVIOUS
  <1> USE DurationsAreNatural, NoneIsNothing DEF Init
  <1>1. SavedFacts /\ OwnedFacts
    BY DEF SavedFacts, OwnedFacts
  <1>2. ~Stray
    BY DEF Stray
  <1> QED
    BY <1>1, <1>2 DEF OwnIsCovered

\* A lasting external lease comes from telemetry of a charge only, which leaves
\* the charge and the clock as they are.
LEMMA StickyComes ==
  ASSUME OwnPremises, TypeOK, [Next]_vars, Sticky(lease'), ~Sticky(lease)
  PROVE  UNCHANGED <<now, tele, owned>>
  <1>0. ~Sticky(None)
    BY DEF Sticky, IsExternal
  <1>1. CASE TrackerSeesCharging \/ PlannerSeesCharging
    BY <1>1 DEF TrackerSeesCharging, PlannerSeesCharging, env, stored
  <1>2. CASE UNCHANGED lease
    BY <1>2
  <1>3. CASE \E mode \in Modes, allow \in BOOLEAN : Start(mode, allow)
    <2>1. PICK mode \in Modes, allow \in BOOLEAN : Start(mode, allow)
      BY <1>3
    <2>2. lease'.mode = mode /\ mode # "external"
      BY <2>1, ModesAreKnown DEF Start, Lease
    <2> QED
      BY <2>2 DEF Sticky, IsExternal
  <1>4. CASE \E observed \in BOOLEAN : TrackerSeesIdle(observed)
    <2>1. lease' \in {lease, None}
      BY <1>4 DEF TrackerSeesIdle, IdlePoll, ConfirmStop, Release
    <2> QED
      BY <1>0, <2>1
  <1>5. CASE StopBegins \/ Restart
    BY <1>0, <1>5 DEF StopBegins, Restart, RestartWith
  <1>6. CASE \/ \E ok \in BOOLEAN : StopEnds(ok)
             \/ Tick \/ OtherStarts \/ OtherStops \/ StopLands \/ Unplugged
             \/ PluggedIn \/ Report \/ Persist \/ UNCHANGED vars
    BY <1>2, <1>6 DEF StopEnds, Tick, OtherStarts, OtherStops, StopLands, Unplugged,
       PluggedIn, Report, Persist, vars, memory
  <1> QED
    BY <1>1, <1>3, <1>4, <1>5, <1>6, OwnSteps

\* Telemetry of a charge that PowerSync started and has not given up never hands
\* the loadpoint to a lasting external lease, for all durations that leave the
\* car and its telemetry enough time: not while a stop settles, and not after a
\* restart, for as long as its evidence counts.
THEOREM OwnChargesStayOwn ==
  ASSUME OwnPremises
  PROVE  Spec => OwnChargingStaysOwn
  <1> DEFINE Inv == TypeOK /\ ClockFacts /\ SavedFacts /\ OwnedFacts /\ OwnIsCovered
  <1>1. Init => Inv
    BY TypeInitially, ClockInitially, OwnInitially
  <1>2. Inv /\ [Next]_vars => Inv'
    BY TypeStep, ClockStep, SavedStep, OwnedStep, CoveredStep
  <1>3. Inv /\ Inv' /\ [Next]_vars
        => [Sticky(lease') /\ ~Sticky(lease) /\ tele.by = "powersync"
            => now > owned]_vars
    <2> SUFFICES ASSUME Inv, Inv', [Next]_vars, Sticky(lease'), ~Sticky(lease),
                        tele.by = "powersync"
                 PROVE  now > owned
      OBVIOUS
    <2>1. UNCHANGED <<now, tele, owned>>
      BY StickyComes
    <2>2. lease' # None /\ ~IsPowersync(lease') /\ ~Settling(lease')
      BY DEF Sticky, Settling, IsPowersync, IsExternal
    <2>3. ~calling'
      BY <2>2 DEF OwnedFacts
    <2>4. ~Stray'
      BY <2>2 DEF OwnIsCovered, Evidence, SettlesAt
    <2>5. ~(now <= owned)
      BY <2>1, <2>2, <2>3, <2>4 DEF Stray
    <2> QED
      BY <2>5, DurationsAreNatural DEF TypeOK, EnvTypes, StoreTypes
  <1> QED
    BY <1>1, <1>2, <1>3, PTL DEF Spec, OwnChargingStaysOwn
=============================================================================
