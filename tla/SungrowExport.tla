---------------------------- MODULE SungrowExport ----------------------------
(***************************************************************************)
(* Temporary control of a Sungrow hybrid inverter (coordinator.py,         *)
(* SungrowEnergyCoordinator): the optimiser's limited grid export and the  *)
(* price-driven curtailment both borrow the export-limit register, store   *)
(* the value they found before the first write, and must bring it back     *)
(* through failed writes, a failed store and restarts.                     *)
(*                                                                         *)
(* Operations hold _modbus_lock from their first to their last step; a     *)
(* step is one register write or one save of the record, and Home          *)
(* Assistant may restart between any two.  Powers are abstracted to which  *)
(* of the four limits is in the register.                                  *)
(***************************************************************************)
EXTENDS Naturals

CONSTANTS
  MaxFaults,    \* failing writes, saves and reads, lost answers, and changes
  MaxRestarts,
  MaxChanges,   \* changes of the user's own limit, and calls for headroom
  Overlap,      \* whether export windows and curtailment may meet
  HeadroomFails, \* whether a restore for surplus charging may fail
  UserWaits,    \* whether the user changes nothing while a baseline is held
  Early,        \* whether the handler may act before the record has been read
  Lag           \* whether a command may come before a poll saw the change

ASSUME BoundsAreNaturals ==
  MaxFaults \in Nat /\ MaxRestarts \in Nat /\ MaxChanges \in Nat
ASSUME SwitchesAreBoolean ==
  {Overlap, HeadroomFails, UserWaits, Early, Lag} \subseteq BOOLEAN

Settings == {"off", "user"}                    \* what a user chooses
Limits == Settings \cup {"zero", "target"}     \* curtailment, limited export

VARIABLES
  limit,      \* the export-limit registers
  mode,       \* the EMS mode: self-consumption or forced discharge
  cap,        \* the discharge limit: normal, or blocked by a hold
  wish,       \* what the user set the export limit to (for the properties)
  held,       \* _pre_control_export_limit_captured
  base,       \* _pre_control_export_limit_w
  owner,      \* _export_limit_capture_source
  capped,     \* _pre_control_discharge_limit_kw is set
  retry,      \* _optimizer_restore_retry_pending
  seen,       \* the limit in the last published data; "none" before it
  recovering, \* _persisted_export_control_recovery_pending
  ready,      \* telemetry_ready of the last data
  disk,       \* the stored record
  op,         \* the operation holding the lock
  waiting,    \* what the curtailment handler's tasks wait to do
  state,      \* sungrow_curtailment_state
  cached,     \* sungrow_power_limit_w is the curtailment's limit
  price,      \* export earnings: "good" or "bad" (uneconomic)
  surplus,    \* a car charging from surplus needs headroom
  plan,       \* the optimiser's action for the present interval
  faults, restarts, changes

device == <<limit, mode, cap>>
baseline == <<held, base, owner>>
memory == <<held, base, owner, capped, retry>>
poll == <<seen, recovering, ready>>
handler == <<state, cached>>
inputs == <<price, surplus, plan>>
counts == <<faults, restarts, changes>>
vars == <<limit, mode, cap, wish, held, base, owner, capped, retry, seen,
          recovering, ready, disk, op, waiting, state, cached, price, surplus,
          plan, faults, restarts, changes>>

NoRecord == [active |-> FALSE, base |-> "off", by |-> "none"]

\* name: the method; at: its next step; ok: no write has failed so far; owned:
\* it restores what the optimiser borrowed; wrote: the discharge limit was
\* written; by: who called.
Op(name, at, owned, wrote, by) ==
  [name |-> name, at |-> at, ok |-> TRUE, owned |-> owned, wrote |-> wrote,
   by |-> by]
NoOp == Op("none", "end", FALSE, FALSE, "none")
Idle == op = NoOp

\* Where the operation's next step is.
GoTo(at, ok) == op' = [op EXCEPT !.at = at, !.ok = ok]

OwnedByCurtailment == held /\ owner = "curtailment"
Borrowed == held \/ disk.active

OpNames == {"none", "export", "rollback", "normal", "curtail", "uncurtail",
            "unhold"}
OpPlaces == {"mode", "limit", "cap", "force", "clear", "end"}
Callers == {"none", "optimizer", "handler", "headroom", "poll"}
Ops == [name : OpNames, at : OpPlaces, ok : BOOLEAN, owned : BOOLEAN,
        wrote : BOOLEAN, by : Callers]

Records == [active : BOOLEAN, base : Limits, by : {"none", "export", "curtailment"}]

CountsInBounds ==
  /\ faults \in 0..MaxFaults /\ restarts \in 0..MaxRestarts
  /\ changes \in 0..MaxChanges

RegisterTypes ==
  /\ limit \in Limits /\ mode \in {"self", "forced"}
  /\ cap \in {"normal", "blocked"} /\ wish \in Settings

MemoryTypes ==
  /\ held \in BOOLEAN /\ base \in Limits /\ owner \in {"none", "curtailment"}
  /\ capped \in BOOLEAN /\ retry \in BOOLEAN
  /\ seen \in Limits \cup {"none"} /\ recovering \in BOOLEAN /\ ready \in BOOLEAN

WorkTypes ==
  /\ disk \in Records /\ op \in Ops
  /\ waiting \subseteq {"curtail", "handler", "headroom"}

HandlerTypes ==
  /\ state \in {"normal", "curtailed", "pending"} /\ cached \in BOOLEAN
  /\ price \in {"good", "bad"} /\ surplus \in BOOLEAN
  /\ plan \in {"self", "export", "hold"}

TypeOK ==
  RegisterTypes /\ MemoryTypes /\ WorkTypes /\ HandlerTypes /\ CountsInBounds

\* The integration has been set up, its first poll has published data and there
\* was nothing to recover.
Init ==
  /\ limit \in Settings /\ wish = limit /\ mode = "self" /\ cap = "normal"
  /\ held = FALSE /\ base = "off" /\ owner = "none"
  /\ capped = FALSE /\ retry = FALSE
  /\ seen = limit /\ recovering = FALSE /\ ready = TRUE
  /\ disk = NoRecord /\ op = NoOp /\ waiting = {}
  /\ state = "normal" /\ cached = FALSE
  /\ price = "good" /\ surplus = FALSE /\ plan = "self"
  /\ faults = 0 /\ restarts = 0 /\ changes = 0

-----------------------------------------------------------------------------
(* Register writes and saves                                               *)

Fails ==
  /\ op.by = "headroom" => HeadroomFails
  /\ faults + changes < MaxFaults /\ faults' = faults + 1
Succeeds == UNCHANGED faults

\* A write that is answered with a failure may have taken effect: its answer was
\* lost, or only the second of two registers was refused.
Written(register, v, ok) ==
  IF ok THEN Succeeds /\ register' = v
        ELSE Fails /\ register' \in {register, v}

Saved(record, ok) ==
  IF ok THEN Succeeds /\ disk' = record
        ELSE Fails /\ UNCHANGED disk

-----------------------------------------------------------------------------
(* The end of an operation: what its caller does with the result           *)

Answer(result) ==
  /\ op' = NoOp
  /\ CASE op.name = "curtail" ->
            /\ state' = IF result THEN "curtailed" ELSE "pending"
            /\ cached' = (result \/ cached)
       [] op.by = "handler" /\ op.name = "uncurtail" ->
            /\ state' = IF result THEN "normal" ELSE "pending"
            /\ cached' = FALSE
       [] op.by = "headroom" /\ result -> state' = "normal" /\ cached' = FALSE
       [] OTHER -> UNCHANGED handler
  /\ IF op.by = "poll"
     THEN recovering' = ~result /\ ready' = result
     ELSE UNCHANGED <<recovering, ready>>

\* Mutant: only the last write of a restore is looked at.
LastIsOk(ok) == ok

StillOk(ok) == op.ok /\ ok

Unsteady == <<wish, waiting, inputs, restarts, changes>>

-----------------------------------------------------------------------------
(* The steps operations share                                              *)

\* controller.restore_normal
ModeStep ==
  /\ op.at = "mode"
  /\ \E ok \in BOOLEAN :
       /\ Written(mode, "self", ok)
       /\ GoTo(IF op.name = "unhold" THEN "cap" ELSE "limit", StillOk(ok))
  /\ UNCHANGED <<limit, cap, memory, poll, disk, handler, Unsteady>>

\* Mutant: a full restore restores whatever is held.
KeepsNothing == ~held

\* A full restore leaves a limit alone that curtailment owns.
KeepsLimit == ~held \/ (op.name = "normal" /\ OwnedByCurtailment)

\* _restore_captured_export_limit
RestoreLimitStep ==
  /\ op.at = "limit" /\ op.name \in {"normal", "rollback", "uncurtail"}
  /\ \/ /\ KeepsLimit /\ Succeeds
        /\ IF op.name = "uncurtail" THEN Answer(TRUE)
           ELSE GoTo("cap", op.ok) /\ UNCHANGED <<recovering, ready, handler>>
        /\ UNCHANGED <<limit, seen>>
     \/ /\ ~KeepsLimit
        /\ \E ok \in BOOLEAN :
             /\ Written(limit, base, ok)
             /\ seen' = IF ok /\ op.name # "uncurtail" THEN base ELSE seen
             /\ CASE op.name # "uncurtail" ->
                       GoTo("cap", StillOk(ok))
                       /\ UNCHANGED <<recovering, ready, handler>>
                  [] op.name = "uncurtail" /\ ok ->
                       GoTo("clear", TRUE) /\ UNCHANGED <<recovering, ready, handler>>
                  [] OTHER -> Answer(FALSE)
  /\ UNCHANGED <<mode, cap, memory, disk, Unsteady>>

\* _restore_captured_discharge_limit, and the repair of a block that no baseline
\* is held for; a rollback that never wrote the limit drops the baseline.
CapStep ==
  /\ op.at = "cap" /\ op.name \in {"normal", "rollback", "unhold"}
  /\ IF op.name = "rollback" /\ ~op.wrote
     THEN /\ Succeeds /\ UNCHANGED cap
          /\ capped' = FALSE /\ GoTo("clear", op.ok)
          /\ UNCHANGED <<recovering, ready, handler>>
     ELSE \E ok \in BOOLEAN :
          /\ IF capped \/ cap = "blocked"
             THEN Written(cap, "normal", ok) /\ capped' = ~ok
             ELSE ok /\ Succeeds /\ UNCHANGED <<cap, capped>>
          /\ IF op.name = "unhold" THEN Answer(StillOk(ok))
             ELSE /\ GoTo("clear", StillOk(ok))
                  /\ UNCHANGED <<recovering, ready, handler>>
  /\ UNCHANGED <<limit, mode, baseline, retry, seen, disk, Unsteady>>

\* The baseline is let go and its record cleared, in this order on disk and then
\* in memory; when the save fails both stay.
LetGo(ok) ==
  /\ Saved(NoRecord, ok)
  /\ IF ok THEN held' = FALSE /\ base' = "off" /\ owner' = "none"
     ELSE UNCHANGED baseline

\* The end of restore_curtailment_export_limit.
ClearAfterCurtailment ==
  /\ op.at = "clear" /\ op.name = "uncurtail"
  /\ \E ok \in BOOLEAN :
       /\ LetGo(ok) /\ Answer(ok)
       /\ seen' = IF ok THEN base ELSE seen
  /\ UNCHANGED <<device, capped, retry, Unsteady>>

\* The end of restore_normal: only what the optimiser borrowed is let go.
ClearAfterRestore ==
  /\ op.at = "clear" /\ op.name = "normal"
  /\ \E ok \in BOOLEAN :
       /\ IF op.ok /\ op.owned THEN LetGo(ok)
          ELSE ok /\ Succeeds /\ UNCHANGED <<disk, baseline>>
       /\ Answer(StillOk(ok))
       /\ retry' = IF op.owned THEN ~(op.ok /\ ok) ELSE retry
  /\ UNCHANGED <<device, capped, seen, Unsteady>>

\* The end of _rollback_force_grid_export.
ClearAfterRollback ==
  /\ op.at = "clear" /\ op.name = "rollback"
  /\ \E ok \in BOOLEAN :
       /\ IF op.ok THEN LetGo(ok)
          ELSE ok /\ Succeeds /\ UNCHANGED <<disk, baseline>>
       /\ retry' = IF ~op.ok THEN TRUE ELSE IF ok THEN FALSE ELSE retry
  /\ Answer(FALSE)
  /\ UNCHANGED <<device, capped, seen, Unsteady>>

-----------------------------------------------------------------------------
(* The optimiser: force_grid_export, restore_normal and the hold           *)

\* _capture_export_limit_for_restore: from the last published data.
Capture == held' = TRUE /\ base' = IF held THEN base ELSE seen

\* An export window and a curtailment; the two are kept apart unless Overlap.
CurtailmentInPlay == OwnedByCurtailment \/ waiting # {} \/ state = "curtailed"
ExportInPlay == plan = "export" \/ mode = "forced" \/ (held /\ owner = "none")

\* Mutant: the registers are written without the record.
ExportBeginsUnrecorded ==
  /\ Idle /\ plan = "export" /\ ready /\ (Overlap \/ ~CurtailmentInPlay)
  /\ Capture /\ UNCHANGED <<owner, disk, faults>>
  /\ capped' = TRUE
  /\ op' = Op("export", "cap", FALSE, FALSE, "optimizer")
  /\ UNCHANGED <<device, retry, poll, handler, Unsteady>>

\* The baselines are taken and the record is saved; if that fails, nothing is
\* written and the baselines stay held.
ExportBegins ==
  /\ Idle /\ plan = "export" /\ ready /\ (Overlap \/ ~CurtailmentInPlay)
  /\ Capture /\ UNCHANGED owner
  /\ capped' = TRUE
  /\ \E ok \in BOOLEAN :
       /\ Saved([active |-> TRUE, base |-> base', by |-> "export"], ok)
       /\ op' = IF ok THEN Op("export", "cap", FALSE, FALSE, "optimizer") ELSE NoOp
  /\ UNCHANGED <<device, retry, poll, handler, Unsteady>>

\* The discharge limit: a failure marks the register as not writable, and the
\* export goes on without it.
ExportWritesCap ==
  /\ op.at = "cap" /\ op.name = "export"
  /\ \E ok \in BOOLEAN :
       /\ Written(cap, "normal", ok)
       /\ capped' = (capped /\ ok)
       /\ op' = [op EXCEPT !.at = "limit", !.wrote = ok]
  /\ UNCHANGED <<limit, mode, baseline, retry, poll, disk, handler, Unsteady>>

RollBack(at) == op' = [op EXCEPT !.name = "rollback", !.at = at]

ExportWritesLimit ==
  /\ op.at = "limit" /\ op.name = "export"
  /\ \E ok \in BOOLEAN :
       /\ Written(limit, "target", ok)
       /\ IF ok THEN GoTo("force", TRUE) ELSE RollBack("limit")
  /\ UNCHANGED <<mode, cap, memory, poll, disk, handler, Unsteady>>

ExportForces ==
  /\ op.at = "force"
  /\ \E ok \in BOOLEAN :
       /\ Written(mode, "forced", ok)
       /\ IF ok THEN Answer(TRUE)
          ELSE RollBack("mode") /\ UNCHANGED <<recovering, ready, handler>>
  /\ UNCHANGED <<limit, cap, memory, seen, disk, Unsteady>>

\* Mutant: only the inverter's mode and limit are looked at.
ShowsToRestore == mode = "forced" \/ cap = "blocked"

\* Why the optimiser calls restore_normal again during self-consumption.
StillToRestore == held \/ retry \/ mode = "forced" \/ cap = "blocked"

\* restore_normal
RestoreBegins ==
  /\ Idle /\ plan = "self" /\ ready /\ StillToRestore
  /\ op' = Op("normal", "mode", ~OwnedByCurtailment /\ (held \/ retry), FALSE,
              "optimizer")
  /\ UNCHANGED <<device, memory, poll, disk, handler, faults, Unsteady>>

\* set_backup_mode and set_no_discharge_mode.
Hold ==
  /\ Idle /\ plan = "hold" /\ ready /\ cap = "normal"
  /\ capped' = TRUE
  /\ \E ok \in BOOLEAN : Written(cap, "blocked", ok)
  /\ UNCHANGED <<limit, mode, baseline, retry, poll, disk, op, handler, Unsteady>>

\* restore_no_discharge_mode and restore_work_mode_from_idle.
Unhold ==
  /\ Idle /\ plan # "hold" /\ ready /\ cap = "blocked"
  /\ op' = Op("unhold", "mode", FALSE, FALSE, "optimizer")
  /\ UNCHANGED <<device, memory, poll, disk, handler, faults, Unsteady>>

-----------------------------------------------------------------------------
(* The curtailment handler (handle_sungrow_curtailment)                    *)

\* Mutant: a pending curtailment counts as done.
CurtailedOrPending == state # "normal" /\ OwnedByCurtailment

\* The first poll is part of the set-up.  That the stored baseline is held before
\* the handler acts is a premise, unless Early.
HandlerIsUp == seen # "none" /\ (Early \/ ~recovering \/ held)

AlreadyCurtailed == state = "curtailed" /\ cached /\ OwnedByCurtailment

\* What the handler decides before it waits for the lock.  A restore without a
\* held baseline fails at once.
HandlerDecides ==
  /\ HandlerIsUp
  /\ \/ /\ price = "bad" /\ ~surplus
        /\ ~AlreadyCurtailed
        /\ Overlap \/ ~ExportInPlay
        /\ waiting' = waiting \cup {"curtail"}
        /\ UNCHANGED handler
     \/ /\ price = "good" \/ surplus
        /\ state # "normal"
        /\ LET who == IF price = "bad" THEN "headroom" ELSE "handler" IN
           IF held THEN waiting' = waiting \cup {who} /\ UNCHANGED handler
           ELSE /\ UNCHANGED waiting
                /\ IF who = "handler" THEN state' = "pending" /\ cached' = FALSE
                   ELSE UNCHANGED handler
  /\ UNCHANGED <<device, wish, memory, poll, disk, op, inputs, counts>>

\* set_curtailment_export_limit: only a baseline it takes itself becomes
\* curtailment's.
CurtailBegins ==
  /\ Idle /\ "curtail" \in waiting
  /\ waiting' = waiting \ {"curtail"}
  /\ Capture /\ owner' = IF held THEN owner ELSE "curtailment"
  /\ \E ok \in BOOLEAN :
       /\ Saved([active |-> TRUE, base |-> base', by |-> "curtailment"], ok)
       /\ IF ok THEN op' = Op("curtail", "limit", FALSE, FALSE, "handler")
                     /\ UNCHANGED handler
          ELSE op' = NoOp /\ state' = "pending" /\ UNCHANGED cached
  /\ UNCHANGED <<device, wish, capped, retry, poll, inputs, restarts, changes>>

CurtailWrites ==
  /\ op.at = "limit" /\ op.name = "curtail"
  /\ \E ok \in BOOLEAN : Written(limit, "zero", ok) /\ Answer(ok)
  /\ UNCHANGED <<mode, cap, memory, seen, disk, Unsteady>>

\* restore_curtailment_export_limit
UncurtailBegins ==
  /\ Idle
  /\ \E who \in waiting \ {"curtail"} :
       /\ waiting' = waiting \ {who}
       /\ op' = Op("uncurtail", "limit", FALSE, FALSE, who)
  /\ UNCHANGED <<device, wish, memory, poll, disk, handler, inputs, counts>>

-----------------------------------------------------------------------------
(* The poll (_async_update_data) and the recovery it starts                *)

Poll ==
  /\ Idle /\ ~(recovering /\ disk.active)
  /\ seen' = limit /\ ready' = TRUE /\ recovering' = FALSE
  /\ UNCHANGED <<device, memory, disk, op, handler, faults, Unsteady>>

\* async_restore_persisted_export_control: the stored baseline is taken over and
\* the restore of the owner it names is run.
RecoveryBegins ==
  /\ Idle /\ recovering /\ disk.active
  /\ held' = TRUE /\ base' = disk.base
  /\ op' = IF disk.by = "curtailment"
           THEN Op("uncurtail", "limit", FALSE, FALSE, "poll")
           ELSE Op("normal", "mode", ~(owner = "curtailment"), FALSE, "poll")
  /\ seen' = limit
  /\ UNCHANGED <<device, owner, capped, retry, recovering, ready, disk, handler,
                 faults, Unsteady>>

\* The record cannot be read: the data are published, but not for control.
RecoveryCannotLoad ==
  /\ Idle /\ recovering /\ Fails
  /\ seen' = limit /\ ready' = FALSE
  /\ UNCHANGED <<device, memory, recovering, disk, op, handler, Unsteady>>

-----------------------------------------------------------------------------
(* The surroundings                                                        *)

\* Only the record survives, and what the inverter holds.
Restart ==
  /\ restarts < MaxRestarts /\ restarts' = restarts + 1
  /\ held' = FALSE /\ base' = "off" /\ owner' = "none"
  /\ capped' = FALSE /\ retry' = FALSE
  /\ seen' = "none" /\ recovering' = TRUE /\ ready' = FALSE
  /\ op' = NoOp /\ waiting' = {}
  /\ state' = "normal" /\ cached' = FALSE
  /\ UNCHANGED <<device, wish, disk, inputs, faults, changes>>

Changes ==
  changes < MaxChanges /\ faults + changes < MaxFaults /\ changes' = changes + 1

\* The user changes the limit at the inverter while it shows the user's own.
UserSets(v) ==
  /\ Changes
  /\ limit = wish /\ v # wish
  /\ IF UserWaits THEN ~Borrowed ELSE ~disk.active
  /\ limit' = v /\ wish' = v
  /\ seen' = IF Lag \/ seen = "none" THEN seen ELSE v
  /\ UNCHANGED <<mode, cap, memory, recovering, ready, disk, op, waiting, handler,
                 inputs, faults, restarts>>

Unconcerned == <<device, wish, memory, poll, disk, op, waiting, handler, counts>>

PriceMoves ==
  /\ price' = IF price = "good" THEN "bad" ELSE "good"
  /\ UNCHANGED <<surplus, plan, Unconcerned>>

SurplusMoves ==
  /\ surplus' = ~surplus
  /\ IF surplus THEN UNCHANGED changes ELSE Changes
  /\ UNCHANGED <<price, plan, device, wish, memory, poll, disk, op, waiting, handler,
                 faults, restarts>>

PlanMoves(a) ==
  /\ a # plan /\ plan' = a
  /\ (a = "export" => Overlap \/ ~CurtailmentInPlay)
  /\ UNCHANGED <<price, surplus, Unconcerned>>

-----------------------------------------------------------------------------
OpStep ==
  \/ ModeStep \/ RestoreLimitStep \/ CapStep
  \/ ClearAfterCurtailment \/ ClearAfterRestore \/ ClearAfterRollback
  \/ ExportWritesCap \/ ExportWritesLimit \/ ExportForces \/ CurtailWrites

Next ==
  \/ OpStep
  \/ ExportBegins \/ RestoreBegins \/ Hold \/ Unhold
  \/ HandlerDecides \/ CurtailBegins \/ UncurtailBegins
  \/ Poll \/ RecoveryBegins \/ RecoveryCannotLoad
  \/ Restart \/ \E v \in Settings : UserSets(v)
  \/ PriceMoves \/ SurplusMoves \/ \E a \in {"self", "export", "hold"} : PlanMoves(a)

Spec == Init /\ [][Next]_vars

\* Every register write and save has a timeout, the poll, the optimiser and the
\* handler run periodically, and the lock is first come first served.
FairSpec ==
  /\ Spec
  /\ WF_vars(OpStep) /\ WF_vars(HandlerDecides)
  /\ SF_vars(Poll) /\ SF_vars(RecoveryBegins)
  /\ SF_vars(RestoreBegins) /\ SF_vars(Unhold)
  /\ SF_vars(CurtailBegins) /\ SF_vars(UncurtailBegins)

-----------------------------------------------------------------------------
(* Properties                                                              *)

\* Whatever is written to the export limit, the record on disk brings the user's
\* own value back after a crash at this very moment.
WriteAhead == limit # wish => disk.active /\ disk.base = wish

\* The export limit is borrowed and given back as RestorableSetting promises,
\* the record and the held baseline both counting as a loan.
Setting == INSTANCE RestorableSetting
             WITH Values <- Limits, value <- limit, borrowed <- Borrowed
GivenBack == Setting!Spec

\* When the handler sees no work to do because it takes the site for curtailed,
\* the curtailment's limit is in the register.
CurtailedIsCurtailed ==
  Idle /\ mode = "self" /\ AlreadyCurtailed => limit = "zero"

\* A curtailment restore ends only a curtailment's own loan.
CurtailmentEndsItsOwn ==
  [][op.name = "uncurtail" /\ op.by # "poll" /\ held /\ ~held'
     => owner = "curtailment"]_vars

\* When the optimiser is back to self-consumption and prices are good, the
\* inverter is in the end as its user left it, whatever failed meanwhile.
Released ==
  <>[](plan = "self" /\ price = "good")
    => <>[](limit = wish /\ mode = "self" /\ cap = "normal" /\ ~Borrowed)

\* While exports stay uneconomic, in the end they are blocked and stay so.
Curtails ==
  <>[](plan = "self" /\ price = "bad" /\ ~surplus) => <>[](limit = "zero")
=============================================================================
