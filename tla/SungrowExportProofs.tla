------------------------ MODULE SungrowExportProofs -------------------------
(***************************************************************************)
(* Theorems about SungrowExport, for every number of failures, restarts    *)
(* and changes, with and without overlapping owners: the record leads back *)
(* to the user's limit after a crash at any moment, and the export limit   *)
(* implements RestorableSetting; and what curtailment's handler takes for  *)
(* curtailed is curtailed.                                                 *)
(*                                                                         *)
(* Three premises are needed for the loan (the README shows what happens   *)
(* without): the user changes nothing while a baseline is held, the        *)
(* handler does not act before the record has been read, and a poll has    *)
(* seen what is captured.  Three others for the curtailment: KeptApart.    *)
(***************************************************************************)
EXTENDS SungrowExport, TLAPS

Premises == UserWaits /\ ~Early /\ ~Lag

\* What is stored or held as the baseline is the user's limit, and another
\* limit is in the register only while the record is stored.
BaselineIsWish ==
  /\ limit # wish => disk.active
  /\ disk.active => disk.base = wish
  /\ held => base = wish

\* Nothing is known before the first poll, and nobody acts then.
UnseenIsQuiet == seen = "none" => recovering /\ ~held /\ waiting = {} /\ op = NoOp

ReadyIsRecovered == ready => ~recovering

\* A record without a held baseline waits for the recovery.
UnheldIsRecovering ==
  ~held /\ disk.active => recovering /\ waiting = {} /\ op = NoOp

\* What would be captured is the user's limit.
SeenIsWish == ~held /\ ~disk.active => seen \in {wish, "none"}

\* What an operation may rely on at its later steps.
OpIsSound ==
  /\ op.name \in {"export", "curtail"} => disk.active
  /\ op.name = "normal" /\ op.owned => ~OwnedByCurtailment
  /\ op.name = "uncurtail" /\ op.at = "clear" => held /\ limit = wish
  /\ op.at \in {"cap", "clear"} /\ op.ok
       /\ (op.name = "rollback" \/ (op.name = "normal" /\ op.owned))
       => limit = wish /\ seen = wish

LoanFacts ==
  /\ BaselineIsWish /\ UnseenIsQuiet /\ UnheldIsRecovering /\ SeenIsWish
  /\ OpIsSound /\ ReadyIsRecovered

\* A later set of premises, for what curtailment owns: export windows and
\* curtailment are kept apart, a restore for surplus charging does not fail, and
\* the handler does not act before the record has been read.
KeptApart == ~Overlap /\ ~HeadroomFails /\ ~Early

\* Until the recovery is over only the poll acts, and nothing is curtailed.
RecoveryIsAlone ==
  /\ recovering => /\ state = "normal" /\ owner = "none" /\ waiting = {}
                   /\ op.by \in {"none", "poll"}
  /\ op.by = "poll" => recovering

\* Curtailment owns only a held baseline, and its tasks wait only while no other
\* loan is out.
OwnerHolds ==
  /\ owner = "curtailment" => held
  /\ "curtail" \in waiting => ~held \/ owner = "curtailment"

\* Whose loan an operation works on.
OpIsOwners ==
  /\ op.name = "curtail" => OwnedByCurtailment /\ op.by = "handler"
  /\ op.name \in {"export", "rollback"} \/ op.at = "force"
       => held /\ owner = "none"
  /\ op.name = "normal" /\ op.owned => ~OwnedByCurtailment
  /\ op.name = "uncurtail" => op.by \in {"handler", "headroom", "poll"}

\* While the site counts as curtailed, the loan is curtailment's and its limit is
\* in the register, but for a restore that is under way.
CurtailedHolds ==
  state = "curtailed" =>
    OwnedByCurtailment /\ (limit = "zero" \/ op.name = "uncurtail")

CurtailFacts == RecoveryIsAlone /\ OwnerHolds /\ OpIsOwners /\ CurtailedHolds

-----------------------------------------------------------------------------
(* Types                                                                   *)

\* Which values the limits are.
LEMMA LimitNames ==
  /\ {"off", "zero", "target"} \subseteq Limits
  /\ Settings \subseteq Limits
  /\ "off" \in Settings
  /\ "none" \notin Limits
  BY DEF Limits, Settings

\* An operation is well-formed, and what moves it on or ends it keeps it so.
LEMMA OpShape ==
  ASSUME NEW n \in OpNames, NEW a \in OpPlaces, NEW b \in BOOLEAN,
         NEW w \in BOOLEAN, NEW c \in Callers
  PROVE  Op(n, a, b, w, c) \in Ops
  BY DEF Op, Ops

\* No operation is one, too.
LEMMA NoOpShape == NoOp \in Ops
  BY OpShape DEF NoOp, OpNames, OpPlaces, Callers

\* A step that moves an operation on.
LEMMA OpMoves ==
  ASSUME op \in Ops, NEW a \in OpPlaces, NEW b \in BOOLEAN, GoTo(a, b)
  PROVE  op' \in Ops
  BY DEF GoTo, Ops

\* The fields of an operation the steps look at.
LEMMA OpFlags ==
  ASSUME op \in Ops
  PROVE  op.ok \in BOOLEAN /\ op.owned \in BOOLEAN /\ op.name \in OpNames
  BY DEF Ops

\* The records the operations store.
LEMMA RecordShape ==
  /\ NoRecord \in Records
  /\ \A l \in Limits : \A by \in {"export", "curtailment"} :
       [active |-> TRUE, base |-> l, by |-> by] \in Records
  /\ \A r \in Records : r.active \in BOOLEAN /\ r.base \in Limits
  BY LimitNames DEF NoRecord, Records

\* What the end of an operation sets stays well-typed.
LEMMA AnswerShape ==
  ASSUME WorkTypes, MemoryTypes, HandlerTypes, NEW r \in BOOLEAN, Answer(r)
  PROVE  /\ op' \in Ops /\ state' \in {"normal", "curtailed", "pending"}
         /\ cached' \in BOOLEAN /\ recovering' \in BOOLEAN /\ ready' \in BOOLEAN
  BY NoOpShape DEF WorkTypes, MemoryTypes, HandlerTypes, Answer, handler

\* What a step that moves an operation on leaves in it, and what a new one says.
LEMMA OpGoes ==
  ASSUME op \in Ops, NEW a, NEW b, GoTo(a, b)
  PROVE  /\ op'.at = a /\ op'.ok = b
         /\ op'.name = op.name /\ op'.owned = op.owned
  BY DEF GoTo, Ops

\* The same of a step that begins a rollback.
LEMMA RollBackGoes ==
  ASSUME op \in Ops, NEW a, RollBack(a)
  PROVE  op'.at = a /\ op'.ok = op.ok /\ op'.name = "rollback"
  BY DEF RollBack, Ops

\* The fields of a new operation.
LEMMA OpFields ==
  /\ \A n, a, b, w, c : /\ Op(n, a, b, w, c).name = n /\ Op(n, a, b, w, c).at = a
                       /\ Op(n, a, b, w, c).ok = TRUE
                       /\ Op(n, a, b, w, c).owned = b
  /\ NoOp.name = "none" /\ NoOp.at = "end"
  BY DEF Op, NoOp

\* The fields of a stored record.
LEMMA RecordFields ==
  /\ NoRecord.active = FALSE
  /\ \A l, by : /\ [active |-> TRUE, base |-> l, by |-> by].active = TRUE
               /\ [active |-> TRUE, base |-> l, by |-> by].base = l
  BY DEF NoRecord

\* The counters stay within their bounds.
LEMMA CountsStep == CountsInBounds /\ [Next]_vars => CountsInBounds'
  <1> SUFFICES ASSUME CountsInBounds, [Next]_vars PROVE CountsInBounds'
    OBVIOUS
  <1> USE BoundsAreNaturals DEF CountsInBounds, Fails, Succeeds, Written, Saved,
                               Unsteady, counts
  <1>1. CASE ModeStep
    BY <1>1 DEF ModeStep
  <1>2. CASE RestoreLimitStep
    <2>1. Fails \/ Succeeds
      BY <1>2 DEF RestoreLimitStep
    <2> QED
      BY <1>2, <2>1 DEF RestoreLimitStep
  <1>3. CASE CapStep
    BY <1>3 DEF CapStep
  <1>4. CASE ClearAfterCurtailment
    BY <1>4 DEF ClearAfterCurtailment, LetGo
  <1>5. CASE ClearAfterRestore
    BY <1>5 DEF ClearAfterRestore, LetGo
  <1>6. CASE ClearAfterRollback
    BY <1>6 DEF ClearAfterRollback, LetGo
  <1>7. CASE ExportWritesCap
    BY <1>7 DEF ExportWritesCap
  <1>8. CASE ExportWritesLimit
    BY <1>8 DEF ExportWritesLimit
  <1>9. CASE ExportForces
    BY <1>9 DEF ExportForces
  <1>10. CASE CurtailWrites
    BY <1>10 DEF CurtailWrites
  <1>11. CASE ExportBegins
    BY <1>11 DEF ExportBegins
  <1>12. CASE RestoreBegins
    BY <1>12 DEF RestoreBegins
  <1>13. CASE Hold
    BY <1>13 DEF Hold
  <1>14. CASE Unhold
    BY <1>14 DEF Unhold
  <1>15. CASE HandlerDecides
    BY <1>15 DEF HandlerDecides
  <1>16. CASE CurtailBegins
    BY <1>16 DEF CurtailBegins
  <1>17. CASE UncurtailBegins
    BY <1>17 DEF UncurtailBegins
  <1>18. CASE Poll
    BY <1>18 DEF Poll
  <1>19. CASE RecoveryBegins
    BY <1>19 DEF RecoveryBegins
  <1>20. CASE RecoveryCannotLoad
    BY <1>20 DEF RecoveryCannotLoad
  <1>21. CASE Restart
    BY <1>21 DEF Restart
  <1>22. CASE \E v \in Settings : UserSets(v)
    BY <1>22 DEF UserSets, Changes
  <1>23. CASE PriceMoves
    BY <1>23 DEF PriceMoves, Unconcerned
  <1>24. CASE SurplusMoves
    BY <1>24 DEF SurplusMoves, Changes
  <1>25. CASE \E a \in {"self", "export", "hold"} : PlanMoves(a)
    BY <1>25 DEF PlanMoves, Unconcerned
  <1>26. CASE UNCHANGED vars
    BY <1>26 DEF vars
  <1> QED
    BY <1>1, <1>2, <1>3, <1>4, <1>5, <1>6, <1>7, <1>8, <1>9, <1>10, <1>11,
       <1>12, <1>13, <1>14, <1>15, <1>16, <1>17, <1>18, <1>19, <1>20, <1>21,
       <1>22, <1>23, <1>24, <1>25, <1>26
       DEF Next, OpStep

\* Every step keeps the types; what is captured is known by then.
LEMMA TypeStep ==
  TypeOK /\ UnseenIsQuiet /\ ReadyIsRecovered /\ [Next]_vars => TypeOK'
  <1> SUFFICES ASSUME TypeOK, UnseenIsQuiet, ReadyIsRecovered, [Next]_vars
               PROVE  TypeOK'
    OBVIOUS
  <1> USE LimitNames, OpFlags, RecordShape DEF TypeOK
  <1>0. CountsInBounds'
    BY CountsStep
  <1>1. CASE ModeStep
    BY <1>0, <1>1, OpMoves DEF ModeStep, Written, memory, baseline, poll,
       handler, Unsteady, inputs, OpPlaces, StillOk, RegisterTypes, MemoryTypes,
       WorkTypes, HandlerTypes
  <1>2. CASE RestoreLimitStep
    <2> USE <1>2 DEF RestoreLimitStep, Written, memory, Unsteady, inputs,
       OpPlaces, StillOk, KeepsLimit, handler
    <2>1. RegisterTypes'
      BY OpMoves, AnswerShape DEF RegisterTypes, MemoryTypes
    <2>2. MemoryTypes'
      BY OpMoves, AnswerShape DEF MemoryTypes, RegisterTypes, WorkTypes
    <2>3. WorkTypes'
      BY OpMoves, AnswerShape DEF WorkTypes, MemoryTypes
    <2>4. HandlerTypes'
      BY OpMoves, AnswerShape DEF HandlerTypes
    <2> QED
      BY <1>0, <2>1, <2>2, <2>3, <2>4
  <1>3. CASE CapStep
    <2> USE <1>3 DEF CapStep, Written, baseline, Unsteady, inputs, OpPlaces,
       StillOk, handler
    <2>1. RegisterTypes'
      BY OpMoves, AnswerShape DEF RegisterTypes, MemoryTypes
    <2>2. MemoryTypes'
      BY OpMoves, AnswerShape DEF MemoryTypes, RegisterTypes, WorkTypes
    <2>3. WorkTypes'
      BY OpMoves, AnswerShape DEF WorkTypes, MemoryTypes
    <2>4. HandlerTypes'
      BY OpMoves, AnswerShape DEF HandlerTypes
    <2> QED
      BY <1>0, <2>1, <2>2, <2>3, <2>4
  <1>4. CASE ClearAfterCurtailment
    <2> USE <1>4 DEF ClearAfterCurtailment, LetGo, Saved, baseline, device,
       Unsteady, inputs
    <2>1. RegisterTypes'
      BY AnswerShape DEF RegisterTypes, MemoryTypes
    <2>2. MemoryTypes'
      BY AnswerShape DEF MemoryTypes, RegisterTypes, WorkTypes
    <2>3. WorkTypes'
      BY AnswerShape DEF WorkTypes, MemoryTypes
    <2>4. HandlerTypes'
      BY AnswerShape DEF HandlerTypes
    <2> QED
      BY <1>0, <2>1, <2>2, <2>3, <2>4
  <1>5. CASE ClearAfterRestore
    <2> USE <1>5 DEF ClearAfterRestore, LetGo, Saved, baseline, device,
       Unsteady, inputs, StillOk
    <2>1. RegisterTypes'
      BY AnswerShape DEF RegisterTypes, MemoryTypes
    <2>2. MemoryTypes'
      BY AnswerShape DEF MemoryTypes, RegisterTypes, WorkTypes
    <2>3. WorkTypes'
      BY AnswerShape DEF WorkTypes, MemoryTypes
    <2>4. HandlerTypes'
      BY AnswerShape DEF HandlerTypes
    <2> QED
      BY <1>0, <2>1, <2>2, <2>3, <2>4
  <1>6. CASE ClearAfterRollback
    <2> USE <1>6 DEF ClearAfterRollback, LetGo, Saved, baseline, device,
       Unsteady, inputs
    <2>1. RegisterTypes'
      BY AnswerShape DEF RegisterTypes, MemoryTypes
    <2>2. MemoryTypes'
      BY AnswerShape DEF MemoryTypes, RegisterTypes, WorkTypes
    <2>3. WorkTypes'
      BY AnswerShape DEF WorkTypes, MemoryTypes
    <2>4. HandlerTypes'
      BY AnswerShape DEF HandlerTypes
    <2> QED
      BY <1>0, <2>1, <2>2, <2>3, <2>4
  <1>7. CASE ExportWritesCap
    <2> USE <1>7 DEF ExportWritesCap, Written, baseline, poll, handler,
       Unsteady, inputs, Ops, OpPlaces
    <2>1. RegisterTypes'
      BY DEF RegisterTypes, MemoryTypes
    <2>2. MemoryTypes'
      BY DEF MemoryTypes, RegisterTypes, WorkTypes
    <2>3. WorkTypes'
      BY DEF WorkTypes, MemoryTypes
    <2>4. HandlerTypes'
      BY DEF HandlerTypes
    <2> QED
      BY <1>0, <2>1, <2>2, <2>3, <2>4
  <1>8. CASE ExportWritesLimit
    <2> USE <1>8 DEF ExportWritesLimit, Written, RollBack, memory, baseline,
       poll, handler, Unsteady, inputs, Ops, OpPlaces, OpNames
    <2>1. RegisterTypes'
      BY OpMoves DEF RegisterTypes, MemoryTypes
    <2>2. MemoryTypes'
      BY OpMoves DEF MemoryTypes, RegisterTypes, WorkTypes
    <2>3. WorkTypes'
      BY OpMoves DEF WorkTypes, MemoryTypes
    <2>4. HandlerTypes'
      BY OpMoves DEF HandlerTypes
    <2> QED
      BY <1>0, <2>1, <2>2, <2>3, <2>4
  <1>9. CASE ExportForces
    <2> USE <1>9 DEF ExportForces, Written, RollBack, memory, baseline, handler,
       Unsteady, inputs, Ops, OpPlaces, OpNames
    <2>1. RegisterTypes'
      BY AnswerShape DEF RegisterTypes, MemoryTypes
    <2>2. MemoryTypes'
      BY AnswerShape DEF MemoryTypes, RegisterTypes, WorkTypes
    <2>3. WorkTypes'
      BY AnswerShape DEF WorkTypes, MemoryTypes
    <2>4. HandlerTypes'
      BY AnswerShape DEF HandlerTypes
    <2> QED
      BY <1>0, <2>1, <2>2, <2>3, <2>4
  <1>10. CASE CurtailWrites
    BY <1>0, <1>10, AnswerShape DEF CurtailWrites, Written, memory, baseline,
       Unsteady, inputs, RegisterTypes, MemoryTypes, WorkTypes, HandlerTypes
  <1>11. CASE ExportBegins
    <2> USE <1>11 DEF ExportBegins, Saved, Capture, Idle, device, poll, handler,
       Unsteady, inputs, OpNames, OpPlaces, Callers
    <2>0. seen \in Limits
      BY DEF MemoryTypes, UnseenIsQuiet, ReadyIsRecovered, Idle
    <2>1. RegisterTypes'
      BY <2>0, OpShape, NoOpShape DEF RegisterTypes, MemoryTypes
    <2>2. MemoryTypes'
      BY <2>0, OpShape, NoOpShape DEF MemoryTypes, RegisterTypes, WorkTypes
    <2>3. WorkTypes'
      BY <2>0, OpShape, NoOpShape DEF WorkTypes, MemoryTypes
    <2>4. HandlerTypes'
      BY <2>0, OpShape, NoOpShape DEF HandlerTypes
    <2> QED
      BY <1>0, <2>1, <2>2, <2>3, <2>4
  <1>12. CASE RestoreBegins
    <2> USE <1>12 DEF RestoreBegins, device, memory, baseline, poll, handler,
       Unsteady, inputs, OpNames, OpPlaces, Callers, OwnedByCurtailment
    <2>1. RegisterTypes'
      BY OpShape DEF RegisterTypes, MemoryTypes
    <2>2. MemoryTypes'
      BY OpShape DEF MemoryTypes, RegisterTypes, WorkTypes
    <2>3. WorkTypes'
      BY OpShape DEF WorkTypes, MemoryTypes
    <2>4. HandlerTypes'
      BY OpShape DEF HandlerTypes
    <2> QED
      BY <1>0, <2>1, <2>2, <2>3, <2>4
  <1>13. CASE Hold
    BY <1>0, <1>13 DEF Hold, Written, baseline, poll, handler, Unsteady, inputs,
       RegisterTypes, MemoryTypes, WorkTypes, HandlerTypes
  <1>14. CASE Unhold
    <2> USE <1>14 DEF Unhold, device, memory, baseline, poll, handler, Unsteady,
       inputs, OpNames, OpPlaces, Callers
    <2>1. RegisterTypes'
      BY OpShape DEF RegisterTypes, MemoryTypes
    <2>2. MemoryTypes'
      BY OpShape DEF MemoryTypes, RegisterTypes, WorkTypes
    <2>3. WorkTypes'
      BY OpShape DEF WorkTypes, MemoryTypes
    <2>4. HandlerTypes'
      BY OpShape DEF HandlerTypes
    <2> QED
      BY <1>0, <2>1, <2>2, <2>3, <2>4
  <1>15. CASE HandlerDecides
    <2> USE <1>15 DEF HandlerDecides, device, memory, baseline, poll, handler,
       inputs, counts
    <2>1. RegisterTypes'
      BY DEF RegisterTypes, MemoryTypes
    <2>2. MemoryTypes'
      BY DEF MemoryTypes, RegisterTypes, WorkTypes
    <2>3. WorkTypes'
      BY DEF WorkTypes, MemoryTypes
    <2>4. HandlerTypes'
      BY DEF HandlerTypes
    <2> QED
      BY <1>0, <2>1, <2>2, <2>3, <2>4
  <1>16. CASE CurtailBegins
    <2> USE <1>16 DEF CurtailBegins, Saved, Capture, Idle, device, poll,
       handler, inputs, OpNames, OpPlaces, Callers, HandlerIsUp
    <2>0. seen \in Limits
      BY DEF MemoryTypes, UnseenIsQuiet, ReadyIsRecovered, Idle
    <2>1. RegisterTypes'
      BY <2>0, OpShape, NoOpShape DEF RegisterTypes, MemoryTypes
    <2>2. MemoryTypes'
      BY <2>0, OpShape, NoOpShape DEF MemoryTypes, RegisterTypes, WorkTypes
    <2>3. WorkTypes'
      BY <2>0, OpShape, NoOpShape DEF WorkTypes, MemoryTypes
    <2>4. HandlerTypes'
      BY <2>0, OpShape, NoOpShape DEF HandlerTypes
    <2> QED
      BY <1>0, <2>1, <2>2, <2>3, <2>4
  <1>17. CASE UncurtailBegins
    <2> USE <1>17 DEF UncurtailBegins, device, memory, baseline, poll, handler,
       inputs, counts, OpNames, OpPlaces, Callers
    <2>1. RegisterTypes'
      BY OpShape DEF RegisterTypes, MemoryTypes
    <2>2. MemoryTypes'
      BY OpShape DEF MemoryTypes, RegisterTypes, WorkTypes
    <2>3. WorkTypes'
      BY OpShape DEF WorkTypes, MemoryTypes
    <2>4. HandlerTypes'
      BY OpShape DEF HandlerTypes
    <2> QED
      BY <1>0, <2>1, <2>2, <2>3, <2>4
  <1>18. CASE Poll
    BY <1>0, <1>18 DEF Poll, device, memory, baseline, handler, Unsteady,
       inputs, RegisterTypes, MemoryTypes, WorkTypes, HandlerTypes
  <1>19. CASE RecoveryBegins
    <2> USE <1>19 DEF RecoveryBegins, device, handler, Unsteady, inputs,
       OpNames, OpPlaces, Callers
    <2>1. RegisterTypes'
      BY OpShape DEF RegisterTypes, MemoryTypes
    <2>2. MemoryTypes'
      BY OpShape DEF MemoryTypes, RegisterTypes, WorkTypes
    <2>3. WorkTypes'
      BY OpShape DEF WorkTypes, MemoryTypes
    <2>4. HandlerTypes'
      BY OpShape DEF HandlerTypes
    <2> QED
      BY <1>0, <2>1, <2>2, <2>3, <2>4
  <1>20. CASE RecoveryCannotLoad
    BY <1>0, <1>20 DEF RecoveryCannotLoad, device, memory, baseline, handler,
       Unsteady, inputs, RegisterTypes, MemoryTypes, WorkTypes, HandlerTypes
  <1>21. CASE Restart
    BY <1>0, <1>21, NoOpShape DEF Restart, device, inputs, RegisterTypes,
       MemoryTypes, WorkTypes, HandlerTypes
  <1>22. CASE \E v \in Settings : UserSets(v)
    BY <1>0, <1>22 DEF UserSets, Changes, memory, baseline, handler, inputs,
       RegisterTypes, MemoryTypes, WorkTypes, HandlerTypes
  <1>23. CASE PriceMoves
    BY <1>0, <1>23 DEF PriceMoves, Unconcerned, device, memory, baseline, poll,
       handler, counts, RegisterTypes, MemoryTypes, WorkTypes, HandlerTypes
  <1>24. CASE SurplusMoves
    BY <1>0, <1>24 DEF SurplusMoves, Changes, device, memory, baseline, poll,
       handler, RegisterTypes, MemoryTypes, WorkTypes, HandlerTypes
  <1>25. CASE \E a \in {"self", "export", "hold"} : PlanMoves(a)
    BY <1>0, <1>25 DEF PlanMoves, Unconcerned, device, memory, baseline, poll,
       handler, counts, RegisterTypes, MemoryTypes, WorkTypes, HandlerTypes
  <1>26. CASE UNCHANGED vars
    BY <1>0, <1>26 DEF vars, RegisterTypes, MemoryTypes, WorkTypes, HandlerTypes
  <1> QED
    BY <1>1, <1>2, <1>3, <1>4, <1>5, <1>6, <1>7, <1>8, <1>9, <1>10, <1>11,
       <1>12, <1>13, <1>14, <1>15, <1>16, <1>17, <1>18, <1>19, <1>20, <1>21,
       <1>22, <1>23, <1>24, <1>25, <1>26
       DEF Next, OpStep

-----------------------------------------------------------------------------
(* Before the first poll and the recovery                                  *)

\* A step leaves the coordinator quiet until its first poll.
LEMMA QuietStep ==
  ASSUME TypeOK, UnseenIsQuiet, ReadyIsRecovered, [Next]_vars
  PROVE  UnseenIsQuiet' /\ ReadyIsRecovered'
  <1> USE LimitNames, OpFlags, RecordShape, OpFields, RecordFields
          DEF TypeOK, RegisterTypes, MemoryTypes, WorkTypes
  <1>1. CASE ModeStep
    BY OpGoes, <1>1 DEF ModeStep, memory, baseline, poll, Unsteady, Written,
       StillOk, UnseenIsQuiet, ReadyIsRecovered
  <1>2. CASE RestoreLimitStep
    <2> USE <1>2 DEF RestoreLimitStep, memory, baseline, Unsteady, Written,
       StillOk, KeepsLimit, Answer
    <2>1. UnseenIsQuiet'
      <3>1. seen # "none"
        BY DEF UnseenIsQuiet
      <3>2. seen' # "none"
        BY <3>1
      <3> QED
        BY <3>2 DEF UnseenIsQuiet
    <2>2. ReadyIsRecovered'
      BY OpGoes DEF ReadyIsRecovered, UnseenIsQuiet
    <2> QED
      BY <2>1, <2>2
  <1>3. CASE CapStep
    BY OpGoes, <1>3 DEF CapStep, baseline, Unsteady, StillOk, Answer,
       UnseenIsQuiet, ReadyIsRecovered
  <1>4. CASE ClearAfterCurtailment
    BY <1>4 DEF ClearAfterCurtailment, LetGo, Saved, baseline, device, Unsteady,
       Answer, UnseenIsQuiet, ReadyIsRecovered
  <1>5. CASE ClearAfterRestore
    BY <1>5 DEF ClearAfterRestore, LetGo, Saved, baseline, device, Unsteady,
       Answer, StillOk, UnseenIsQuiet, ReadyIsRecovered
  <1>6. CASE ClearAfterRollback
    BY <1>6 DEF ClearAfterRollback, LetGo, Saved, baseline, device, Unsteady,
       Answer, UnseenIsQuiet, ReadyIsRecovered
  <1>7. CASE ExportWritesCap
    BY <1>7 DEF ExportWritesCap, baseline, poll, Unsteady, Ops, UnseenIsQuiet,
       ReadyIsRecovered
  <1>8. CASE ExportWritesLimit
    BY OpGoes, RollBackGoes, <1>8 DEF ExportWritesLimit, Written, memory,
       baseline, poll, Unsteady, UnseenIsQuiet, ReadyIsRecovered
  <1>9. CASE ExportForces
    BY RollBackGoes, <1>9 DEF ExportForces, memory, baseline, Unsteady, Answer,
       UnseenIsQuiet, ReadyIsRecovered
  <1>10. CASE CurtailWrites
    BY <1>10 DEF CurtailWrites, Written, memory, baseline, Unsteady, Answer,
       UnseenIsQuiet, ReadyIsRecovered
  <1>11. CASE ExportBegins
    BY <1>11 DEF ExportBegins, Saved, Capture, Idle, device, poll, Unsteady,
       UnseenIsQuiet, ReadyIsRecovered
  <1>12. CASE RestoreBegins
    BY <1>12 DEF RestoreBegins, Idle, device, memory, baseline, poll, Unsteady,
       OwnedByCurtailment, UnseenIsQuiet, ReadyIsRecovered
  <1>13. CASE Hold
    BY <1>13 DEF Hold, baseline, poll, Unsteady, Written, UnseenIsQuiet,
       ReadyIsRecovered
  <1>14. CASE Unhold
    BY <1>14 DEF Unhold, Idle, device, memory, baseline, poll, Unsteady,
       UnseenIsQuiet, ReadyIsRecovered
  <1>15. CASE HandlerDecides
    BY <1>15 DEF HandlerDecides, HandlerIsUp, device, memory, baseline, poll,
       counts, UnseenIsQuiet, ReadyIsRecovered
  <1>16. CASE CurtailBegins
    BY <1>16 DEF CurtailBegins, Saved, Capture, Idle, device, poll,
       UnseenIsQuiet, ReadyIsRecovered
  <1>17. CASE UncurtailBegins
    BY <1>17 DEF UncurtailBegins, Idle, device, memory, baseline, poll,
       UnseenIsQuiet, ReadyIsRecovered
  <1>18. CASE Poll
    BY <1>18 DEF Poll, Idle, device, memory, baseline, Unsteady, UnseenIsQuiet,
       ReadyIsRecovered
  <1>19. CASE RecoveryBegins
    BY <1>19 DEF RecoveryBegins, Idle, device, Unsteady, OwnedByCurtailment,
       UnseenIsQuiet, ReadyIsRecovered
  <1>20. CASE RecoveryCannotLoad
    BY <1>20 DEF RecoveryCannotLoad, Idle, device, memory, baseline, Unsteady,
       UnseenIsQuiet, ReadyIsRecovered
  <1>21. CASE Restart
    BY <1>21 DEF Restart, device, UnseenIsQuiet, ReadyIsRecovered
  <1>22. CASE \E v \in Settings : UserSets(v)
    BY <1>22 DEF UserSets, memory, baseline, Borrowed, UnseenIsQuiet,
       ReadyIsRecovered
  <1>23. CASE PriceMoves
    BY <1>23 DEF PriceMoves, Unconcerned, device, memory, baseline, poll,
       UnseenIsQuiet, ReadyIsRecovered
  <1>24. CASE SurplusMoves
    BY <1>24 DEF SurplusMoves, device, memory, baseline, poll, UnseenIsQuiet,
       ReadyIsRecovered
  <1>25. CASE \E a \in {"self", "export", "hold"} : PlanMoves(a)
    BY <1>25 DEF PlanMoves, Unconcerned, device, memory, baseline, poll,
       UnseenIsQuiet, ReadyIsRecovered
  <1>26. CASE UNCHANGED vars
    BY <1>26 DEF vars, UnseenIsQuiet, ReadyIsRecovered
  <1> QED
    BY <1>1, <1>2, <1>3, <1>4, <1>5, <1>6, <1>7, <1>8, <1>9, <1>10, <1>11,
       <1>12, <1>13, <1>14, <1>15, <1>16, <1>17, <1>18, <1>19, <1>20, <1>21,
       <1>22, <1>23, <1>24, <1>25, <1>26
       DEF Next, OpStep


-----------------------------------------------------------------------------
(* The loan                                                                *)

\* Every step keeps what the loan rests on.
LEMMA LoanStep ==
  ASSUME Premises, TypeOK, LoanFacts, [Next]_vars
  PROVE  LoanFacts'
  <1> USE LimitNames, OpFlags, RecordShape, OpFields, RecordFields
          DEF Premises, LoanFacts, TypeOK, RegisterTypes, MemoryTypes, WorkTypes
  <1>0. UnseenIsQuiet' /\ ReadyIsRecovered'
    BY QuietStep
  <1>1. CASE ModeStep
    BY <1>0, <1>1, OpGoes DEF ModeStep, memory, baseline, poll, Unsteady,
       Written, StillOk, BaselineIsWish, UnheldIsRecovering, SeenIsWish,
       OpIsSound, UnseenIsQuiet, ReadyIsRecovered, OwnedByCurtailment
  <1>2. CASE RestoreLimitStep
    BY <1>0, <1>2, OpGoes DEF RestoreLimitStep, memory, baseline, Unsteady,
       Written, StillOk, KeepsLimit, Answer, BaselineIsWish, UnheldIsRecovering,
       SeenIsWish, OpIsSound, UnseenIsQuiet, ReadyIsRecovered,
       OwnedByCurtailment
  <1>3. CASE CapStep
    BY <1>0, <1>3, OpGoes DEF CapStep, baseline, Unsteady, StillOk, Answer,
       BaselineIsWish, UnheldIsRecovering, SeenIsWish, OpIsSound, UnseenIsQuiet,
       ReadyIsRecovered, OwnedByCurtailment
  <1>4. CASE ClearAfterCurtailment
    <2> USE <1>4 DEF ClearAfterCurtailment, LetGo, Saved, baseline, device,
       Unsteady, Answer
    <2>1. BaselineIsWish'
      BY DEF BaselineIsWish, OpIsSound
    <2>2. UnheldIsRecovering'
      BY DEF UnheldIsRecovering, UnseenIsQuiet, ReadyIsRecovered, OpIsSound,
         BaselineIsWish
    <2>3. SeenIsWish'
      BY DEF SeenIsWish, UnheldIsRecovering, BaselineIsWish, OpIsSound,
         UnseenIsQuiet
    <2>4. OpIsSound'
      BY DEF OpIsSound, BaselineIsWish, UnseenIsQuiet, UnheldIsRecovering,
         SeenIsWish, OwnedByCurtailment, ReadyIsRecovered
    <2> QED
      BY <1>0, <2>1, <2>2, <2>3, <2>4
  <1>5. CASE ClearAfterRestore
    BY <1>0, <1>5 DEF ClearAfterRestore, LetGo, Saved, baseline, device,
       Unsteady, Answer, StillOk, BaselineIsWish, UnheldIsRecovering,
       SeenIsWish, OpIsSound, UnseenIsQuiet, ReadyIsRecovered,
       OwnedByCurtailment
  <1>6. CASE ClearAfterRollback
    BY <1>0, <1>6 DEF ClearAfterRollback, LetGo, Saved, baseline, device,
       Unsteady, Answer, BaselineIsWish, UnheldIsRecovering, SeenIsWish,
       OpIsSound, UnseenIsQuiet, ReadyIsRecovered, OwnedByCurtailment
  <1>7. CASE ExportWritesCap
    BY <1>0, <1>7 DEF ExportWritesCap, baseline, poll, Unsteady, Ops,
       BaselineIsWish, UnheldIsRecovering, SeenIsWish, OpIsSound, UnseenIsQuiet,
       ReadyIsRecovered, OwnedByCurtailment
  <1>8. CASE ExportWritesLimit
    <2> USE <1>8 DEF ExportWritesLimit, Written, memory, baseline, poll,
       Unsteady
    <2>1. BaselineIsWish'
      BY OpGoes, RollBackGoes DEF BaselineIsWish, OpIsSound
    <2>2. UnheldIsRecovering'
      BY OpGoes, RollBackGoes DEF UnheldIsRecovering, UnseenIsQuiet,
         ReadyIsRecovered, OpIsSound, BaselineIsWish
    <2>3. SeenIsWish'
      BY OpGoes, RollBackGoes DEF SeenIsWish, UnheldIsRecovering,
         BaselineIsWish, OpIsSound, UnseenIsQuiet
    <2>4. OpIsSound'
      <3>1. CASE GoTo("force", TRUE)
        BY <3>1, OpGoes DEF OpIsSound
      <3>2. CASE RollBack("limit")
        BY <3>2, RollBackGoes DEF OpIsSound
      <3> QED
        BY <3>1, <3>2
    <2> QED
      BY <1>0, <2>1, <2>2, <2>3, <2>4
  <1>9. CASE ExportForces
    BY <1>0, <1>9, RollBackGoes DEF ExportForces, memory, baseline, Unsteady,
       Answer, BaselineIsWish, UnheldIsRecovering, SeenIsWish, OpIsSound,
       UnseenIsQuiet, ReadyIsRecovered, OwnedByCurtailment
  <1>10. CASE CurtailWrites
    BY <1>0, <1>10 DEF CurtailWrites, Written, memory, baseline, Unsteady,
       Answer, BaselineIsWish, UnheldIsRecovering, SeenIsWish, OpIsSound,
       UnseenIsQuiet, ReadyIsRecovered, OwnedByCurtailment
  <1>11. CASE ExportBegins
    <2> USE <1>11 DEF ExportBegins, Saved, Capture, Idle, device, poll, Unsteady
    <2>1. BaselineIsWish'
      BY DEF BaselineIsWish, SeenIsWish, UnseenIsQuiet, UnheldIsRecovering,
         ReadyIsRecovered
    <2>2. UnheldIsRecovering'
      BY DEF UnheldIsRecovering, UnseenIsQuiet, ReadyIsRecovered, OpIsSound,
         BaselineIsWish
    <2>3. SeenIsWish'
      BY DEF SeenIsWish, UnheldIsRecovering, BaselineIsWish, OpIsSound,
         UnseenIsQuiet
    <2>4. OpIsSound'
      <3>1. CASE op' = NoOp
        BY <3>1 DEF OpIsSound
      <3>2. CASE /\ disk'.active /\ op'.name = "export" /\ op'.at = "cap"
        BY <3>2 DEF OpIsSound
      <3> QED
        BY <3>1, <3>2 DEF Op
    <2> QED
      BY <1>0, <2>1, <2>2, <2>3, <2>4
  <1>12. CASE RestoreBegins
    <2> USE <1>12 DEF RestoreBegins, Idle, device, memory, baseline, poll,
       Unsteady, OwnedByCurtailment
    <2>1. BaselineIsWish'
      BY DEF BaselineIsWish, OpIsSound
    <2>2. UnheldIsRecovering'
      BY DEF UnheldIsRecovering, UnseenIsQuiet, ReadyIsRecovered, OpIsSound,
         BaselineIsWish
    <2>3. SeenIsWish'
      BY DEF SeenIsWish, UnheldIsRecovering, BaselineIsWish, OpIsSound,
         UnseenIsQuiet
    <2>4. OpIsSound'
      <3>1. /\ op'.name = "normal" /\ op'.at = "mode"
            /\ op'.owned = (~OwnedByCurtailment /\ (held \/ retry))
        BY DEF Op
      <3> QED
        BY <3>1 DEF OpIsSound, OwnedByCurtailment
    <2> QED
      BY <1>0, <2>1, <2>2, <2>3, <2>4
  <1>13. CASE Hold
    BY <1>0, <1>13 DEF Hold, baseline, poll, Unsteady, Written, BaselineIsWish,
       UnheldIsRecovering, SeenIsWish, OpIsSound, UnseenIsQuiet,
       ReadyIsRecovered, OwnedByCurtailment
  <1>14. CASE Unhold
    <2> USE <1>14 DEF Unhold, Idle, device, memory, baseline, poll, Unsteady
    <2>1. BaselineIsWish'
      BY DEF BaselineIsWish, OpIsSound
    <2>2. UnheldIsRecovering'
      BY DEF UnheldIsRecovering, UnseenIsQuiet, ReadyIsRecovered, OpIsSound,
         BaselineIsWish
    <2>3. SeenIsWish'
      BY DEF SeenIsWish, UnheldIsRecovering, BaselineIsWish, OpIsSound,
         UnseenIsQuiet
    <2>4. OpIsSound'
      <3>1. op'.name = "unhold" /\ op'.at = "mode"
        BY DEF Op
      <3> QED
        BY <3>1 DEF OpIsSound
    <2> QED
      BY <1>0, <2>1, <2>2, <2>3, <2>4
  <1>15. CASE HandlerDecides
    BY <1>0, <1>15 DEF HandlerDecides, HandlerIsUp, device, memory, baseline,
       poll, counts, BaselineIsWish, UnheldIsRecovering, SeenIsWish, OpIsSound,
       UnseenIsQuiet, ReadyIsRecovered, OwnedByCurtailment
  <1>16. CASE CurtailBegins
    <2> USE <1>16 DEF CurtailBegins, Saved, Capture, Idle, device, poll
    <2>1. BaselineIsWish'
      BY DEF BaselineIsWish, SeenIsWish, UnseenIsQuiet, UnheldIsRecovering,
         ReadyIsRecovered
    <2>2. UnheldIsRecovering'
      BY DEF UnheldIsRecovering, UnseenIsQuiet, ReadyIsRecovered, OpIsSound,
         BaselineIsWish
    <2>3. SeenIsWish'
      BY DEF SeenIsWish, UnheldIsRecovering, BaselineIsWish, OpIsSound,
         UnseenIsQuiet
    <2>4. OpIsSound'
      <3>1. CASE op' = NoOp
        BY <3>1 DEF OpIsSound
      <3>2. CASE /\ disk'.active /\ op'.name = "curtail" /\ op'.at = "limit"
        BY <3>2 DEF OpIsSound
      <3> QED
        BY <3>1, <3>2 DEF Op
    <2> QED
      BY <1>0, <2>1, <2>2, <2>3, <2>4
  <1>17. CASE UncurtailBegins
    <2> USE <1>17 DEF UncurtailBegins, Idle, device, memory, baseline, poll
    <2>1. BaselineIsWish'
      BY DEF BaselineIsWish, OpIsSound
    <2>2. UnheldIsRecovering'
      BY DEF UnheldIsRecovering, UnseenIsQuiet, ReadyIsRecovered, OpIsSound,
         BaselineIsWish
    <2>3. SeenIsWish'
      BY DEF SeenIsWish, UnheldIsRecovering, BaselineIsWish, OpIsSound,
         UnseenIsQuiet
    <2>4. OpIsSound'
      <3>1. op'.name = "uncurtail" /\ op'.at = "limit"
        BY DEF Op
      <3> QED
        BY <3>1 DEF OpIsSound
    <2> QED
      BY <1>0, <2>1, <2>2, <2>3, <2>4
  <1>18. CASE Poll
    BY <1>0, <1>18 DEF Poll, Idle, device, memory, baseline, Unsteady,
       BaselineIsWish, UnheldIsRecovering, SeenIsWish, OpIsSound, UnseenIsQuiet,
       ReadyIsRecovered, OwnedByCurtailment
  <1>19. CASE RecoveryBegins
    <2> USE <1>19 DEF RecoveryBegins, Idle, device, Unsteady, OwnedByCurtailment
    <2>1. BaselineIsWish'
      BY DEF BaselineIsWish, OpIsSound
    <2>2. UnheldIsRecovering'
      BY DEF UnheldIsRecovering, UnseenIsQuiet, ReadyIsRecovered, OpIsSound,
         BaselineIsWish
    <2>3. SeenIsWish'
      BY DEF SeenIsWish, UnheldIsRecovering, BaselineIsWish, OpIsSound,
         UnseenIsQuiet
    <2>4. OpIsSound'
      <3>1. CASE disk.by = "curtailment"
        <4>1. op'.name = "uncurtail" /\ op'.at = "limit"
          BY <3>1 DEF Op
        <4> QED
          BY <4>1 DEF OpIsSound
      <3>2. CASE disk.by # "curtailment"
        <4>1. /\ op'.name = "normal" /\ op'.at = "mode"
              /\ op'.owned = ~(owner = "curtailment")
          BY <3>2 DEF Op
        <4> QED
          BY <4>1 DEF OpIsSound, OwnedByCurtailment
      <3> QED
        BY <3>1, <3>2
    <2> QED
      BY <1>0, <2>1, <2>2, <2>3, <2>4
  <1>20. CASE RecoveryCannotLoad
    BY <1>0, <1>20 DEF RecoveryCannotLoad, Idle, device, memory, baseline,
       Unsteady, BaselineIsWish, UnheldIsRecovering, SeenIsWish, OpIsSound,
       UnseenIsQuiet, ReadyIsRecovered, OwnedByCurtailment
  <1>21. CASE Restart
    BY <1>0, <1>21 DEF Restart, device, BaselineIsWish, UnheldIsRecovering,
       SeenIsWish, OpIsSound, UnseenIsQuiet, ReadyIsRecovered,
       OwnedByCurtailment
  <1>22. CASE \E v \in Settings : UserSets(v)
    BY <1>0, <1>22 DEF UserSets, memory, baseline, Borrowed, BaselineIsWish,
       UnheldIsRecovering, SeenIsWish, OpIsSound, UnseenIsQuiet,
       ReadyIsRecovered, OwnedByCurtailment
  <1>23. CASE PriceMoves
    BY <1>0, <1>23 DEF PriceMoves, Unconcerned, device, memory, baseline, poll,
       BaselineIsWish, UnheldIsRecovering, SeenIsWish, OpIsSound, UnseenIsQuiet,
       ReadyIsRecovered, OwnedByCurtailment
  <1>24. CASE SurplusMoves
    BY <1>0, <1>24 DEF SurplusMoves, device, memory, baseline, poll,
       BaselineIsWish, UnheldIsRecovering, SeenIsWish, OpIsSound, UnseenIsQuiet,
       ReadyIsRecovered, OwnedByCurtailment
  <1>25. CASE \E a \in {"self", "export", "hold"} : PlanMoves(a)
    BY <1>0, <1>25 DEF PlanMoves, Unconcerned, device, memory, baseline, poll,
       BaselineIsWish, UnheldIsRecovering, SeenIsWish, OpIsSound, UnseenIsQuiet,
       ReadyIsRecovered, OwnedByCurtailment
  <1>26. CASE UNCHANGED vars
    BY <1>0, <1>26
       DEF vars, BaselineIsWish, UnheldIsRecovering, SeenIsWish, OpIsSound,
           UnseenIsQuiet, ReadyIsRecovered, OwnedByCurtailment
  <1> QED
    BY <1>1, <1>2, <1>3, <1>4, <1>5, <1>6, <1>7, <1>8, <1>9, <1>10, <1>11,
       <1>12, <1>13, <1>14, <1>15, <1>16, <1>17, <1>18, <1>19, <1>20, <1>21,
       <1>22, <1>23, <1>24, <1>25, <1>26
       DEF Next, OpStep

\* What the initial state gives.
LEMMA LoanInit == Init => TypeOK /\ LoanFacts
  <1> SUFFICES ASSUME Init PROVE TypeOK /\ LoanFacts
    OBVIOUS
  <1> USE LimitNames DEF Init
  <1>1. RegisterTypes /\ MemoryTypes /\ HandlerTypes
    BY DEF RegisterTypes, MemoryTypes, HandlerTypes
  <1>2. WorkTypes
    BY NoOpShape, RecordShape DEF WorkTypes
  <1>3. CountsInBounds
    BY BoundsAreNaturals DEF CountsInBounds
  <1>4. LoanFacts
    BY OpFields, RecordFields
       DEF LoanFacts, BaselineIsWish, UnseenIsQuiet, UnheldIsRecovering, SeenIsWish,
           OpIsSound, ReadyIsRecovered, Settings
  <1> QED
    BY <1>1, <1>2, <1>3, <1>4 DEF TypeOK

\* Every step of the inverter's control borrows, uses or gives back the export
\* limit, lets the user choose it, or does none of these.
LEMMA LoanRefines ==
  ASSUME Premises, TypeOK, LoanFacts, [Next]_vars
  PROVE  [Setting!Next]_(Setting!vars)
  <1> USE LimitNames, OpFlags, RecordShape, RecordFields, OpFields
          DEF TypeOK, RegisterTypes, MemoryTypes, WorkTypes, Borrowed
  <1> USE DEF Setting!vars
  <1>1. CASE ModeStep
    BY <1>1 DEF ModeStep, memory, baseline, Unsteady
  <1>2. CASE RestoreLimitStep
    <2>1. /\ held' = held /\ disk' = disk /\ wish' = wish
          /\ limit' # limit => held /\ limit' = base
      BY <1>2 DEF RestoreLimitStep, KeepsLimit, Written, memory, baseline,
         Unsteady
    <2> QED
      BY <2>1 DEF Setting!Next, Setting!Use
  <1>3. CASE CapStep
    BY <1>3 DEF CapStep, baseline, Unsteady
  <1>4. CASE ClearAfterCurtailment
    <2>1. /\ limit' = limit /\ wish' = wish
          /\ \/ held' = held /\ disk' = disk
             \/ ~held' /\ ~disk'.active /\ limit = wish
      BY <1>4 DEF ClearAfterCurtailment, LetGo, Saved, StillOk, baseline,
         device, Unsteady, LoanFacts,
                OpIsSound
    <2> QED
      BY <2>1 DEF Setting!Next, Setting!GiveBack
  <1>5. CASE ClearAfterRestore
    <2>1. /\ limit' = limit /\ wish' = wish
          /\ \/ held' = held /\ disk' = disk
             \/ ~held' /\ ~disk'.active /\ limit = wish
      BY <1>5 DEF ClearAfterRestore, LetGo, Saved, StillOk, baseline, device,
         Unsteady, LoanFacts,
                OpIsSound
    <2> QED
      BY <2>1 DEF Setting!Next, Setting!GiveBack
  <1>6. CASE ClearAfterRollback
    <2>1. /\ limit' = limit /\ wish' = wish
          /\ \/ held' = held /\ disk' = disk
             \/ ~held' /\ ~disk'.active /\ limit = wish
      BY <1>6 DEF ClearAfterRollback, LetGo, Saved, StillOk, baseline, device,
         Unsteady, LoanFacts,
                OpIsSound
    <2> QED
      BY <2>1 DEF Setting!Next, Setting!GiveBack
  <1>7. CASE ExportWritesCap
    BY <1>7 DEF ExportWritesCap, baseline, Unsteady
  <1>8. CASE ExportWritesLimit
    <2>1. /\ held' = held /\ disk' = disk /\ wish' = wish
          /\ disk.active /\ limit' \in {limit, "target"}
      BY <1>8 DEF ExportWritesLimit, Written, memory, baseline, Unsteady,
         LoanFacts, OpIsSound
    <2> QED
      BY <2>1 DEF Setting!Next, Setting!Use
  <1>9. CASE ExportForces
    BY <1>9 DEF ExportForces, memory, baseline, Unsteady
  <1>10. CASE CurtailWrites
    <2>1. /\ held' = held /\ disk' = disk /\ wish' = wish
          /\ disk.active /\ limit' \in {limit, "zero"}
      BY <1>10 DEF CurtailWrites, Written, memory, baseline, Unsteady,
         LoanFacts, OpIsSound
    <2> QED
      BY <2>1 DEF Setting!Next, Setting!Use
  <1>11. CASE ExportBegins
    <2>1. limit' = limit /\ wish' = wish /\ held'
      BY <1>11 DEF ExportBegins, Capture, device, Unsteady
    <2> QED
      BY <2>1 DEF Setting!Next, Setting!Borrow
  <1>12. CASE RestoreBegins
    BY <1>12 DEF RestoreBegins, device, memory, baseline, Unsteady
  <1>13. CASE Hold
    BY <1>13 DEF Hold, baseline, Unsteady
  <1>14. CASE Unhold
    BY <1>14 DEF Unhold, device, memory, baseline, Unsteady
  <1>15. CASE HandlerDecides
    BY <1>15 DEF HandlerDecides, device, memory, baseline
  <1>16. CASE CurtailBegins
    <2>1. limit' = limit /\ wish' = wish /\ held'
      BY <1>16 DEF CurtailBegins, Capture, device, Unsteady
    <2> QED
      BY <2>1 DEF Setting!Next, Setting!Borrow
  <1>17. CASE UncurtailBegins
    BY <1>17 DEF UncurtailBegins, device, memory, baseline
  <1>18. CASE Poll
    BY <1>18 DEF Poll, device, memory, baseline, Unsteady
  <1>19. CASE RecoveryBegins
    BY <1>19 DEF RecoveryBegins, device, Unsteady
  <1>20. CASE RecoveryCannotLoad
    BY <1>20 DEF RecoveryCannotLoad, device, memory, baseline, Unsteady
  <1>21. CASE Restart
    <2>1. limit' = limit /\ wish' = wish /\ ~held' /\ disk' = disk
      BY <1>21 DEF Restart, device
    <2>2. ~disk.active => limit = wish
      BY DEF LoanFacts, BaselineIsWish
    <2> QED
      BY <2>1, <2>2 DEF Setting!Next, Setting!GiveBack
  <1>22. CASE \E v \in Settings : UserSets(v)
    <2>1. PICK v \in Settings : UserSets(v)
      BY <1>22
    <2>2. /\ ~Borrowed /\ v \in Limits /\ limit' = v /\ wish' = v
          /\ held' = held /\ disk' = disk
      BY <2>1 DEF UserSets, Premises, memory, baseline
    <2> QED
      BY <2>2 DEF Setting!Next, Setting!Choose
  <1>23. CASE PriceMoves
    BY <1>23 DEF PriceMoves, Unconcerned, device, memory, baseline
  <1>24. CASE SurplusMoves
    BY <1>24 DEF SurplusMoves, device, memory, baseline
  <1>25. CASE \E a \in {"self", "export", "hold"} : PlanMoves(a)
    BY <1>25 DEF PlanMoves, Unconcerned, device, memory, baseline
  <1>26. CASE UNCHANGED vars
    BY <1>26 DEF vars
  <1> QED
    BY <1>1, <1>2, <1>3, <1>4, <1>5, <1>6, <1>7, <1>8, <1>9, <1>10, <1>11,
       <1>12, <1>13, <1>14, <1>15, <1>16, <1>17, <1>18, <1>19, <1>20, <1>21,
       <1>22, <1>23, <1>24, <1>25, <1>26
       DEF Next, OpStep

-----------------------------------------------------------------------------
(* What curtailment owns                                                   *)

\* Who called an operation does not change on its way.
LEMMA CallerStays ==
  ASSUME op \in Ops, NEW a, NEW b, GoTo(a, b) \/ RollBack(a)
  PROVE  op'.by = op.by
  BY DEF GoTo, RollBack, Ops

\* The callers of new operations.
LEMMA CallerFields ==
  /\ \A n, a, b, w, c : Op(n, a, b, w, c).by = c
  /\ NoOp.by = "none"
  BY DEF Op, NoOp

\* Every step keeps what curtailment's ownership rests on.
LEMMA CurtailStep ==
  ASSUME KeptApart, TypeOK, ReadyIsRecovered, CurtailFacts, [Next]_vars
  PROVE  CurtailFacts'
  <1> USE LimitNames, OpFlags, OpFields, CallerFields
          DEF KeptApart, TypeOK, RegisterTypes, MemoryTypes, WorkTypes,
              ReadyIsRecovered, CurtailFacts, OwnedByCurtailment
  <1>1. CASE ModeStep
    BY <1>1, OpGoes, CallerStays DEF ModeStep, memory, baseline, poll, handler,
       Unsteady, Written, StillOk, RecoveryIsAlone, OwnerHolds, OpIsOwners,
       CurtailedHolds
  <1>2. CASE RestoreLimitStep
    <2> USE <1>2 DEF RestoreLimitStep
    <2>1. UNCHANGED <<held, owner, waiting>>
      BY DEF memory, baseline, Unsteady
    <2>2. CASE KeepsLimit
      <3>1. UNCHANGED limit /\ op.name # "curtail"
        BY <2>2
      <3>2. CASE op.name = "uncurtail"
        BY <2>1, <2>2, <3>1, <3>2 DEF Answer, handler, RecoveryIsAlone,
           OwnerHolds, OpIsOwners, CurtailedHolds
      <3>3. CASE op.name # "uncurtail"
        <4>1. GoTo("cap", op.ok) /\ UNCHANGED <<recovering, ready, handler>>
          BY <2>2, <3>3
        <4> QED
          BY <2>1, <3>1, <3>3, <4>1, OpGoes, CallerStays DEF handler,
             RecoveryIsAlone, OwnerHolds, OpIsOwners, CurtailedHolds
      <3> QED
        BY <3>2, <3>3
    <2>3. CASE ~KeepsLimit
      <3>1. CASE op.name # "uncurtail"
        <4>1. /\ op'.at = "cap" /\ op'.name = op.name /\ op'.by = op.by
              /\ op'.owned = op.owned
              /\ UNCHANGED <<recovering, ready, handler>>
          BY <2>3, <3>1, OpGoes, CallerStays
        <4>2. ~OwnedByCurtailment
          BY <2>3, <3>1 DEF KeepsLimit, OpIsOwners
        <4> QED
          BY <2>1, <4>1, <4>2, <3>1 DEF handler, RecoveryIsAlone, OwnerHolds,
             OpIsOwners, CurtailedHolds
      <3>2. CASE op.name = "uncurtail"
        <4>1. \/ /\ op'.at = "clear" /\ op'.name = op.name /\ op'.by = op.by
                 /\ UNCHANGED <<recovering, ready, handler>>
              \/ Answer(FALSE) /\ Fails
          BY <2>3, <3>2, OpGoes, CallerStays DEF Written
        <4>2. CASE Answer(FALSE) /\ Fails
          BY <2>1, <3>2, <4>2 DEF Answer, Fails, handler, RecoveryIsAlone,
             OwnerHolds, OpIsOwners, CurtailedHolds
        <4>3. CASE /\ op'.at = "clear" /\ op'.name = op.name /\ op'.by = op.by
                   /\ UNCHANGED <<recovering, ready, handler>>
          BY <2>1, <3>2, <4>3 DEF handler, RecoveryIsAlone, OwnerHolds,
             OpIsOwners, CurtailedHolds
        <4> QED
          BY <4>1, <4>2, <4>3
      <3> QED
        BY <3>1, <3>2
    <2> QED
      BY <2>2, <2>3
  <1>3. CASE CapStep
    BY <1>3, OpGoes, CallerStays DEF CapStep, baseline, handler, Unsteady,
       StillOk, Answer, RecoveryIsAlone, OwnerHolds, OpIsOwners, CurtailedHolds
  <1>4. CASE ClearAfterCurtailment
    BY <1>4 DEF ClearAfterCurtailment, LetGo, Saved, Fails, baseline, device,
       handler, Unsteady, Answer, RecoveryIsAlone, OwnerHolds, OpIsOwners,
       CurtailedHolds
  <1>5. CASE ClearAfterRestore
    BY <1>5 DEF ClearAfterRestore, LetGo, Saved, baseline, device, handler,
       Unsteady, Answer, StillOk, RecoveryIsAlone, OwnerHolds, OpIsOwners,
       CurtailedHolds
  <1>6. CASE ClearAfterRollback
    BY <1>6 DEF ClearAfterRollback, LetGo, Saved, baseline, device, handler,
       Unsteady, Answer, RecoveryIsAlone, OwnerHolds, OpIsOwners, CurtailedHolds
  <1>7. CASE ExportWritesCap
    BY <1>7 DEF ExportWritesCap, baseline, poll, handler, Unsteady, Ops,
       RecoveryIsAlone, OwnerHolds, OpIsOwners, CurtailedHolds
  <1>8. CASE ExportWritesLimit
    BY <1>8, OpGoes, RollBackGoes, CallerStays DEF ExportWritesLimit, Written,
       memory, baseline, poll, handler, Unsteady, RecoveryIsAlone, OwnerHolds,
       OpIsOwners, CurtailedHolds
  <1>9. CASE ExportForces
    <2>1. UNCHANGED <<limit, held, owner, waiting>>
      BY <1>9 DEF ExportForces, memory, baseline, Unsteady
    <2>2. CASE Answer(TRUE)
      BY <1>9, <2>1, <2>2 DEF ExportForces, Answer, handler, RecoveryIsAlone,
         OwnerHolds, OpIsOwners, CurtailedHolds
    <2>3. CASE RollBack("mode") /\ UNCHANGED <<recovering, ready, handler>>
      <3>1. op'.name = "rollback" /\ op'.by = op.by /\ op'.at = "mode"
        BY <2>3, RollBackGoes, CallerStays
      <3>2. held /\ owner = "none"
        BY <1>9 DEF ExportForces, OpIsOwners
      <3> QED
        BY <2>1, <2>3, <3>1, <3>2 DEF handler, RecoveryIsAlone, OwnerHolds,
           OpIsOwners, CurtailedHolds
    <2> QED
      BY <1>9, <2>2, <2>3 DEF ExportForces
  <1>10. CASE CurtailWrites
    BY <1>10 DEF CurtailWrites, Written, memory, baseline, Unsteady, handler,
       Answer, RecoveryIsAlone, OwnerHolds, OpIsOwners, CurtailedHolds
  <1>11. CASE ExportBegins
    <2>1. /\ UNCHANGED <<limit, waiting, owner, state, recovering>> /\ held'
          /\ waiting = {} /\ ~recovering /\ state # "curtailed"
          /\ owner # "curtailment"
      BY <1>11 DEF ExportBegins, Capture, CurtailmentInPlay, device, poll,
         handler, Unsteady, OwnerHolds
    <2>2. \/ op' = NoOp
          \/ op'.name = "export" /\ op'.by = "optimizer" /\ op'.at = "cap"
      BY <1>11 DEF ExportBegins, Op
    <2> QED
      BY <2>1, <2>2 DEF RecoveryIsAlone, OwnerHolds, OpIsOwners, CurtailedHolds
  <1>12. CASE RestoreBegins
    <2>1. /\ UNCHANGED <<limit, waiting, held, owner, state, recovering>>
          /\ ~recovering /\ op.name = "none"
      BY <1>12 DEF RestoreBegins, Idle, device, memory, baseline, poll, handler,
         Unsteady
    <2>2. /\ op'.name = "normal" /\ op'.by = "optimizer" /\ op'.at = "mode"
          /\ op'.owned => ~OwnedByCurtailment
      BY <1>12 DEF RestoreBegins, Op
    <2> QED
      BY <2>1, <2>2 DEF RecoveryIsAlone, OwnerHolds, OpIsOwners, CurtailedHolds
  <1>13. CASE Hold
    BY <1>13 DEF Hold, baseline, poll, handler, Unsteady, Written,
       RecoveryIsAlone, OwnerHolds, OpIsOwners, CurtailedHolds
  <1>14. CASE Unhold
    <2>1. /\ UNCHANGED <<limit, waiting, held, owner, state, recovering>>
          /\ ~recovering /\ op.name = "none"
      BY <1>14 DEF Unhold, Idle, device, memory, baseline, poll, handler,
         Unsteady
    <2>2. op'.name = "unhold" /\ op'.by = "optimizer" /\ op'.at = "mode"
      BY <1>14 DEF Unhold, Op
    <2> QED
      BY <2>1, <2>2 DEF RecoveryIsAlone, OwnerHolds, OpIsOwners, CurtailedHolds
  <1>15. CASE HandlerDecides
    BY <1>15 DEF HandlerDecides, HandlerIsUp, ExportInPlay, device, memory,
       baseline, poll, handler, counts, RecoveryIsAlone, OwnerHolds, OpIsOwners,
       CurtailedHolds
  <1>16. CASE CurtailBegins
    <2>1. /\ UNCHANGED <<limit, recovering>> /\ waiting' = waiting \ {"curtail"}
          /\ held' /\ owner' = "curtailment" /\ ~recovering /\ op.name = "none"
      BY <1>16 DEF CurtailBegins, Capture, Idle, device, poll, OwnerHolds,
         RecoveryIsAlone
    <2>2. CASE op' = NoOp /\ state' = "pending"
      BY <2>1, <2>2 DEF RecoveryIsAlone, OwnerHolds, OpIsOwners, CurtailedHolds
    <2>3. CASE /\ op'.name = "curtail" /\ op'.by = "handler" /\ op'.at = "limit"
               /\ UNCHANGED handler
      BY <2>1, <2>3 DEF handler, RecoveryIsAlone, OwnerHolds, OpIsOwners,
         CurtailedHolds
    <2> QED
      BY <1>16, <2>2, <2>3 DEF CurtailBegins, Op
  <1>17. CASE UncurtailBegins
    <2>1. /\ UNCHANGED <<limit, held, owner, state, recovering>>
          /\ waiting' \subseteq waiting /\ op.name = "none"
      BY <1>17 DEF UncurtailBegins, Idle, device, memory, baseline, poll, handler
    <2>2. /\ op'.name = "uncurtail" /\ op'.by \in {"handler", "headroom"}
          /\ waiting # {} /\ op'.at = "limit"
      BY <1>17 DEF UncurtailBegins, Op
    <2> QED
      BY <2>1, <2>2 DEF RecoveryIsAlone, OwnerHolds, OpIsOwners, CurtailedHolds
  <1>18. CASE Poll
    BY <1>18 DEF Poll, Idle, device, memory, baseline, handler, Unsteady,
       RecoveryIsAlone, OwnerHolds, OpIsOwners, CurtailedHolds
  <1>19. CASE RecoveryBegins
    <2>1. /\ UNCHANGED <<limit, waiting, owner, state, recovering>>
          /\ recovering /\ held' /\ op.name = "none"
      BY <1>19 DEF RecoveryBegins, Idle, device, handler, Unsteady
    <2>2. /\ op'.name \in {"uncurtail", "normal"} /\ op'.by = "poll"
          /\ op'.at # "force"
      BY <1>19 DEF RecoveryBegins, Op
    <2> QED
      BY <2>1, <2>2 DEF RecoveryIsAlone, OwnerHolds, OpIsOwners, CurtailedHolds
  <1>20. CASE RecoveryCannotLoad
    BY <1>20 DEF RecoveryCannotLoad, Idle, device, memory, baseline, handler,
       Unsteady, RecoveryIsAlone, OwnerHolds, OpIsOwners, CurtailedHolds
  <1>21. CASE Restart
    BY <1>21 DEF Restart, device, RecoveryIsAlone, OwnerHolds, OpIsOwners,
       CurtailedHolds
  <1>22. CASE \E v \in Settings : UserSets(v)
    BY <1>22 DEF UserSets, memory, baseline, handler, Settings, RecoveryIsAlone,
       OwnerHolds, OpIsOwners, CurtailedHolds
  <1>23. CASE PriceMoves
    BY <1>23 DEF PriceMoves, Unconcerned, device, memory, baseline, poll,
       handler, RecoveryIsAlone, OwnerHolds, OpIsOwners, CurtailedHolds
  <1>24. CASE SurplusMoves
    BY <1>24 DEF SurplusMoves, device, memory, baseline, poll, handler,
       RecoveryIsAlone, OwnerHolds, OpIsOwners, CurtailedHolds
  <1>25. CASE \E a \in {"self", "export", "hold"} : PlanMoves(a)
    BY <1>25 DEF PlanMoves, Unconcerned, device, memory, baseline, poll,
       handler, RecoveryIsAlone, OwnerHolds, OpIsOwners, CurtailedHolds
  <1>26. CASE UNCHANGED vars
    BY <1>26 DEF vars, RecoveryIsAlone, OwnerHolds, OpIsOwners, CurtailedHolds
  <1> QED
    BY <1>1, <1>2, <1>3, <1>4, <1>5, <1>6, <1>7, <1>8, <1>9, <1>10, <1>11,
       <1>12, <1>13, <1>14, <1>15, <1>16, <1>17, <1>18, <1>19, <1>20, <1>21,
       <1>22, <1>23, <1>24, <1>25, <1>26
       DEF Next, OpStep

\* What the initial state gives.
LEMMA CurtailInit == Init => CurtailFacts
  BY OpFields, CallerFields
     DEF Init, CurtailFacts, RecoveryIsAlone, OwnerHolds, OpIsOwners,
         CurtailedHolds, OwnedByCurtailment

-----------------------------------------------------------------------------
(* Theorems                                                                *)

\* Without any premise: every variable of the coordinator keeps to its values.
THEOREM TypeCorrect == Spec => []TypeOK
  <1>1. Init => TypeOK /\ UnseenIsQuiet /\ ReadyIsRecovered
    BY LoanInit DEF LoanFacts
  <1>2. TypeOK /\ UnseenIsQuiet /\ ReadyIsRecovered /\ [Next]_vars
        => (TypeOK /\ UnseenIsQuiet /\ ReadyIsRecovered)'
    BY TypeStep, QuietStep
  <1> QED
    BY <1>1, <1>2, PTL DEF Spec

\* What the loan rests on, at every moment.
THEOREM LoanHolds ==
  ASSUME Premises
  PROVE  Spec => [](TypeOK /\ LoanFacts)
  <1>1. Init => TypeOK /\ LoanFacts
    BY LoanInit
  <1>2. TypeOK /\ LoanFacts /\ [Next]_vars => (TypeOK /\ LoanFacts)'
    BY TypeStep, LoanStep DEF LoanFacts
  <1> QED
    BY <1>1, <1>2, PTL DEF Spec

\* Whenever Home Assistant is stopped, the stored record leads the export limit
\* back to what the user chose: through failed writes and saves, lost answers and
\* restarts in the middle of a restore.
THEOREM RecordLeadsBack ==
  ASSUME Premises
  PROVE  Spec => []WriteAhead
  <1>1. LoanFacts => WriteAhead
    BY DEF LoanFacts, BaselineIsWish, WriteAhead
  <1> QED
    BY <1>1, LoanHolds, PTL

\* When the handler sees no work to do because it takes the site for curtailed,
\* the curtailment's limit is in the register, as long as export windows and
\* curtailment are kept apart and a restore for surplus charging does not fail.
THEOREM CurtailmentIsInForce ==
  ASSUME KeptApart
  PROVE  Spec => []CurtailedIsCurtailed
  <1>1. Init => TypeOK /\ UnseenIsQuiet /\ ReadyIsRecovered /\ CurtailFacts
    BY LoanInit, CurtailInit DEF LoanFacts
  <1>2. TypeOK /\ UnseenIsQuiet /\ ReadyIsRecovered /\ CurtailFacts /\ [Next]_vars
        => (TypeOK /\ UnseenIsQuiet /\ ReadyIsRecovered /\ CurtailFacts)'
    BY TypeStep, QuietStep, CurtailStep
  <1>3. CurtailFacts => CurtailedIsCurtailed
    BY OpFields
       DEF CurtailFacts, CurtailedHolds, CurtailedIsCurtailed, AlreadyCurtailed,
           Idle
  <1> QED
    BY <1>1, <1>2, <1>3, PTL DEF Spec

\* The coordinator's handling of the export limit implements RestorableSetting:
\* no command, failure or restart gives the limit up but where the user's own
\* value is in the register.
THEOREM LoanIsRestorable ==
  ASSUME Premises
  PROVE  Spec => GivenBack
  <1>1. Init => Setting!Init
    BY LimitNames, RecordFields DEF Init, Setting!Init, Borrowed
  <1>2. TypeOK /\ LoanFacts /\ [Next]_vars => [Setting!Next]_(Setting!vars)
    BY LoanRefines
  <1>3. Spec => [](TypeOK /\ LoanFacts)
    BY LoanHolds
  <1> QED
    BY <1>1, <1>2, <1>3, PTL DEF Spec, GivenBack, Setting!Spec

\* What implementing RestorableSetting gives: an export limit for which there is
\* neither a held baseline nor a record is the one the user set.
THEOREM UnborrowedIsUsers == GivenBack => []Setting!Returned
  <1>1. Setting!Init => Setting!Returned
    BY DEF Setting!Init, Setting!Returned
  <1>2. Setting!Returned /\ [Setting!Next]_(Setting!vars) => Setting!Returned'
    BY DEF Setting!Returned, Setting!Next, Setting!vars, Setting!Choose,
           Setting!Borrow, Setting!Use, Setting!GiveBack
  <1> QED
    BY <1>1, <1>2, PTL DEF GivenBack, Setting!Spec
=============================================================================
