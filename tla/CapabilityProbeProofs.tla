------------------------ MODULE CapabilityProbeProofs ------------------------
(***************************************************************************)
(* Theorems about CapabilityProbe, for any number of claims and restarts   *)
(* and with every mishap.  Those about the record and the loadpoint are    *)
(* about one round of the planner at a time: two rounds that overlap can   *)
(* both start the car.                                                     *)
(***************************************************************************)
EXTENDS CapabilityProbe, TLAPS

\* The finally block of the task leaves a final phase, keeps what the record
\* says of the start, and gives up the mark of a confirmed charge only.
LEMMA FinishedRecord ==
  ASSUME RecordTypes, NEW j, NEW phase \in Terminal, NEW confirmed \in BOOLEAN,
         Finish(j, phase, confirmed)
  PROVE  /\ rec' \in Records /\ rec'.phase \in Terminal
         /\ rec'.pending = rec.pending /\ rec'.issued = rec.issued
         /\ confirmed \/ rec'.stop = rec.stop
         /\ \/ at' = [at EXCEPT ![j] = "stop"] /\ confirmed /\ lease = j
            \/ at' = [at EXCEPT ![j] = "save"]
  BY DEF Finish, GoTo, RecordTypes, Records, Terminal

\* Every step keeps the state's shape.
LEMMA TypeStep ==
  ASSUME TypeOK, [Next]_vars
  PROVE  TypeOK'
  <1> USE BoundsAreNaturals, HappensAreMishaps DEF TypeOK
  <1>1. ASSUME NEW j \in Jobs, Request(j)
       PROVE  TypeOK'
    <2> USE <1>1 DEF Request, GoTo, world
    <2>1. RecordTypes'
      BY DEF RecordTypes, Records, Terminal
    <2>2. JobTypes'
      BY DEF JobTypes, Probing, Stopping
    <2>3. WorldTypes'
      BY DEF WorldTypes
    <2> QED
      BY <2>1, <2>2, <2>3
  <1>2. ASSUME NEW j \in Jobs, Ask(j)
       PROVE  TypeOK'
    <2> USE <1>2 DEF Ask, GoTo, world, NewRec, NoRec
    <2>1. RecordTypes'
      BY DEF RecordTypes, Records, Terminal
    <2>2. JobTypes'
      BY DEF JobTypes, Probing, Stopping
    <2>3. WorldTypes'
      BY DEF WorldTypes
    <2> QED
      BY <2>1, <2>2, <2>3
  <1>3. ASSUME NEW j \in Jobs, Spawn(j)
       PROVE  TypeOK'
    <2> USE <1>3 DEF Spawn, Persisted, GoTo, world
    <2>1. RecordTypes'
      BY DEF RecordTypes, Records, Terminal
    <2>2. JobTypes'
      BY DEF JobTypes, Probing, Stopping
    <2>3. WorldTypes'
      BY DEF WorldTypes
    <2> QED
      BY <2>1, <2>2, <2>3
  <1>4. ASSUME NEW j \in Jobs, Passive(j)
       PROVE  TypeOK'
    <2> USE <1>4 DEF Passive, Look, Finish, GoTo
    <2>1. RecordTypes'
      BY DEF RecordTypes, Records, Terminal
    <2>2. JobTypes'
      BY DEF JobTypes, Probing, Stopping
    <2>3. WorldTypes'
      BY DEF WorldTypes
    <2> QED
      BY <2>1, <2>2, <2>3
  <1>5. ASSUME NEW j \in Jobs, Wake(j)
       PROVE  TypeOK'
    <2> USE <1>5 DEF Wake, Persisted, Look, Finish, GoTo
    <2>1. RecordTypes'
      BY DEF RecordTypes, Records, Terminal
    <2>2. JobTypes'
      BY DEF JobTypes, Probing, Stopping
    <2>3. WorldTypes'
      BY DEF WorldTypes
    <2> QED
      BY <2>1, <2>2, <2>3
  <1>6. ASSUME NEW j \in Jobs, Gate(j)
       PROVE  TypeOK'
    <2> USE <1>6 DEF Gate, Finish, GoTo, CanClaim
    <2>1. RecordTypes'
      BY DEF RecordTypes, Records, Terminal
    <2>2. JobTypes'
      BY DEF JobTypes, Probing, Stopping
    <2>3. WorldTypes'
      BY DEF WorldTypes
    <2> QED
      BY <2>1, <2>2, <2>3
  <1>7. ASSUME NEW j \in Jobs, Amps(j)
       PROVE  TypeOK'
    <2> USE <1>7 DEF Amps, Persisted, Finish, GoTo, world
    <2>1. RecordTypes'
      BY DEF RecordTypes, Records, Terminal
    <2>2. JobTypes'
      BY DEF JobTypes, Probing, Stopping
    <2>3. WorldTypes'
      BY DEF WorldTypes
    <2> QED
      BY <2>1, <2>2, <2>3
  <1>8. ASSUME NEW j \in Jobs, Send(j)
       PROVE  TypeOK'
    <2> USE <1>8 DEF Send, Persisted, Starts, GoTo, Mishap
    <2>1. RecordTypes'
      BY DEF RecordTypes
    <2>2. JobTypes'
      BY DEF JobTypes, Probing, Stopping
    <2>3. Charging \in {"no", "probe", "other"}
      BY DEF Charging, WorldTypes
    <2>4. car' \in {"no", "probe", "other"} /\ coming' \in BOOLEAN
      BY <2>3 DEF WorldTypes
    <2>5. started' \in Nat
      BY DEF WorldTypes
    <2>6. mishaps' \subseteq Happens
      BY DEF WorldTypes
    <2> QED
      BY <2>1, <2>2, <2>4, <2>5, <2>6 DEF WorldTypes
  <1>9. ASSUME NEW j \in Jobs, Answer(j)
       PROVE  TypeOK'
    <2> USE <1>9 DEF Answer, Finish, GoTo, world
    <2>1. RecordTypes'
      BY DEF RecordTypes, Records, Terminal
    <2>2. JobTypes'
      BY DEF JobTypes, Probing, Stopping
    <2>3. WorldTypes'
      BY DEF WorldTypes
    <2> QED
      BY <2>1, <2>2, <2>3
  <1>10. ASSUME NEW j \in Jobs, Unstarted(j)
        PROVE  TypeOK'
    <2> USE <1>10 DEF Unstarted, Persisted, Finish, GoTo, world
    <2>1. RecordTypes'
      BY DEF RecordTypes, Records, Terminal
    <2>2. JobTypes'
      BY DEF JobTypes, Probing, Stopping
    <2>3. WorldTypes'
      BY DEF WorldTypes
    <2> QED
      BY <2>1, <2>2, <2>3
  <1>11. ASSUME NEW j \in Jobs, Confirm(j)
        PROVE  TypeOK'
    <2> USE <1>11 DEF Confirm, Persisted, Finish, GoTo, world
    <2>1. RecordTypes'
      BY DEF RecordTypes, Records, Terminal
    <2>2. JobTypes'
      BY DEF JobTypes, Probing, Stopping
    <2>3. WorldTypes'
      BY DEF WorldTypes
    <2> QED
      BY <2>1, <2>2, <2>3
  <1>12. ASSUME NEW j \in Jobs, Measure(j)
        PROVE  TypeOK'
    <2>1. PICK phase \in {"fresh", "failed"} : Finish(j, phase, TRUE)
      BY <1>12 DEF Measure
    <2>2. rec' \in Records
      BY <2>1, FinishedRecord DEF Terminal
    <2>3. RecordTypes'
      BY <1>12, <2>2 DEF Measure, Persisted, RecordTypes
    <2>4. JobTypes'
      BY <2>1 , <1>12 DEF Measure, Finish, GoTo, JobTypes, Probing, Stopping
    <2>5. WorldTypes'
      BY <1>12 DEF Measure, Mishap, WorldTypes
    <2> QED
      BY <2>3, <2>4, <2>5
  <1>13. ASSUME NEW j \in Jobs, Stop(j)
        PROVE  TypeOK'
    <2> USE <1>13 DEF Stop, Stops, GoTo, Mishap
    <2>1. RecordTypes'
      BY DEF RecordTypes, Records, Terminal
    <2>2. JobTypes'
      BY DEF JobTypes, Probing, Stopping
    <2>3. WorldTypes'
      BY DEF WorldTypes
    <2> QED
      BY <2>1, <2>2, <2>3
  <1>14. ASSUME NEW j \in Jobs, Save(j)
        PROVE  TypeOK'
    <2> USE <1>14 DEF Save, Persisted, GoTo, world
    <2>1. RecordTypes'
      BY DEF RecordTypes, Records, Terminal
    <2>2. JobTypes'
      BY DEF JobTypes, Probing, Stopping
    <2>3. WorldTypes'
      BY DEF WorldTypes
    <2> QED
      BY <2>1, <2>2, <2>3
  <1>15. ASSUME NEW j \in Jobs, Recover(j)
        PROVE  TypeOK'
    <2> USE <1>15 DEF Recover, GoTo, world
    <2>1. RecordTypes'
      BY DEF RecordTypes, Records, Terminal
    <2>2. JobTypes'
      BY DEF JobTypes, Probing, Stopping
    <2>3. WorldTypes'
      BY DEF WorldTypes
    <2> QED
      BY <2>1, <2>2, <2>3
  <1>16. ASSUME NEW j \in Jobs, Resolve(j)
        PROVE  TypeOK'
    <2> USE <1>16 DEF Resolve, GoTo, MishapIf, Mishap
    <2>1. RecordTypes'
      BY DEF RecordTypes, Records, Terminal
    <2>2. JobTypes'
      BY DEF JobTypes, Probing, Stopping
    <2>3. WorldTypes'
      BY DEF WorldTypes
    <2> QED
      BY <2>1, <2>2, <2>3
  <1>17. ASSUME NEW j \in Jobs, RecStop(j)
        PROVE  TypeOK'
    <2> USE <1>17 DEF RecStop, Stops, GoTo, Mishap
    <2>1. RecordTypes'
      BY DEF RecordTypes, Records, Terminal
    <2>2. JobTypes'
      BY DEF JobTypes, Probing, Stopping
    <2>3. WorldTypes'
      BY DEF WorldTypes
    <2> QED
      BY <2>1, <2>2, <2>3
  <1>18. ASSUME NEW j \in Jobs, Cancel(j)
        PROVE  TypeOK'
    <2> USE <1>18 DEF Cancel, Finish, GoTo, Mishap
    <2>1. RecordTypes'
      BY DEF RecordTypes, Records, Terminal
    <2>2. JobTypes'
      BY DEF JobTypes, Probing, Stopping
    <2>3. WorldTypes'
      BY DEF WorldTypes
    <2> QED
      BY <2>1, <2>2, <2>3
  <1>19. CASE OtherClaims
    <2> USE <1>19 DEF OtherClaims, MishapIf, Mishap
    <2>1. RecordTypes'
      BY DEF RecordTypes, Records, Terminal
    <2>2. JobTypes'
      BY DEF JobTypes, Probing, Stopping
    <2>3. WorldTypes'
      BY DEF WorldTypes
    <2> QED
      BY <2>1, <2>2, <2>3
  <1>20. CASE OtherCharges
    <2> USE <1>20 DEF OtherCharges
    <2>1. RecordTypes'
      BY DEF RecordTypes, Records, Terminal
    <2>2. JobTypes'
      BY DEF JobTypes, Probing, Stopping
    <2>3. WorldTypes'
      BY DEF WorldTypes
    <2> QED
      BY <2>1, <2>2, <2>3
  <1>21. CASE OtherEnds
    <2> USE <1>21 DEF OtherEnds, MishapIf, Mishap
    <2>1. RecordTypes'
      BY DEF RecordTypes, Records, Terminal
    <2>2. JobTypes'
      BY DEF JobTypes, Probing, Stopping
    <2>3. WorldTypes'
      BY DEF WorldTypes
    <2> QED
      BY <2>1, <2>2, <2>3
  <1>22. CASE CarBegins
    <2> USE <1>22 DEF CarBegins, Charging
    <2>1. RecordTypes'
      BY DEF RecordTypes, Records, Terminal
    <2>2. JobTypes'
      BY DEF JobTypes, Probing, Stopping
    <2>3. WorldTypes'
      BY DEF WorldTypes
    <2> QED
      BY <2>1, <2>2, <2>3
  <1>23. CASE Restart
    <2> USE <1>23 DEF Restart
    <2>1. RecordTypes'
      BY DEF RecordTypes, Records, Terminal
    <2>2. JobTypes'
      BY DEF JobTypes, Probing, Stopping
    <2>3. WorldTypes'
      BY DEF WorldTypes
    <2> QED
      BY <2>1, <2>2, <2>3
  <1>24. CASE UNCHANGED vars
    <2> USE <1>24 DEF vars
    <2>1. RecordTypes'
      BY DEF RecordTypes, Records, Terminal
    <2>2. JobTypes'
      BY DEF JobTypes, Probing, Stopping
    <2>3. WorldTypes'
      BY DEF WorldTypes
    <2> QED
      BY <2>1, <2>2, <2>3
  <1> QED
    BY <1>1, <1>2, <1>3, <1>4, <1>5, <1>6, <1>7, <1>8, <1>9, <1>10, <1>11,
       <1>12, <1>13, <1>14, <1>15, <1>16, <1>17, <1>18, <1>19, <1>20, <1>21,
       <1>22, <1>23, <1>24
       DEF Next, Task

-----------------------------------------------------------------------------
(* The invariant of an episode                                             *)

\* The record keeps another start from being requested: it is final, or the
\* charge it may have left behind is looked into first.
Sealed(r) == Owed(r) \/ r.phase \in Terminal

\* The awaits of a task that has not had the car start.
BeforeStart == {"ask", "spawn", "passive", "wake", "gate", "amps", "send",
                "refused", "unstarted"}

\* What the record says at each await. The final phase is set before the
\* stop; a request is made while the phase is not final; the start is
\* announced before it is sent, and marked as issued before it is confirmed.
RecordFacts ==
  \A j \in Jobs :
    /\ at[j] \in {"stop", "save"} => rec.phase \in Terminal
    /\ at[j] \in {"ask", "recover", "resolve", "recstop"}
         => rec.phase \notin Terminal
    /\ at[j] = "send" => rec.pending
    /\ at[j] \in {"confirm", "measure"} => rec.issued

\* A lease the probe has left behind belongs to an episode that is over; a
\* charge of the probe's is not under another owner's lease; recovery has
\* seen the loadpoint free.
LeaseFacts ==
  /\ lease \in Jobs =>
       at[lease] \in Probing \cup {"stop"} \/ rec.phase \in Terminal
  /\ lease = "other" => car # "probe"
  /\ \A j \in Jobs :
       at[j] = "resolve" => lease = None \/ "late_claim" \in mishaps

\* The car has been started once at most, and from then on both the record in
\* memory and the one on disk keep it from being started again.
StartFacts ==
  "lost_answer" \notin mishaps =>
    /\ \A j \in Jobs :
         /\ at[j] \in BeforeStart => started = 0
         /\ at[j] # "raised"
    /\ started # 0 => started = 1 /\ Sealed(rec) /\ Sealed(disk)

\* The mishaps after which a charge of the probe's may go unrecorded.
ChargeExcepts == {"slow_start", "lost_answer", "unproven"}

\* Until then a charge of the probe's is owed a look in memory and on disk,
\* so that neither a restart nor a save loses it.
ChargeFacts ==
  mishaps \cap ChargeExcepts = {} =>
    /\ ~coming
    /\ car = "probe" => started # 0 /\ Owed(rec) /\ Owed(disk)

\* What has gone wrong is not forgotten.
LEMMA MishapsStay ==
  ASSUME TypeOK, [Next]_vars
  PROVE  mishaps \subseteq mishaps'
  <1>1. ASSUME NEW j \in Jobs, Request(j)
       PROVE  mishaps \subseteq mishaps'
    BY <1>1 DEF Request, GoTo, world
  <1>2. ASSUME NEW j \in Jobs, Ask(j)
       PROVE  mishaps \subseteq mishaps'
    BY <1>2 DEF Ask, GoTo, world
  <1>3. ASSUME NEW j \in Jobs, Spawn(j)
       PROVE  mishaps \subseteq mishaps'
    BY <1>3 DEF Spawn, Persisted, GoTo, world
  <1>4. ASSUME NEW j \in Jobs, Passive(j)
       PROVE  mishaps \subseteq mishaps'
    BY <1>4 DEF Passive, Look, Finish, GoTo
  <1>5. ASSUME NEW j \in Jobs, Wake(j)
       PROVE  mishaps \subseteq mishaps'
    BY <1>5 DEF Wake, Persisted, Look, Finish, GoTo
  <1>6. ASSUME NEW j \in Jobs, Gate(j)
       PROVE  mishaps \subseteq mishaps'
    BY <1>6 DEF Gate, Finish, GoTo, CanClaim
  <1>7. ASSUME NEW j \in Jobs, Amps(j)
       PROVE  mishaps \subseteq mishaps'
    BY <1>7 DEF Amps, Persisted, Finish, GoTo, world
  <1>8. ASSUME NEW j \in Jobs, Send(j)
       PROVE  mishaps \subseteq mishaps'
    BY <1>8 DEF Send, Persisted, Starts, GoTo, Mishap
  <1>9. ASSUME NEW j \in Jobs, Answer(j)
       PROVE  mishaps \subseteq mishaps'
    BY <1>9 DEF Answer, Finish, GoTo, world
  <1>10. ASSUME NEW j \in Jobs, Unstarted(j)
        PROVE  mishaps \subseteq mishaps'
    BY <1>10 DEF Unstarted, Persisted, Finish, GoTo, world
  <1>11. ASSUME NEW j \in Jobs, Confirm(j)
        PROVE  mishaps \subseteq mishaps'
    BY <1>11 DEF Confirm, Persisted, Finish, GoTo, world
  <1>12. ASSUME NEW j \in Jobs, Measure(j)
        PROVE  mishaps \subseteq mishaps'
    BY <1>12 DEF Measure, Persisted, Finish, GoTo, Mishap
  <1>13. ASSUME NEW j \in Jobs, Stop(j)
        PROVE  mishaps \subseteq mishaps'
    BY <1>13 DEF Stop, Stops, GoTo, Mishap
  <1>14. ASSUME NEW j \in Jobs, Save(j)
        PROVE  mishaps \subseteq mishaps'
    BY <1>14 DEF Save, Persisted, GoTo, world
  <1>15. ASSUME NEW j \in Jobs, Recover(j)
        PROVE  mishaps \subseteq mishaps'
    BY <1>15 DEF Recover, GoTo, world
  <1>16. ASSUME NEW j \in Jobs, Resolve(j)
        PROVE  mishaps \subseteq mishaps'
    BY <1>16 DEF Resolve, GoTo, MishapIf, Mishap
  <1>17. ASSUME NEW j \in Jobs, RecStop(j)
        PROVE  mishaps \subseteq mishaps'
    BY <1>17 DEF RecStop, Stops, GoTo, Mishap
  <1>18. ASSUME NEW j \in Jobs, Cancel(j)
        PROVE  mishaps \subseteq mishaps'
    BY <1>18 DEF Cancel, Finish, GoTo, Mishap
  <1>19. CASE OtherClaims
    BY <1>19 DEF OtherClaims, MishapIf, Mishap
  <1>20. CASE OtherCharges
    BY <1>20 DEF OtherCharges
  <1>21. CASE OtherEnds
    BY <1>21 DEF OtherEnds, MishapIf, Mishap
  <1>22. CASE CarBegins
    BY <1>22 DEF CarBegins
  <1>23. CASE Restart
    BY <1>23 DEF Restart
  <1>24. CASE UNCHANGED vars
    BY <1>24 DEF vars
  <1> QED
    BY <1>1, <1>2, <1>3, <1>4, <1>5, <1>6, <1>7, <1>8, <1>9, <1>10, <1>11,
       <1>12, <1>13, <1>14, <1>15, <1>16, <1>17, <1>18, <1>19, <1>20, <1>21,
       <1>22, <1>23, <1>24
       DEF Next, Task

\* Each step keeps what the record says.
LEMMA RecordStep ==
  ASSUME NEW k, Jobs = {k}, TypeOK, RecordFacts, [Next]_vars
  PROVE  RecordFacts'
  <1> USE
     DEF TypeOK, RecordTypes, JobTypes, WorldTypes, Records, RecordFacts,
         Terminal, Probing
  <1>1. ASSUME NEW j \in Jobs, Request(j)
       PROVE  RecordFacts'
    BY <1>1 DEF Request, GoTo, world
  <1>2. ASSUME NEW j \in Jobs, Ask(j)
       PROVE  RecordFacts'
    BY <1>2 DEF Ask, GoTo, world, NewRec, NoRec
  <1>3. ASSUME NEW j \in Jobs, Spawn(j)
       PROVE  RecordFacts'
    BY <1>3 DEF Spawn, Persisted, GoTo, world
  <1>4. ASSUME NEW j \in Jobs, Passive(j)
       PROVE  RecordFacts'
    BY <1>4 DEF Passive, Look, Finish, GoTo
  <1>5. ASSUME NEW j \in Jobs, Wake(j)
       PROVE  RecordFacts'
    BY <1>5 DEF Wake, Persisted, Look, Finish, GoTo
  <1>6. ASSUME NEW j \in Jobs, Gate(j)
       PROVE  RecordFacts'
    BY <1>6 DEF Gate, Finish, GoTo, CanClaim
  <1>7. ASSUME NEW j \in Jobs, Amps(j)
       PROVE  RecordFacts'
    BY <1>7 DEF Amps, Persisted, Finish, GoTo, world
  <1>8. ASSUME NEW j \in Jobs, Send(j)
       PROVE  RecordFacts'
    BY <1>8 DEF Send, Persisted, Starts, GoTo, Mishap
  <1>9. ASSUME NEW j \in Jobs, Answer(j)
       PROVE  RecordFacts'
    <2>1. CASE Finish(j, "failed", FALSE) /\ at[j] = "raised"
      BY <2>1, <1>9, FinishedRecord DEF Answer, world
    <2>2. CASE at[j] # "raised"
      BY <2>2, <1>9 DEF Answer, GoTo, world
    <2> QED
      BY <2>1, <2>2, <1>9 DEF Answer
  <1>10. ASSUME NEW j \in Jobs, Unstarted(j)
        PROVE  RecordFacts'
    BY <1>10 DEF Unstarted, Persisted, Finish, GoTo, world
  <1>11. ASSUME NEW j \in Jobs, Confirm(j)
        PROVE  RecordFacts'
    <2>1. CASE Finish(j, "failed", FALSE)
      BY <2>1, <1>11, FinishedRecord DEF Confirm, Persisted, world
    <2>2. CASE car # "no"
      BY <2>2, <1>11 DEF Confirm, Persisted, GoTo, world
    <2> QED
      BY <2>1, <2>2, <1>11 DEF Confirm
  <1>12. ASSUME NEW j \in Jobs, Measure(j)
        PROVE  RecordFacts'
    <2>1. PICK phase \in {"fresh", "failed"} : Finish(j, phase, TRUE)
      BY <1>12 DEF Measure
    <2>2. /\ rec'.phase \in Terminal /\ rec'.pending = rec.pending
          /\ rec'.issued = rec.issued
      BY <2>1, FinishedRecord DEF Terminal
    <2>3. \E pc \in {"stop", "save"} : at' = [at EXCEPT ![j] = pc]
      BY <2>1, FinishedRecord DEF Terminal
    <2> QED
      BY <2>2, <2>3, <1>12 DEF Measure, Persisted, Mishap
  <1>13. ASSUME NEW j \in Jobs, Stop(j)
        PROVE  RecordFacts'
    BY <1>13 DEF Stop, Stops, GoTo, Mishap
  <1>14. ASSUME NEW j \in Jobs, Save(j)
        PROVE  RecordFacts'
    BY <1>14 DEF Save, Persisted, GoTo, world
  <1>15. ASSUME NEW j \in Jobs, Recover(j)
        PROVE  RecordFacts'
    BY <1>15 DEF Recover, GoTo, world
  <1>16. ASSUME NEW j \in Jobs, Resolve(j)
        PROVE  RecordFacts'
    BY <1>16 DEF Resolve, GoTo, MishapIf, Mishap
  <1>17. ASSUME NEW j \in Jobs, RecStop(j)
        PROVE  RecordFacts'
    BY <1>17 DEF RecStop, Stops, GoTo, Mishap
  <1>18. ASSUME NEW j \in Jobs, Cancel(j)
        PROVE  RecordFacts'
    <2>1. Finish(j, "cancelled", at[j] = "measure")
      BY <1>18 DEF Cancel
    <2>2. /\ rec'.phase \in Terminal /\ rec'.pending = rec.pending
          /\ rec'.issued = rec.issued
          /\ at[j] = "measure" \/ rec'.stop = rec.stop
      BY <2>1, FinishedRecord DEF Terminal
    <2>3. \E pc \in {"stop", "save"} : at' = [at EXCEPT ![j] = pc]
      BY <2>1, FinishedRecord DEF Terminal
    <2> QED
      BY <2>2, <2>3, <1>18 DEF Cancel, Mishap
  <1>19. CASE OtherClaims
    BY <1>19 DEF OtherClaims, MishapIf, Mishap
  <1>20. CASE OtherCharges
    BY <1>20 DEF OtherCharges
  <1>21. CASE OtherEnds
    BY <1>21 DEF OtherEnds, MishapIf, Mishap
  <1>22. CASE CarBegins
    BY <1>22 DEF CarBegins
  <1>23. CASE Restart
    BY <1>23 DEF Restart
  <1>24. CASE UNCHANGED vars
    BY <1>24 DEF vars
  <1> QED
    BY <1>1, <1>2, <1>3, <1>4, <1>5, <1>6, <1>7, <1>8, <1>9, <1>10, <1>11,
       <1>12, <1>13, <1>14, <1>15, <1>16, <1>17, <1>18, <1>19, <1>20, <1>21,
       <1>22, <1>23, <1>24
       DEF Next, Task

\* Each step keeps the lease and the charge in accord.
LEMMA LeaseStep ==
  ASSUME NEW k, Jobs = {k}, TypeOK, RecordFacts, LeaseFacts, [Next]_vars
  PROVE  LeaseFacts'
  <1> USE NoneIsNoJob
     DEF EligibleThroughout, TypeOK, RecordTypes, JobTypes, WorldTypes,
         Records, RecordFacts, LeaseFacts, Terminal, Probing, Stopping
  <1>1. ASSUME NEW j \in Jobs, Request(j)
       PROVE  LeaseFacts'
    BY MishapsStay, <1>1 DEF Request, GoTo, world
  <1>2. ASSUME NEW j \in Jobs, Ask(j)
       PROVE  LeaseFacts'
    BY MishapsStay, <1>2 DEF Ask, GoTo, world, NewRec, NoRec, Eligible
  <1>3. ASSUME NEW j \in Jobs, Spawn(j)
       PROVE  LeaseFacts'
    BY MishapsStay, <1>3 DEF Spawn, Persisted, GoTo, world
  <1>4. ASSUME NEW j \in Jobs, Passive(j)
       PROVE  LeaseFacts'
    BY MishapsStay, <1>4 DEF Passive, Look, Finish, GoTo
  <1>5. ASSUME NEW j \in Jobs, Wake(j)
       PROVE  LeaseFacts'
    BY MishapsStay, <1>5 DEF Wake, Persisted, Look, Finish, GoTo
  <1>6. ASSUME NEW j \in Jobs, Gate(j)
       PROVE  LeaseFacts'
    BY MishapsStay, <1>6 DEF Gate, Finish, GoTo, CanClaim
  <1>7. ASSUME NEW j \in Jobs, Amps(j)
       PROVE  LeaseFacts'
    BY MishapsStay, <1>7 DEF Amps, Persisted, Finish, GoTo, world
  <1>8. ASSUME NEW j \in Jobs, Send(j)
       PROVE  LeaseFacts'
    BY MishapsStay, <1>8 DEF Send, Persisted, Starts, GoTo, Mishap, Charging
  <1>9. ASSUME NEW j \in Jobs, Answer(j)
       PROVE  LeaseFacts'
    BY MishapsStay, <1>9 DEF Answer, Finish, GoTo, world
  <1>10. ASSUME NEW j \in Jobs, Unstarted(j)
        PROVE  LeaseFacts'
    BY MishapsStay, <1>10 DEF Unstarted, Persisted, Finish, GoTo, world
  <1>11. ASSUME NEW j \in Jobs, Confirm(j)
        PROVE  LeaseFacts'
    BY MishapsStay, <1>11 DEF Confirm, Persisted, Finish, GoTo, world
  <1>12. ASSUME NEW j \in Jobs, Measure(j)
        PROVE  LeaseFacts'
    BY MishapsStay, <1>12 DEF Measure, Persisted, Finish, GoTo, Mishap
  <1>13. ASSUME NEW j \in Jobs, Stop(j)
        PROVE  LeaseFacts'
    BY MishapsStay, <1>13 DEF Stop, Stops, GoTo, Mishap
  <1>14. ASSUME NEW j \in Jobs, Save(j)
        PROVE  LeaseFacts'
    BY MishapsStay, <1>14 DEF Save, Persisted, GoTo, world
  <1>15. ASSUME NEW j \in Jobs, Recover(j)
        PROVE  LeaseFacts'
    BY MishapsStay, <1>15 DEF Recover, GoTo, world
  <1>16. ASSUME NEW j \in Jobs, Resolve(j)
        PROVE  LeaseFacts'
    BY MishapsStay, <1>16 DEF Resolve, GoTo, MishapIf, Mishap
  <1>17. ASSUME NEW j \in Jobs, RecStop(j)
        PROVE  LeaseFacts'
    BY MishapsStay, <1>17 DEF RecStop, Stops, GoTo, Mishap
  <1>18. ASSUME NEW j \in Jobs, Cancel(j)
        PROVE  LeaseFacts'
    BY MishapsStay, <1>18 DEF Cancel, Finish, GoTo, Mishap
  <1>19. CASE OtherClaims
    BY MishapsStay, <1>19 DEF OtherClaims, MishapIf, Mishap
  <1>20. CASE OtherCharges
    BY MishapsStay, <1>20 DEF OtherCharges
  <1>21. CASE OtherEnds
    BY MishapsStay, <1>21 DEF OtherEnds, MishapIf, Mishap
  <1>22. CASE CarBegins
    BY MishapsStay, <1>22 DEF CarBegins, Charging
  <1>23. CASE Restart
    BY MishapsStay, <1>23 DEF Restart
  <1>24. CASE UNCHANGED vars
    BY MishapsStay, <1>24 DEF vars
  <1> QED
    BY <1>1, <1>2, <1>3, <1>4, <1>5, <1>6, <1>7, <1>8, <1>9, <1>10, <1>11,
       <1>12, <1>13, <1>14, <1>15, <1>16, <1>17, <1>18, <1>19, <1>20, <1>21,
       <1>22, <1>23, <1>24
       DEF Next, Task

\* A start is sent only by a task that began before there was one, and the
\* record that announces it is saved by then.
LEMMA StartStep ==
  ASSUME NEW k, Jobs = {k}, TypeOK, RecordFacts, StartFacts, [Next]_vars
  PROVE  StartFacts'
  <1> USE
     DEF TypeOK, RecordTypes, JobTypes, WorldTypes, Records, RecordFacts,
         StartFacts, BeforeStart, Sealed, Owed, Terminal, Probing
  <1>1. ASSUME NEW j \in Jobs, Request(j)
       PROVE  StartFacts'
    BY MishapsStay, <1>1 DEF Request, GoTo, world
  <1>2. ASSUME NEW j \in Jobs, Ask(j)
       PROVE  StartFacts'
    BY MishapsStay, <1>2 DEF Ask, GoTo, world, NewRec, NoRec
  <1>3. ASSUME NEW j \in Jobs, Spawn(j)
       PROVE  StartFacts'
    BY MishapsStay, <1>3 DEF Spawn, Persisted, GoTo, world
  <1>4. ASSUME NEW j \in Jobs, Passive(j)
       PROVE  StartFacts'
    BY MishapsStay, <1>4 DEF Passive, Look, Finish, GoTo
  <1>5. ASSUME NEW j \in Jobs, Wake(j)
       PROVE  StartFacts'
    BY MishapsStay, <1>5 DEF Wake, Persisted, Look, Finish, GoTo
  <1>6. ASSUME NEW j \in Jobs, Gate(j)
       PROVE  StartFacts'
    BY MishapsStay, <1>6 DEF Gate, Finish, GoTo, CanClaim
  <1>7. ASSUME NEW j \in Jobs, Amps(j)
       PROVE  StartFacts'
    BY MishapsStay, <1>7 DEF Amps, Persisted, Finish, GoTo, world
  <1>8. ASSUME NEW j \in Jobs, Send(j)
       PROVE  StartFacts'
    BY MishapsStay, <1>8 DEF Send, Persisted, Starts, GoTo, Mishap
  <1>9. ASSUME NEW j \in Jobs, Answer(j)
       PROVE  StartFacts'
    BY MishapsStay, <1>9 DEF Answer, Finish, GoTo, world
  <1>10. ASSUME NEW j \in Jobs, Unstarted(j)
        PROVE  StartFacts'
    BY MishapsStay, <1>10 DEF Unstarted, Persisted, Finish, GoTo, world
  <1>11. ASSUME NEW j \in Jobs, Confirm(j)
        PROVE  StartFacts'
    BY MishapsStay, <1>11 DEF Confirm, Persisted, Finish, GoTo, world
  <1>12. ASSUME NEW j \in Jobs, Measure(j)
        PROVE  StartFacts'
    BY MishapsStay, <1>12 DEF Measure, Persisted, Finish, GoTo, Mishap
  <1>13. ASSUME NEW j \in Jobs, Stop(j)
        PROVE  StartFacts'
    BY MishapsStay, <1>13 DEF Stop, Stops, GoTo, Mishap
  <1>14. ASSUME NEW j \in Jobs, Save(j)
        PROVE  StartFacts'
    BY MishapsStay, <1>14 DEF Save, Persisted, GoTo, world
  <1>15. ASSUME NEW j \in Jobs, Recover(j)
        PROVE  StartFacts'
    BY MishapsStay, <1>15 DEF Recover, GoTo, world
  <1>16. ASSUME NEW j \in Jobs, Resolve(j)
        PROVE  StartFacts'
    BY MishapsStay, <1>16 DEF Resolve, GoTo, MishapIf, Mishap
  <1>17. ASSUME NEW j \in Jobs, RecStop(j)
        PROVE  StartFacts'
    BY MishapsStay, <1>17 DEF RecStop, Stops, GoTo, Mishap
  <1>18. ASSUME NEW j \in Jobs, Cancel(j)
        PROVE  StartFacts'
    BY MishapsStay, <1>18 DEF Cancel, Finish, GoTo, Mishap
  <1>19. CASE OtherClaims
    BY MishapsStay, <1>19 DEF OtherClaims, MishapIf, Mishap
  <1>20. CASE OtherCharges
    BY MishapsStay, <1>20 DEF OtherCharges
  <1>21. CASE OtherEnds
    BY MishapsStay, <1>21 DEF OtherEnds, MishapIf, Mishap
  <1>22. CASE CarBegins
    BY MishapsStay, <1>22 DEF CarBegins
  <1>23. CASE Restart
    BY MishapsStay, <1>23 DEF Restart
  <1>24. CASE UNCHANGED vars
    BY MishapsStay, <1>24 DEF vars
  <1> QED
    BY <1>1, <1>2, <1>3, <1>4, <1>5, <1>6, <1>7, <1>8, <1>9, <1>10, <1>11,
       <1>12, <1>13, <1>14, <1>15, <1>16, <1>17, <1>18, <1>19, <1>20, <1>21,
       <1>22, <1>23, <1>24
       DEF Next, Task

\* A charge of the probe's is announced on disk before it begins, and the
\* marks are dropped only when it is over or another owner's.
LEMMA ChargeStep ==
  ASSUME NEW k, Jobs = {k}, TypeOK, RecordFacts, LeaseFacts, StartFacts,
         ChargeFacts, [Next]_vars
  PROVE  ChargeFacts'
  <1> USE NoneIsNoJob
     DEF TypeOK, RecordTypes, JobTypes, WorldTypes, Records, RecordFacts,
         LeaseFacts, StartFacts, BeforeStart, ChargeFacts, ChargeExcepts,
         Owed, Terminal, Probing
  <1>1. ASSUME NEW j \in Jobs, Request(j)
       PROVE  ChargeFacts'
    BY MishapsStay, <1>1 DEF Request, GoTo, world
  <1>2. ASSUME NEW j \in Jobs, Ask(j)
       PROVE  ChargeFacts'
    BY MishapsStay, <1>2 DEF Ask, GoTo, world, NewRec, NoRec, Eligible
  <1>3. ASSUME NEW j \in Jobs, Spawn(j)
       PROVE  ChargeFacts'
    BY MishapsStay, <1>3 DEF Spawn, Persisted, GoTo, world
  <1>4. ASSUME NEW j \in Jobs, Passive(j)
       PROVE  ChargeFacts'
    BY MishapsStay, <1>4 DEF Passive, Look, Finish, GoTo
  <1>5. ASSUME NEW j \in Jobs, Wake(j)
       PROVE  ChargeFacts'
    BY MishapsStay, <1>5 DEF Wake, Persisted, Look, Finish, GoTo
  <1>6. ASSUME NEW j \in Jobs, Gate(j)
       PROVE  ChargeFacts'
    BY MishapsStay, <1>6 DEF Gate, Finish, GoTo, CanClaim
  <1>7. ASSUME NEW j \in Jobs, Amps(j)
       PROVE  ChargeFacts'
    BY MishapsStay, <1>7 DEF Amps, Persisted, Finish, GoTo, world
  <1>8. ASSUME NEW j \in Jobs, Send(j)
       PROVE  ChargeFacts'
    BY MishapsStay, <1>8 DEF Send, Persisted, Starts, GoTo, Mishap, Charging
  <1>9. ASSUME NEW j \in Jobs, Answer(j)
       PROVE  ChargeFacts'
    BY MishapsStay, <1>9 DEF Answer, Finish, GoTo, world
  <1>10. ASSUME NEW j \in Jobs, Unstarted(j)
        PROVE  ChargeFacts'
    BY MishapsStay, <1>10 DEF Unstarted, Persisted, Finish, GoTo, world
  <1>11. ASSUME NEW j \in Jobs, Confirm(j)
        PROVE  ChargeFacts'
    BY MishapsStay, <1>11 DEF Confirm, Persisted, Finish, GoTo, world
  <1>12. ASSUME NEW j \in Jobs, Measure(j)
        PROVE  ChargeFacts'
    BY MishapsStay, <1>12 DEF Measure, Persisted, Finish, GoTo, Mishap
  <1>13. ASSUME NEW j \in Jobs, Stop(j)
        PROVE  ChargeFacts'
    BY MishapsStay, <1>13 DEF Stop, Stops, GoTo, Mishap
  <1>14. ASSUME NEW j \in Jobs, Save(j)
        PROVE  ChargeFacts'
    BY MishapsStay, <1>14 DEF Save, Persisted, GoTo, world
  <1>15. ASSUME NEW j \in Jobs, Recover(j)
        PROVE  ChargeFacts'
    BY MishapsStay, <1>15 DEF Recover, GoTo, world
  <1>16. ASSUME NEW j \in Jobs, Resolve(j)
        PROVE  ChargeFacts'
    BY MishapsStay, <1>16 DEF Resolve, GoTo, MishapIf, Mishap
  <1>17. ASSUME NEW j \in Jobs, RecStop(j)
        PROVE  ChargeFacts'
    BY MishapsStay, <1>17 DEF RecStop, Stops, GoTo, Mishap
  <1>18. ASSUME NEW j \in Jobs, Cancel(j)
        PROVE  ChargeFacts'
    <2>1. Finish(j, "cancelled", at[j] = "measure")
      BY <1>18 DEF Cancel
    <2>2. /\ rec'.phase \in Terminal /\ rec'.pending = rec.pending
          /\ rec'.issued = rec.issued
          /\ at[j] = "measure" \/ rec'.stop = rec.stop
      BY <2>1, FinishedRecord DEF Terminal
    <2>3. \E pc \in {"stop", "save"} : at' = [at EXCEPT ![j] = pc]
      BY <2>1, FinishedRecord DEF Terminal
    <2> QED
      BY MishapsStay, <2>2, <2>3, <1>18 DEF Cancel, Mishap
  <1>19. CASE OtherClaims
    BY MishapsStay, <1>19 DEF OtherClaims, MishapIf, Mishap
  <1>20. CASE OtherCharges
    BY MishapsStay, <1>20 DEF OtherCharges
  <1>21. CASE OtherEnds
    BY MishapsStay, <1>21 DEF OtherEnds, MishapIf, Mishap
  <1>22. CASE CarBegins
    BY MishapsStay, <1>22 DEF CarBegins, Charging
  <1>23. CASE Restart
    BY MishapsStay, <1>23 DEF Restart
  <1>24. CASE UNCHANGED vars
    BY MishapsStay, <1>24 DEF vars
  <1> QED
    BY <1>1, <1>2, <1>3, <1>4, <1>5, <1>6, <1>7, <1>8, <1>9, <1>10, <1>11,
       <1>12, <1>13, <1>14, <1>15, <1>16, <1>17, <1>18, <1>19, <1>20, <1>21,
       <1>22, <1>23, <1>24
       DEF Next, Task

\* What SparesOthers says of a step.
SparesStepOf ==
  /\ lease = "other" => lease' \notin Jobs
  /\ \A j \in Jobs :
       (at[j] # at'[j] /\ at'[j] \in {"stop", "recstop"})
         => lease \in {j, None} \/ "late_claim" \in mishaps

\* The lease is looked at in the segment that takes it and in the one that
\* decides to stop the car; only recovery looks before an await.
LEMMA SparesStep ==
  ASSUME NEW k, Jobs = {k}, TypeOK, LeaseFacts, [Next]_vars
  PROVE  SparesStepOf
  <1> USE NoneIsNoJob DEF TypeOK, JobTypes, LeaseFacts, SparesStepOf, Probing
  <1>1. ASSUME NEW j \in Jobs, Request(j)
       PROVE  SparesStepOf
    BY <1>1 DEF Request, GoTo, world
  <1>2. ASSUME NEW j \in Jobs, Ask(j)
       PROVE  SparesStepOf
    BY <1>2 DEF Ask, GoTo, world
  <1>3. ASSUME NEW j \in Jobs, Spawn(j)
       PROVE  SparesStepOf
    BY <1>3 DEF Spawn, Persisted, GoTo, world
  <1>4. ASSUME NEW j \in Jobs, Passive(j)
       PROVE  SparesStepOf
    BY <1>4 DEF Passive, Look, Finish, GoTo
  <1>5. ASSUME NEW j \in Jobs, Wake(j)
       PROVE  SparesStepOf
    BY <1>5 DEF Wake, Persisted, Look, Finish, GoTo
  <1>6. ASSUME NEW j \in Jobs, Gate(j)
       PROVE  SparesStepOf
    BY <1>6 DEF Gate, Finish, GoTo, CanClaim
  <1>7. ASSUME NEW j \in Jobs, Amps(j)
       PROVE  SparesStepOf
    BY <1>7 DEF Amps, Persisted, Finish, GoTo, world
  <1>8. ASSUME NEW j \in Jobs, Send(j)
       PROVE  SparesStepOf
    BY <1>8 DEF Send, Persisted, Starts, GoTo, Mishap
  <1>9. ASSUME NEW j \in Jobs, Answer(j)
       PROVE  SparesStepOf
    BY <1>9 DEF Answer, Finish, GoTo, world
  <1>10. ASSUME NEW j \in Jobs, Unstarted(j)
        PROVE  SparesStepOf
    BY <1>10 DEF Unstarted, Persisted, Finish, GoTo, world
  <1>11. ASSUME NEW j \in Jobs, Confirm(j)
        PROVE  SparesStepOf
    BY <1>11 DEF Confirm, Persisted, Finish, GoTo, world
  <1>12. ASSUME NEW j \in Jobs, Measure(j)
        PROVE  SparesStepOf
    BY <1>12 DEF Measure, Persisted, Finish, GoTo, Mishap
  <1>13. ASSUME NEW j \in Jobs, Stop(j)
        PROVE  SparesStepOf
    BY <1>13 DEF Stop, Stops, GoTo, Mishap
  <1>14. ASSUME NEW j \in Jobs, Save(j)
        PROVE  SparesStepOf
    BY <1>14 DEF Save, Persisted, GoTo, world
  <1>15. ASSUME NEW j \in Jobs, Recover(j)
        PROVE  SparesStepOf
    BY <1>15 DEF Recover, GoTo, world
  <1>16. ASSUME NEW j \in Jobs, Resolve(j)
        PROVE  SparesStepOf
    BY <1>16 DEF Resolve, GoTo, MishapIf, Mishap
  <1>17. ASSUME NEW j \in Jobs, RecStop(j)
        PROVE  SparesStepOf
    BY <1>17 DEF RecStop, Stops, GoTo, Mishap
  <1>18. ASSUME NEW j \in Jobs, Cancel(j)
        PROVE  SparesStepOf
    BY <1>18 DEF Cancel, Finish, GoTo, Mishap
  <1>19. CASE OtherClaims
    BY <1>19 DEF OtherClaims, MishapIf, Mishap
  <1>20. CASE OtherCharges
    BY <1>20 DEF OtherCharges
  <1>21. CASE OtherEnds
    BY <1>21 DEF OtherEnds, MishapIf, Mishap
  <1>22. CASE CarBegins
    BY <1>22 DEF CarBegins
  <1>23. CASE Restart
    BY <1>23 DEF Restart
  <1>24. CASE UNCHANGED vars
    BY <1>24 DEF vars
  <1> QED
    BY <1>1, <1>2, <1>3, <1>4, <1>5, <1>6, <1>7, <1>8, <1>9, <1>10, <1>11,
       <1>12, <1>13, <1>14, <1>15, <1>16, <1>17, <1>18, <1>19, <1>20, <1>21,
       <1>22, <1>23, <1>24
       DEF Next, Task

-----------------------------------------------------------------------------
(* The theorems                                                            *)

\* The state keeps its declared shape, for any number of jobs.
THEOREM TypeCorrect == Spec => []TypeOK
  <1>1. Init => TypeOK
    <2> SUFFICES ASSUME Init
                 PROVE  TypeOK
      OBVIOUS
    <2>1. RecordTypes
      BY DEF Init, NoRec, RecordTypes, Records
    <2>2. JobTypes
      BY DEF Init, JobTypes
    <2>3. WorldTypes
      <3>1. 0 \in 0..MaxClaims /\ 0 \in 0..MaxRestarts /\ 0 \in Nat
        BY BoundsAreNaturals
      <3> QED
        BY <3>1, Zenon DEF Init, WorldTypes
    <2> QED
      BY <2>1, <2>2, <2>3 DEF TypeOK
  <1> QED
    BY <1>1, TypeStep, PTL DEF Spec

\* The inductive invariant of the episode.
ProbeFacts == RecordFacts /\ LeaseFacts /\ StartFacts /\ ChargeFacts

\* With one round at a time the episode's invariant always holds.
LEMMA ProbeInvariant ==
  ASSUME NEW k, Jobs = {k}
  PROVE  Spec => []ProbeFacts
  <1>1. Init => ProbeFacts
    BY NoneIsNoJob DEF Init, ProbeFacts, RecordFacts, LeaseFacts, StartFacts,
       ChargeFacts, BeforeStart
  <1>2. ASSUME TypeOK, ProbeFacts, [Next]_vars
        PROVE  ProbeFacts'
    BY <1>2, RecordStep, LeaseStep, StartStep, ChargeStep DEF ProbeFacts
  <1> QED
    BY <1>1, <1>2, TypeCorrect, PTL DEF Spec

\* However often the task is cancelled, Home Assistant restarts and others
\* claim the loadpoint, an episode has at most one start command that the car
\* takes, as long as no answer is lost.
THEOREM AtMostOneStart == (\E k : Jobs = {k}) => (Spec => []OneStart)
  <1> SUFFICES ASSUME NEW k, Jobs = {k}
               PROVE  Spec => []OneStart
    OBVIOUS
  <1>1. ProbeFacts => OneStart
    BY DEF ProbeFacts, StartFacts, OneStart
  <1> QED
    BY <1>1, ProbeInvariant, PTL

\* A charge the probe began is on disk at every moment until it is stopped or
\* becomes another owner's, also across restarts.
THEOREM ProbeChargeOnDisk ==
  (\E k : Jobs = {k}) => (Spec => []ChargeIsRecorded)
  <1> SUFFICES ASSUME NEW k, Jobs = {k}
               PROVE  Spec => []ChargeIsRecorded
    OBVIOUS
  <1>1. ProbeFacts => ChargeIsRecorded
    BY DEF ProbeFacts, ChargeFacts, ChargeExcepts, ChargeIsRecorded
  <1> QED
    BY <1>1, ProbeInvariant, PTL

\* The probe never takes the loadpoint from another owner and decides to stop
\* the car only while no other owner has it, but for a claim during the
\* recovery's await.
THEOREM OthersAreSpared == (\E k : Jobs = {k}) => (Spec => SparesOthers)
  <1> SUFFICES ASSUME NEW k, Jobs = {k}
               PROVE  Spec => SparesOthers
    OBVIOUS
  <1>1. ASSUME TypeOK, ProbeFacts, [Next]_vars
        PROVE  [/\ lease = "other" => lease' \notin Jobs
                /\ \A j \in Jobs :
                     (at[j] # at'[j] /\ at'[j] \in {"stop", "recstop"})
                       => lease \in {j, None} \/ "late_claim" \in mishaps]_vars
    BY <1>1, SparesStep DEF ProbeFacts, SparesStepOf
  <1> QED
    BY <1>1, ProbeInvariant, TypeCorrect, PTL DEF Spec, SparesOthers

=============================================================================
