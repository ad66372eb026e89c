------------------------ MODULE TeslaForceRestProofs ------------------------
(***************************************************************************)
(* What TeslaForce's gateway, disk and reserve are when no handler is in   *)
(* flight, for every number of commands, retries, failures and restarts.   *)
(* These invariants look at few of the variables; the steps are sorted     *)
(* first by what they change of those.                                     *)
(***************************************************************************)
EXTENDS TeslaForceProofs

-----------------------------------------------------------------------------
(* The steps, by what they change                                          *)

\* A request changes the setting it writes.
Touches(s) ==
  /\ own' = own /\ mishaps \subseteq mishaps'
  /\ \/ hw'.grid = hw.grid
     \/ op[s].at = "grid" /\ hw'.grid = op[s].goal.grid
  /\ \/ hw'.tariff = hw.tariff
     \/ op[s].at = "tariff" /\ hw'.tariff = IF Restoring(s) THEN "own" ELSE op[s].kind
  /\ \/ hw'.reserve = hw.reserve \/ op[s].at = "pulsing"
     \/ op[s].at = "reserve" /\ (op[s].res \/ "overwritten" \in mishaps')

\* A force command that has written its grid charging, or sets off to write more.
GridForced(o) == \/ o.at \in {"reserve", "tariff", "pulse", "pulsing"}
                 \/ o.kind = "discharge" /\ o.at = "mode"

\* The sessions' flags stay.
SameFlags == \A k \in Kinds : sess'[k].active = sess[k].active /\ sess'[k].skip = sess[k].skip

ForceGoes(s) ==
  /\ Forcing(s) /\ Forcing(s)' /\ Only(s) /\ Sames(op'[s], op[s]) /\ Touches(s) /\ SameFlags
  /\ timers' = timers /\ disk' = disk /\ kept' = kept /\ (cached => cached')
  /\ op[s].at = "baseline" /\ hw.tariff = "own" => cached' \/ "unread" \in mishaps'
  /\ GridForced(op'[s]) => \/ GridForced(op[s]) /\ op[s].at # "grid"
                           \/ hw'.grid = ForceGoal(op[s].kind).grid
  /\ op'[s].at \in {"pulse", "pulsing"} => \/ op[s].at = "pulse"
                                           \/ hw'.tariff = op[s].kind
  /\ op'[s].at = "pulsing" => ~Locked /\ op[s].cur /\ op[s].res
  /\ op[s].at # "pulsing" /\ (op'[s].at \in {"baseline", "rule"} => op[s].at = "baseline")

\* A superseded force command ends.
ForceEnds(s) ==
  /\ Forcing(s) /\ ~op[s].cur /\ Only(s) /\ op'[s] = Free /\ Touches(s) /\ SameFlags
  /\ disk' = disk /\ kept' = kept

\* One whose settings could not be asked for drops its session.
Lapses(s) ==
  /\ Fresh(s) /\ Only(s) /\ op'[s] = Free /\ UNCHANGED <<hw, own, disk, cached, kept, mishaps>>
  /\ \A k \in Kinds : /\ sess'[k].skip = sess[k].skip
                      /\ sess'[k].active <=> sess[k].active /\ k # op[s].kind

\* One that fails writes its session down and restores.
Cleans(s, keep) ==
  /\ Forcing(s) /\ op[s].at # "baseline" /\ Newest(s) /\ Touches(s) /\ cached' = cached
  /\ Never({"overlap"})' => Supersedes(s)
  /\ sess' = Failing(s, keep) /\ disk' = Recorded(Failing(s, keep)) /\ timers' = {}
  /\ kept' = keep /\ Started(s, "user", 0, op[s].after, keep, Failing(s, keep))
  /\ keep => op[s].cur /\ ~op[s].res /\ (op[s].at = "pulsing" \/ ~Locked)

\* One that succeeds writes its session down, which runs.
Runs(s) ==
  /\ Forcing(s) /\ op[s].cur /\ op[s].res /\ op[s].at = "pulsing" /\ Only(s) /\ op'[s] = Free
  /\ Touches(s) /\ sess' = Succeeding(s) /\ disk' = Recorded(Succeeding(s)) /\ kept' = kept
  /\ cached' = cached

\* A restore goes on.
RestoreGoes(s) ==
  /\ Restoring(s) /\ GoesOn(s) /\ Touches(s) /\ cached' = cached
  /\ op[s].at = "pulsing" => op'[s].at = "note"
  /\ op'[s].at \in {"mode", "rule", "grid", "pulse", "pulsing"} /\ ~op'[s].failed
       => \/ op[s].at \in {"mode", "rule", "grid", "pulse"} /\ ~op[s].failed
          \/ hw'.tariff = "own" \/ ~cached
  /\ op'[s].at = "pulse" => ~op[s].skip
  /\ op'[s].at = "pulsing" => op[s].at = "pulse" /\ ~Locked /\ op[s].cur /\ op[s].res
  /\ op'[s].goal.reserve \in {"none", op[s].goal.reserve, Setting(sess, "reserve")}

\* It ends: superseded, without an answer, or when all is restored.
RestoreEnds(s) ==
  /\ Restoring(s) /\ Ends(s) /\ Touches(s) /\ cached' = cached
  /\ ~op[s].cur \/ "raised" \in mishaps'
RestoreEnded(s) ==
  /\ Restoring(s) /\ op[s].cur /\ Ended(s) /\ Touches(s) /\ cached' = cached
  /\ ~op[s].failed /\ op[s].at \in {"mode", "rule", "grid", "pulse", "pulsing"}

\* It is written down as failed.
Notes(s) ==
  /\ Restoring(s) /\ Only(s) /\ op'[s] = Free /\ mishaps \subseteq mishaps'
  /\ UNCHANGED <<hw, own, sess, cached, kept>> /\ disk'.pending # "none"
  /\ \/ disk'.rec.kind = "none" \/ disk'.rec = disk.rec \/ disk'.rec = Record(sess)
  /\ \/ \E t \in timers' : t[2] # 0
     \/ ~Retries(op[s])
        /\ timers' = IF op[s].after \in Kinds THEN timers \cup {<<op[s].after, 0>>} ELSE timers

\* A force command or a restore begins where none is.
Apart(s) ==
  /\ ~Forcing(s) /\ ~Restoring(s) /\ Newest(s) /\ (Never({"overlap"})' => Supersedes(s))
  /\ UNCHANGED <<hw, own, disk, cached>> /\ timers' = {} /\ mishaps \subseteq mishaps'
  /\ op'[s].after # "" => ~Never({"restarted", "crash"})

Begins(s, k) ==
  /\ Apart(s) /\ kept' = FALSE
  /\ op'[s].kind = k /\ op'[s].cur /\ op'[s].res /\ op'[s].at = First(k)
  /\ ~sess'[Other(k)].active

Starts(s) ==
  /\ Apart(s) /\ kept' = kept /\ sess' = sess /\ op[s].kind # "reserve"
  /\ \/ op'[s] = Free
     \/ /\ op'[s].kind = "restore" /\ op'[s].cur /\ op'[s].res /\ op'[s].goal.reserve = "none"
        /\ op'[s].after \notin Kinds /\ ~NothingToRestore(sess)
        /\ (\E k \in Kinds : sess[k].skip) => op'[s].skip
        /\ op'[s].at \in {"handoff", "tariff"} \/ (op'[s].at = "mode" /\ ~cached)
  /\ \/ Active(sess) # {} \/ "idle" \in mishaps'
     \/ (\A t \in Slots \ {s} : op[t].kind = "free") /\ sess = Reloaded /\ disk.rec.kind = "none"

\* No force command and no restore moves.
Alone(t) == /\ op'[t].kind = op[t].kind /\ op'[t].at = op[t].at /\ op'[t].cur = op[t].cur
            /\ op'[t].goal = op[t].goal /\ op'[t].was = op[t].was
            /\ op'[t].failed = op[t].failed /\ op'[t].skip = op[t].skip
            /\ op'[t].after = op[t].after /\ op'[t].retry = op[t].retry

ReserveComes == \E s \in Slots : op[s].kind = "reserve"

Bystands ==
  /\ hw'.grid = hw.grid /\ hw'.tariff = hw.tariff /\ mishaps \subseteq mishaps'
  /\ UNCHANGED <<sess, timers, disk, cached, kept>>
  /\ \A t \in Slots : /\ Alone(t) \/ ~(Forcing(t) \/ Restoring(t) \/ op'[t].cur
                                        \/ op'[t].at = "pulsing" \/ op'[t].after # "")
                      /\ (Forcing(t) \/ Restoring(t))' => Forcing(t) \/ Restoring(t)
                      /\ op'[t].res => op[t].res
  /\ \/ \A t \in Slots : ~op'[t].res
     \/ \A t \in Slots : op[t].cur => op'[t].res = op[t].res
  /\ (\E t \in Slots : op'[t].cur /\ ~op'[t].res)
       => ReserveComes' \/ \E t \in Slots : op[t].cur /\ ~op[t].res
  /\ \/ hw'.reserve = hw.reserve /\ own'.reserve = own.reserve
     \/ hw'.reserve = "new" /\ own'.reserve = "new" /\ ~Locked
  /\ ReserveComes => \/ ReserveComes' \/ "reserve_refused" \in mishaps'
                     \/ hw'.reserve = "new" /\ own'.reserve = "new" /\ ~Locked

-----------------------------------------------------------------------------
(* Every step is one of these                                              *)

LEMMA HandlerOf ==
  ASSUME Types, NEW s \in Slots
  PROVE  op[s] \in Handlers /\ Placed(op[s]) /\ op[s].cur \in BOOLEAN /\ op[s].res \in BOOLEAN
  BY DEF Types, HandlerTypes, Handlers

\* What a request that has landed, or may have, leaves.
LEMMA AnswerLands ==
  ASSUME Types, NEW s \in Slots, NEW a, Answer(s, a)
  PROVE  /\ \/ hw'.grid = hw.grid
            \/ op[s].at = "grid" /\ hw'.grid = op[s].goal.grid
         /\ \/ hw'.tariff = hw.tariff
            \/ op[s].at = "tariff" /\ hw'.tariff = IF Restoring(s) THEN "own" ELSE op[s].kind
         /\ hw'.reserve = hw.reserve \/ op[s].at \in {"pulsing", "reserve"}
         /\ a = "refused" => hw'.reserve = hw.reserve \/ op[s].at = "pulsing"
         /\ a # "refused" /\ op[s].at = "grid" => hw'.grid = op[s].goal.grid
         /\ a # "refused" /\ op[s].at = "tariff"
              => hw'.tariff = IF Restoring(s) THEN "own" ELSE op[s].kind
  <1> DEFINE at == op[s].at
  <1> DEFINE g == op[s].goal
  <1> DEFINE v == IF op[s].kind = "restore" THEN "own" ELSE op[s].kind
  <1>1. hw \in Gateway
    BY DEF Types, GatewayTypes
  <1>2. \/ a # "refused" /\ hw' = Landed(op[s])
        \/ a = "refused" /\ (hw' = hw \/ (at = "pulsing" /\ hw' = [hw EXCEPT !.reserve = "nudge"]))
    BY DEF Answer, Missed
  <1>3. Landed(op[s]) =
          IF at = "handoff" THEN [hw EXCEPT !.mode = "self"]
          ELSE IF at = "mode" THEN [hw EXCEPT !.mode = g.mode]
          ELSE IF at = "grid" THEN [hw EXCEPT !.grid = g.grid]
          ELSE IF at = "rule" THEN [hw EXCEPT !.rule = g.rule]
          ELSE IF at \in {"reserve", "pulsing"} THEN [hw EXCEPT !.reserve = g.reserve]
          ELSE IF at = "tariff" THEN [hw EXCEPT !.tariff = v]
          ELSE hw
    BY DEF Landed
  <1>4. v = IF Restoring(s) THEN "own" ELSE op[s].kind
    BY DEF Restoring
  <1> HIDE DEF at, g, v
  <1>5. CASE a = "refused"
    BY <1>1, <1>2, <1>5 DEF Gateway, at
  <1>6. CASE a # "refused" /\ at = "grid"
    <2>1. hw' = [hw EXCEPT !.grid = g.grid]
      BY <1>2, <1>3, <1>6
    <2> QED
      BY <1>1, <1>6, <2>1 DEF Gateway, at, g
  <1>7. CASE a # "refused" /\ at = "tariff"
    <2>1. hw' = [hw EXCEPT !.tariff = v]
      BY <1>2, <1>3, <1>7
    <2>2. hw'.tariff = v /\ hw'.grid = hw.grid /\ hw'.reserve = hw.reserve
      BY <1>1, <2>1 DEF Gateway
    <2> QED
      BY <1>4, <1>7, <2>2 DEF at
  <1>8. CASE a # "refused" /\ at \notin {"grid", "tariff"}
    <2>1. \/ hw' = hw
          \/ \E x : \/ hw' = [hw EXCEPT !.mode = x] \/ hw' = [hw EXCEPT !.rule = x]
                    \/ hw' = [hw EXCEPT !.reserve = x] /\ at \in {"reserve", "pulsing"}
      BY <1>2, <1>3, <1>8
    <2>2. /\ hw'.grid = hw.grid /\ hw'.tariff = hw.tariff
          /\ hw'.reserve = hw.reserve \/ at \in {"reserve", "pulsing"}
      BY <1>1, <2>1 DEF Gateway
    <2> QED
      BY <1>8, <2>2 DEF at
  <1> QED
    BY <1>5, <1>6, <1>7, <1>8

LEMMA AnswerTouches ==
  ASSUME Types, NEW s \in Slots, NEW a, Answer(s, a), own' = own, mishaps \subseteq mishaps',
         op[s].at = "reserve" /\ a # "refused" => op[s].res \/ "overwritten" \in mishaps'
  PROVE  Touches(s)
  BY AnswerLands DEF Touches

LEMMA NothingTouches ==
  ASSUME hw' = hw, own' = own, mishaps \subseteq mishaps', NEW s \in Slots
  PROVE  Touches(s)
  BY DEF Touches

\* A force command that fails.
LEMMA CleanUpCleans ==
  ASSUME Types, NEW s \in Slots, Forcing(s), op[s].at # "baseline", NEW keep \in BOOLEAN,
         NEW ms, CleanUp(s, keep, keep, ms), Touches(s), UNCHANGED known,
         keep => op[s].cur /\ ~op[s].res /\ (op[s].at = "pulsing" \/ ~Locked)
  PROVE  Cleans(s, keep)
  <1> DEFINE ss == Failing(s, keep)
  <1>1. /\ StartRestore(s, "user", 0, op[s].after, keep, ss)
        /\ disk' = Recorded(ss) /\ Mishap(Overlaps(s) \cup ms) /\ kept' = keep
    BY DEF CleanUp, Failing
  <1>2. Active(ss) # {}
    BY FailingIs
  <1> HIDE DEF ss
  <1>3. Never({"overlap"})' => Supersedes(s)
    BY <1>1, OverlapsAre DEF Supersedes
  <1>4. ~NothingToRestore(ss)
    BY <1>2 DEF NothingToRestore
  <1>5. /\ Newest(s) /\ sess' = ss /\ timers' = {}
        /\ Started(s, "user", 0, op[s].after, keep, ss)
    BY <1>1, <1>4, StartIs
  <1> QED
    BY <1>1, <1>3, <1>5 DEF Cleans, ss, known

LEMMA CleanupCleans ==
  ASSUME Types, NEW s \in Slots, Forcing(s), op[s].at # "baseline",
         Cleanup(s, FALSE), Touches(s), UNCHANGED known
  PROVE  Cleans(s, FALSE)
  BY CleanUpCleans DEF Cleanup

\* One that goes on, its sessions as they were.
LEMMA GoForces ==
  ASSUME Types, NEW s \in Slots, Forcing(s), NEW at, Go(s, op[s], at), Touches(s),
         UNCHANGED known, op[s].at \notin {"baseline", "pulsing"},
         at \notin {"look", "baseline", "rule"},
         LET o == [op[s] EXCEPT !.at = at] IN
           /\ GridForced(o) => \/ GridForced(op[s]) /\ op[s].at # "grid"
                               \/ hw'.grid = ForceGoal(op[s].kind).grid
           /\ at \in {"pulse", "pulsing"} => op[s].at = "pulse" \/ hw'.tariff = op[s].kind
           /\ at = "pulsing" => ~Locked /\ op[s].cur /\ op[s].res
  PROVE  ForceGoes(s)
  <1>1. /\ Only(s) /\ op'[s] = [op[s] EXCEPT !.at = at]
        /\ sess' = sess /\ timers' = timers /\ disk' = disk /\ kept' = kept
    BY GoIs
  <1>2. LET p == [op[s] EXCEPT !.at = at] IN Sames(p, op[s]) /\ p.at = at
    BY HandlerOf DEF Handlers, Sames
  <1>3. Sames(op'[s], op[s]) /\ op'[s].at = at
    BY <1>1, <1>2
  <1>4. Forcing(s)' /\ SameFlags
    BY <1>1, <1>3 DEF Forcing, Sames, SameFlags
  <1> QED
    BY <1>1, <1>3, <1>4 DEF ForceGoes, known

LEMMA EndForces ==
  ASSUME Types, Shape, NEW s \in Slots, Forcing(s), ~op[s].cur, End(s), Touches(s)
  PROVE  ForceEnds(s)
  <1>1. op[s].after # "drop"
    BY DEF Shape, Afters, Forcing, Restoring, Kinds
  <1>2. Ends(s)
    BY EndIs
  <1>3. disk' = disk
    BY <1>1 DEF End, Leave
  <1> QED
    BY <1>2, <1>3 DEF ForceEnds, Ends, SameFlags

LEMMA GoOnForces ==
  ASSUME Types, Shape, NEW s \in Slots, Forcing(s), op[s].kind = "charge", op[s].at = "mode",
         GoOn(s, "grid"), Touches(s), UNCHANGED known
  PROVE  ForceGoes(s) \/ ForceEnds(s)
  <1>1. CASE op[s].cur
    <2>1. Go(s, op[s], "grid")
      BY <1>1 DEF GoOn
    <2>2. LET o == [op[s] EXCEPT !.at = "grid"] IN ~GridForced(o)
      BY HandlerOf DEF Handlers, GridForced
    <2> QED
      BY <2>1, <2>2, GoForces
  <1>2. CASE ~op[s].cur
    BY <1>2, EndForces DEF GoOn
  <1> QED
    BY <1>1, <1>2

LEMMA FailsForces ==
  ASSUME Types, Shape, NEW s \in Slots, Forcing(s), op[s].at # "baseline",
         Fails(s), Touches(s), UNCHANGED known
  PROVE  Cleans(s, FALSE) \/ ForceEnds(s)
  <1>1. CASE op[s].cur
    BY <1>1, CleanupCleans DEF Fails
  <1>2. CASE ~op[s].cur
    BY <1>2, EndForces DEF Fails
  <1> QED
    BY <1>1, <1>2

ForceSteps(s) ==
  ForceGoes(s) \/ ForceEnds(s) \/ Lapses(s) \/ Runs(s) \/ \E keep \in BOOLEAN : Cleans(s, keep)

LEMMA ChargeSteps ==
  ASSUME Types, Shape, NEW s \in Slots, ChargeAnswer(s)
  PROVE  ForceSteps(s)
  <1>1. op[s].kind = "charge" /\ own' = own /\ UNCHANGED known
    BY DEF ChargeAnswer
  <1>2. PICK a \in Answers :
       /\ Answer(s, a)
       /\ \/ op[s].at = "mode" /\ a = "ok" /\ GoOn(s, "grid")
          \/ op[s].at = "mode" /\ a # "ok" /\ Cleanup(s, FALSE)
          \/ op[s].at = "grid" /\ a = "ok" /\ Go(s, op[s], "reserve") /\ UNCHANGED mishaps
          \/ op[s].at = "grid" /\ a # "ok" /\ Fails(s)
          \/ op[s].at = "reserve" /\ ~Locked
               /\ LET over == If(~op[s].res /\ a # "refused", "overwritten") IN
                  IF a = "ok" THEN Go(s, op[s], "tariff") /\ Mishap(over)
                              ELSE CleanUp(s, FALSE, FALSE, over)
          \/ op[s].at = "tariff"
               /\ IF Sent(a) THEN Go(s, op[s], "pulse") /\ UNCHANGED mishaps
                             ELSE Cleanup(s, FALSE)
    BY DEF ChargeAnswer
  <1>3. op[s].at \in {"mode", "grid", "reserve", "tariff"}
    BY <1>2
  <1>4. Forcing(s) /\ ~Restoring(s) /\ op[s].goal = ForceGoal("charge")
    BY <1>1, <1>3, HandlerOf DEF Forcing, Restoring, Placed, Kinds
  <1>5. mishaps \subseteq mishaps'
    BY <1>2 DEF GoOn, Cleanup, CleanUp, Fails, Mishap
  <1>6. CASE op[s].at = "mode" /\ GoOn(s, "grid")
    BY <1>1, <1>2, <1>4, <1>5, <1>6, AnswerTouches, GoOnForces DEF ForceSteps
  <1>7. CASE op[s].at # "reserve" /\ (Cleanup(s, FALSE) \/ Fails(s))
    <2>1. Touches(s)
      BY <1>1, <1>2, <1>5, <1>7, AnswerTouches
    <2> QED
      BY <1>1, <1>3, <1>4, <1>7, <2>1, CleanupCleans, FailsForces DEF ForceSteps
  <1>8. CASE op[s].at = "grid" /\ a = "ok" /\ Go(s, op[s], "reserve")
    <2>1. Touches(s) /\ hw'.grid = ForceGoal(op[s].kind).grid
      BY <1>1, <1>2, <1>4, <1>5, <1>8, AnswerTouches, AnswerLands
    <2> QED
      BY <1>1, <1>4, <1>8, <2>1, GoForces DEF ForceSteps
  <1>9. CASE op[s].at = "reserve"
    <2> DEFINE over == If(~op[s].res /\ a # "refused", "overwritten")
    <2>1. /\ op[s].at = "reserve"
          /\ \/ Go(s, op[s], "tariff") /\ Mishap(over)
             \/ CleanUp(s, FALSE, FALSE, over)
      BY <1>2, <1>9
    <2>2. ~op[s].res /\ a # "refused" => "overwritten" \in mishaps'
      BY <2>1 DEF CleanUp, Mishap, If
    <2> HIDE DEF over
    <2>3. Touches(s)
      BY <1>1, <1>2, <1>5, <2>2, HandlerOf, AnswerTouches
    <2>4. GridForced(op[s])
      BY <2>1 DEF GridForced
    <2>5. CASE Go(s, op[s], "tariff")
      BY <1>1, <1>4, <2>1, <2>3, <2>4, <2>5, GoForces DEF ForceSteps
    <2>6. CASE CleanUp(s, FALSE, FALSE, over)
      BY <1>1, <1>4, <2>1, <2>3, <2>6, CleanUpCleans DEF ForceSteps
    <2> QED
      BY <2>1, <2>5, <2>6
  <1>10. CASE op[s].at = "tariff" /\ Sent(a) /\ Go(s, op[s], "pulse")
    <2>1. Touches(s) /\ hw'.tariff = op[s].kind
      BY <1>1, <1>2, <1>4, <1>5, <1>10, AnswerTouches, AnswerLands DEF Sent
    <2>2. GridForced(op[s])
      BY <1>10 DEF GridForced
    <2> QED
      BY <1>1, <1>4, <1>10, <2>1, <2>2, GoForces DEF ForceSteps
  <1> QED
    BY <1>2, <1>3, <1>6, <1>7, <1>8, <1>9, <1>10

LEMMA DischargeSteps ==
  ASSUME Types, Shape, NEW s \in Slots, DischargeAnswer(s)
  PROVE  ForceSteps(s)
  <1>1. op[s].kind = "discharge" /\ own' = own /\ UNCHANGED known
    BY DEF DischargeAnswer
  <1>2. PICK a \in Answers :
       /\ Answer(s, a)
       /\ \/ /\ op[s].at = "rule" /\ a # "lost"
             /\ sess' = Save(s, "discharge", op[s].base)
             /\ IF op[s].cur
                  THEN op' = [op EXCEPT ![s].at = "grid"] /\ UNCHANGED <<timers, disk>>
                  ELSE Leave(s, disk, timers)
             /\ UNCHANGED <<kept, mishaps>>
          \/ op[s].at = "grid" /\ a = "ok" /\ Go(s, op[s], "mode") /\ UNCHANGED mishaps
          \/ op[s].at = "grid" /\ a # "ok" /\ Fails(s)
          \/ op[s].at = "mode" /\ Go(s, op[s], "tariff") /\ UNCHANGED mishaps
          \/ op[s].at = "tariff"
               /\ IF Sent(a) THEN Go(s, op[s], "pulse") /\ UNCHANGED mishaps
                             ELSE Cleanup(s, FALSE)
    BY DEF DischargeAnswer
  <1>3. op[s].at \in {"rule", "grid", "mode", "tariff"}
    BY <1>2
  <1>4. Forcing(s) /\ ~Restoring(s) /\ op[s].goal = ForceGoal("discharge")
    BY <1>1, <1>3, HandlerOf DEF Forcing, Restoring, Placed, Kinds
  <1>5. mishaps \subseteq mishaps'
    BY <1>2 DEF Cleanup, CleanUp, Fails, Mishap
  <1>6. Touches(s)
    BY <1>1, <1>2, <1>3, <1>5, AnswerTouches
  <1>7. CASE /\ op[s].at = "rule" /\ sess' = Save(s, "discharge", op[s].base)
             /\ IF op[s].cur
                  THEN op' = [op EXCEPT ![s].at = "grid"] /\ UNCHANGED <<timers, disk>>
                  ELSE Leave(s, disk, timers)
             /\ kept' = kept
    <2>1. SameFlags
      <3>1. sess \in [Kinds -> Sessions]
        BY DEF Types, SessionTypes
      <3> QED
        BY <1>7, <3>1 DEF SameFlags, Save, Sessions, Kinds
    <2>2. CASE op[s].cur
      <3> DEFINE p == [op[s] EXCEPT !.at = "grid"]
      <3>1. op' = [op EXCEPT ![s] = p] /\ disk' = disk /\ timers' = timers
        BY <1>7, <2>2
      <3>2. Sames(p, op[s]) /\ p.at = "grid"
        BY HandlerOf DEF Handlers, Sames
      <3> HIDE DEF p
      <3>3. Only(s) /\ Sames(op'[s], op[s]) /\ op'[s].at = "grid"
        BY <3>1, <3>2 DEF Only, Types, HandlerTypes
      <3>4. Forcing(s)' /\ ~GridForced(op'[s])
        BY <1>4, <3>3 DEF Forcing, Sames, GridForced
      <3> QED
        BY <1>1, <1>4, <1>6, <1>7, <2>1, <3>1, <3>3, <3>4 DEF ForceSteps, ForceGoes, known
    <2>3. CASE ~op[s].cur
      <3>1. op[s].after # "drop"
        BY <1>1 DEF Shape, Afters, Restoring
      <3>2. op' = [op EXCEPT ![s] = Free] /\ disk' = disk
        BY <1>7, <2>3, <3>1 DEF Leave
      <3>3. Only(s) /\ op'[s] = Free
        BY <3>2 DEF Only, Types, HandlerTypes
      <3> QED
        BY <1>4, <1>6, <1>7, <2>1, <2>3, <3>2, <3>3 DEF ForceSteps, ForceEnds
    <2> QED
      BY <2>2, <2>3, HandlerOf
  <1>8. CASE op[s].at = "grid" /\ a = "ok" /\ Go(s, op[s], "mode")
    <2>1. hw'.grid = ForceGoal(op[s].kind).grid
      BY <1>1, <1>2, <1>4, <1>8, AnswerLands
    <2> QED
      BY <1>1, <1>4, <1>6, <1>8, <2>1, GoForces DEF ForceSteps
  <1>9. CASE op[s].at \in {"grid", "tariff"} /\ (Fails(s) \/ Cleanup(s, FALSE))
    BY <1>1, <1>4, <1>6, <1>9, CleanupCleans, FailsForces DEF ForceSteps
  <1>10. CASE op[s].at = "mode" /\ Go(s, op[s], "tariff")
    <2>1. GridForced(op[s])
      BY <1>1, <1>10 DEF GridForced
    <2> QED
      BY <1>1, <1>4, <1>6, <1>10, <2>1, GoForces DEF ForceSteps
  <1>11. CASE op[s].at = "tariff" /\ Sent(a) /\ Go(s, op[s], "pulse")
    <2>1. hw'.tariff = op[s].kind
      BY <1>1, <1>2, <1>4, <1>11, AnswerLands DEF Sent
    <2>2. GridForced(op[s])
      BY <1>11 DEF GridForced
    <2> QED
      BY <1>1, <1>4, <1>6, <1>11, <2>1, <2>2, GoForces DEF ForceSteps
  <1> QED
    BY <1>2, <1>7, <1>8, <1>9, <1>10, <1>11

LEMMA BaselineSteps ==
  ASSUME Types, Shape, NEW s \in Slots, BaselineAnswer(s)
  PROVE  ForceSteps(s)
  <1> DEFINE k == op[s].kind
  <1> DEFINE Based(b) ==
        IF k = "charge"
          THEN /\ op' = [op EXCEPT ![s].at = "mode"] /\ sess' = Save(s, k, b)
               /\ UNCHANGED <<timers, disk, kept>>
          ELSE Go(s, [op[s] EXCEPT !.base = b], "rule")
  <1>1. /\ \/ /\ cached' = (cached \/ hw.tariff = "own")
              /\ Based(Read(k)) /\ UNCHANGED mishaps
           \/ Based(Blank) /\ Chance({"unread"}) /\ UNCHANGED <<known, failures>>
           \/ /\ sess' = [sess EXCEPT ![k].active = FALSE]
              /\ Leave(s, disk, timers) /\ UNCHANGED <<known, mishaps, kept>>
        /\ hw' = hw /\ own' = own
        /\ op[s].at = "baseline"
    BY DEF BaselineAnswer
  <1>2. Fresh(s) /\ Forcing(s) /\ k \in Kinds
    BY <1>1, FreshForces DEF Fresh, Forcing
  <1>3. sess \in [Kinds -> Sessions] /\ cached \in BOOLEAN
    BY DEF Types, SessionTypes, KnownTypes
  <1>4. ASSUME NEW b, Based(b)
        PROVE  /\ Only(s) /\ Sames(op'[s], op[s]) /\ SameFlags
               /\ timers' = timers /\ disk' = disk /\ kept' = kept
               /\ op'[s].at \in {"mode", "rule"} /\ (op'[s].at = "mode" => k = "charge")
    <2>1. CASE k = "charge"
      <3> DEFINE p == [op[s] EXCEPT !.at = "mode"]
      <3>1. op' = [op EXCEPT ![s] = p] /\ sess' = Save(s, k, b) /\ UNCHANGED <<timers, disk, kept>>
        BY <1>4, <2>1
      <3>2. Sames(p, op[s]) /\ p.at = "mode"
        BY HandlerOf DEF Handlers, Sames
      <3> HIDE DEF p, k
      <3>3. Only(s) /\ op'[s] = p
        BY <3>1 DEF Only, Types, HandlerTypes
      <3>4. SameFlags
        BY <1>2, <1>3, <3>1 DEF SameFlags, Save, Sessions
      <3> QED
        BY <2>1, <3>1, <3>2, <3>3, <3>4
    <2>2. CASE k # "charge"
      <3>1. Go(s, [op[s] EXCEPT !.base = b], "rule")
        BY <1>4, <2>2
      <3>2. /\ Only(s) /\ op'[s] = [[op[s] EXCEPT !.base = b] EXCEPT !.at = "rule"]
            /\ sess' = sess /\ disk' = disk /\ timers' = timers /\ kept' = kept
        BY <3>1, GoIs
      <3>3. LET p == [[op[s] EXCEPT !.base = b] EXCEPT !.at = "rule"] IN
            Sames(p, op[s]) /\ p.at = "rule"
        BY HandlerOf DEF Handlers, Sames
      <3>4. Sames(op'[s], op[s]) /\ op'[s].at = "rule"
        BY <3>2, <3>3
      <3> QED
        BY <3>2, <3>4 DEF SameFlags
    <2> QED
      BY <2>1, <2>2
  <1>5. ASSUME NEW b, Based(b), mishaps \subseteq mishaps', cached => cached',
               hw.tariff = "own" => cached' \/ "unread" \in mishaps'
        PROVE  ForceGoes(s)
    <2>1. /\ Only(s) /\ Sames(op'[s], op[s]) /\ SameFlags
          /\ timers' = timers /\ disk' = disk /\ kept' = kept
          /\ op'[s].at \in {"mode", "rule"} /\ (op'[s].at = "mode" => k = "charge")
      BY <1>4, <1>5
    <2> HIDE DEF Based
    <2>2. op'[s].kind = k
      BY <2>1 DEF Sames
    <2>3. Forcing(s)' /\ ~GridForced(op'[s]) /\ op'[s].at \notin {"pulse", "pulsing"}
      BY <1>2, <2>1, <2>2 DEF Forcing, GridForced
    <2>4. Touches(s)
      BY <1>1, <1>5, NothingTouches
    <2> QED
      BY <1>1, <1>2, <1>5, <2>1, <2>3, <2>4 DEF ForceGoes
  <1>6. CASE sess' = [sess EXCEPT ![k].active = FALSE] /\ Leave(s, disk, timers)
             /\ UNCHANGED <<known, mishaps, kept>>
    <2>1. op[s].after # "drop"
      BY <1>2 DEF Shape, Afters, Forcing, Restoring, Kinds
    <2>2. op' = [op EXCEPT ![s] = Free] /\ disk' = disk
      BY <1>6, <2>1 DEF Leave
    <2>3. Only(s) /\ op'[s] = Free
      BY <2>2 DEF Only, Types, HandlerTypes
    <2> HIDE DEF Based
    <2>4. \A j \in Kinds : sess'[j].skip = sess[j].skip
                           /\ (sess'[j].active <=> sess[j].active /\ j # k)
      <3> HIDE DEF k
      <3> QED
        BY <1>2, <1>3, <1>6 DEF Sessions
    <2> QED
      BY <1>1, <1>2, <1>6, <2>2, <2>3, <2>4 DEF ForceSteps, Lapses, known
  <1>7. CASE cached' = (cached \/ hw.tariff = "own") /\ Based(Read(k)) /\ UNCHANGED mishaps
    <2> HIDE DEF Based
    <2> QED
      BY <1>5, <1>7 DEF ForceSteps
  <1>8. CASE Based(Blank) /\ Chance({"unread"}) /\ UNCHANGED known
    <2>1. mishaps \subseteq mishaps' /\ "unread" \in mishaps' /\ cached' = cached
      BY <1>8 DEF Chance, Mishap, known
    <2> HIDE DEF Based
    <2> QED
      BY <1>5, <1>8, <2>1 DEF ForceSteps
  <1> QED
    BY <1>1, <1>6, <1>7, <1>8

\* What a restore does next.
RestoreMoves(s) == RestoreGoes(s) \/ RestoreEnds(s) \/ RestoreEnded(s) \/ Notes(s)

\* A restore has written one setting, and o is what it goes on with.
LEMMA GridMoves ==
  ASSUME Types, NEW s \in Slots, Restoring(s), NEW o \in Handlers, Sames(o, op[s]), op[s].cur,
         AfterGrid(s, o), Touches(s), cached' = cached, op[s].at \in {"mode", "rule", "grid"},
         op[s].failed => o.failed,
         o.goal.reserve \in {"none", op[s].goal.reserve, Setting(sess, "reserve")}
  PROVE  RestoreGoes(s) \/ RestoreEnded(s)
  <1>1. \/ /\ GoesOn(s) /\ op'[s].goal = o.goal /\ op'[s].failed = o.failed
           /\ \/ op'[s].at = "pulse" /\ ~o.skip
              \/ op'[s].at = "note"
        \/ Ended(s) /\ ~o.failed
    BY AfterGridIs
  <1>2. op[s].failed \in BOOLEAN /\ o.skip = op[s].skip
    BY HandlerOf DEF Handlers, Sames
  <1> QED
    BY <1>1, <1>2 DEF RestoreGoes, RestoreEnded

LEMMA RuleMoves ==
  ASSUME Types, NEW s \in Slots, Restoring(s), NEW o \in Handlers, Sames(o, op[s]), op[s].cur,
         AfterRule(s, o), Touches(s), cached' = cached, op[s].at \in {"mode", "rule"},
         op[s].failed => o.failed,
         o.goal.reserve \in {"none", op[s].goal.reserve, Setting(sess, "reserve")}
  PROVE  RestoreGoes(s) \/ RestoreEnded(s)
  <1> DEFINE grid == OrElse(Setting(sess, "grid"), pref)
  <1>1. \/ AfterGrid(s, o)
        \/ /\ GoesOn(s) /\ op'[s].goal = [o.goal EXCEPT !.grid = grid]
           /\ op'[s].failed = o.failed /\ op'[s].at = "grid"
    BY AfterRuleIs
  <1> HIDE DEF grid
  <1>2. CASE AfterGrid(s, o)
    BY <1>2, GridMoves
  <1>3. CASE /\ GoesOn(s) /\ op'[s].goal = [o.goal EXCEPT !.grid = grid]
             /\ op'[s].failed = o.failed /\ op'[s].at = "grid"
    <2>1. op'[s].goal.reserve = o.goal.reserve
      BY <1>3 DEF Handlers, Settings
    <2>2. op[s].failed \in BOOLEAN
      BY HandlerOf DEF Handlers
    <2> QED
      BY <1>3, <2>1, <2>2 DEF RestoreGoes
  <1> QED
    BY <1>1, <1>2, <1>3

LEMMA ModeMoves ==
  ASSUME Types, NEW s \in Slots, Restoring(s), NEW o \in Handlers, Sames(o, op[s]),
         AfterMode(s, o), Touches(s), cached' = cached, op[s].at = "mode",
         op[s].failed => o.failed,
         o.goal.reserve \in {"none", op[s].goal.reserve, Setting(sess, "reserve")}
  PROVE  RestoreGoes(s) \/ RestoreEnds(s) \/ RestoreEnded(s)
  <1>1. op[s].failed \in BOOLEAN /\ o.cur = op[s].cur
    BY HandlerOf DEF Handlers, Sames
  <1>2. \/ /\ GoesOn(s) /\ op'[s].goal = o.goal /\ op'[s].failed = o.failed
           /\ op'[s].at = "rule"
        \/ op[s].cur /\ AfterRule(s, o)
        \/ ~op[s].cur /\ Ends(s)
    BY <1>1, AfterModeIs
  <1>3. CASE op[s].cur /\ AfterRule(s, o)
    BY <1>3, RuleMoves
  <1> QED
    BY <1>1, <1>2, <1>3 DEF RestoreGoes, RestoreEnds

LEMMA RestoreAnswerMoves ==
  ASSUME Types, NEW s \in Slots, RestoreAnswer(s)
  PROVE  RestoreMoves(s)
  <1>1. Restoring(s) /\ own' = own /\ cached' = cached /\ mishaps \subseteq mishaps'
    BY RestoreAnswerIs DEF known
  <1>2. PICK a, o : Answering(s, a, o) /\
              \/ /\ op[s].at = "handoff" /\ op[s].cur /\ cached
                 /\ o.goal = op[s].goal /\ Go(s, o, "tariff")
              \/ /\ op[s].at \in {"handoff", "tariff"} /\ op[s].cur
                 /\ op[s].at = "handoff" => ~cached
                 /\ o.goal = [op[s].goal EXCEPT !.mode = ModeGoal(op[s], sess)]
                 /\ Go(s, o, "mode")
              \/ op[s].at \in {"handoff", "tariff", "rule", "grid"} /\ ~op[s].cur /\ End(s)
              \/ /\ op[s].at = "mode" /\ AfterMode(s, o)
                 /\ \E low \in BOOLEAN :
                      /\ low => "low_soc" \in mishaps'
                      /\ o.goal = Goal(op[s], low)
              \/ /\ op[s].at = "rule" /\ op[s].cur /\ a # "lost" /\ o.goal = op[s].goal
                 /\ AfterRule(s, o)
              \/ op[s].at = "grid" /\ op[s].cur /\ o.goal = op[s].goal /\ AfterGrid(s, o)
    BY RestoreAnswerIs
  <1>3. /\ Answer(s, a) /\ o \in Handlers /\ Sames(o, op[s]) /\ o.failed = (op[s].failed \/ a # "ok")
    BY <1>2 DEF Answering
  <1>4. Touches(s)
    <2>1. op[s].at # "reserve"
      BY <1>1, HandlerOf DEF Restoring, Placed
    <2> QED
      BY <1>1, <1>3, <2>1, AnswerTouches
  <1>5. op[s].failed \in BOOLEAN
    BY HandlerOf DEF Handlers
  <1>6. CASE op[s].at = "handoff" /\ o.goal = op[s].goal /\ Go(s, o, "tariff")
    <2>1. GoesOn(s) /\ op'[s].at = "tariff" /\ op'[s].goal = op[s].goal
      BY <1>3, <1>6, GoGoesOn
    <2> QED
      BY <1>1, <1>4, <1>6, <2>1 DEF RestoreMoves, RestoreGoes
  <1>7. CASE /\ op[s].at \in {"handoff", "tariff"} /\ (op[s].at = "handoff" => ~cached)
             /\ o.goal = [op[s].goal EXCEPT !.mode = ModeGoal(op[s], sess)]
             /\ Go(s, o, "mode")
    <2>1. GoesOn(s) /\ op'[s].at = "mode" /\ op'[s].goal = o.goal /\ op'[s].failed = o.failed
      BY <1>3, <1>7, GoGoesOn
    <2> DEFINE m == ModeGoal(op[s], sess)
    <2>2. o.goal = [op[s].goal EXCEPT !.mode = m]
      BY <1>7
    <2> HIDE DEF m
    <2>3. o.goal.reserve = op[s].goal.reserve
      <3>1. op[s].goal \in Settings
        BY HandlerOf, HandlersAre
      <3> QED
        BY <2>2, <3>1 DEF Settings
    <2>4. op[s].at = "tariff" /\ ~o.failed => hw'.tariff = "own"
      BY <1>1, <1>3, AnswerLands
    <2> QED
      BY <1>1, <1>4, <1>7, <2>1, <2>3, <2>4 DEF RestoreMoves, RestoreGoes
  <1>8. CASE ~op[s].cur /\ End(s)
    BY <1>1, <1>4, <1>8, EndIs DEF RestoreMoves, RestoreEnds
  <1>9. CASE op[s].at = "mode" /\ AfterMode(s, o) /\ \E low \in BOOLEAN : o.goal = Goal(op[s], low)
    <2>1. o.goal.reserve \in {"none", Setting(sess, "reserve")}
      <3>1. op[s].goal \in Settings
        BY HandlerOf, HandlersAre
      <3>2. PICK low \in BOOLEAN : o.goal = Goal(op[s], low)
        BY <1>9
      <3>3. SessionTypes
        BY DEF Types
      <3>4. Goal(op[s], low).reserve = IF low THEN "none" ELSE Setting(sess, "reserve")
        BY <3>1, <3>3, GoalTyped
      <3> QED
        BY <3>2, <3>4
    <2> QED
      BY <1>1, <1>3, <1>4, <1>9, <2>1, ModeMoves DEF RestoreMoves
  <1>10. CASE op[s].at = "rule" /\ op[s].cur /\ o.goal = op[s].goal /\ AfterRule(s, o)
    BY <1>1, <1>3, <1>4, <1>10, RuleMoves DEF RestoreMoves
  <1>11. CASE op[s].at = "grid" /\ op[s].cur /\ o.goal = op[s].goal /\ AfterGrid(s, o)
    BY <1>1, <1>3, <1>4, <1>11, GridMoves DEF RestoreMoves
  <1> QED
    BY <1>2, <1>6, <1>7, <1>8, <1>9, <1>10, <1>11

LEMMA NoteMoves ==
  ASSUME Types, NEW s \in Slots, NoteAnswer(s)
  PROVE  RestoreMoves(s)
  <1> DEFINE k == IF "charge" \in op[s].was \/ sess["charge"].active THEN "charge" ELSE "discharge"
  <1> DEFINE noted == [disk EXCEPT !.pending = IF op[s].skip THEN "skip" ELSE "all"]
  <1> DEFINE recorded == [noted EXCEPT !.rec = Record(sess)]
  <1>1. /\ op[s].at = "note" /\ UNCHANGED <<hw, own, sess, known, kept>>
        /\ IF Retries(op[s])
             THEN Leave(s, recorded, Armed(k, op[s].retry + 1))
             ELSE Leave(s, noted, timers)
        /\ mishaps \subseteq mishaps'
    BY DEF NoteAnswer, Mishap
  <1>2. Restoring(s)
    BY <1>1, LooksAre DEF Restoring
  <1>3. /\ noted.pending # "none" /\ noted.rec = disk.rec
        /\ recorded.pending # "none" /\ recorded.rec = Record(sess)
        /\ \A d \in {noted, recorded} : [d EXCEPT !.rec = NoRecord].pending = d.pending
                                        /\ [d EXCEPT !.rec = NoRecord].rec = NoRecord
    BY DEF Types, StoreTypes
  <1>4. <<k, op[s].retry + 1>> \in Armed(k, op[s].retry + 1) /\ op[s].retry + 1 # 0
    <2>1. op[s].retry \in 0..MaxRetries /\ MaxRetries \in Nat
      BY HandlerOf, HandlersAre, BoundsAreNaturals
    <2>2. op[s].retry + 1 # 0
      BY <2>1
    <2> HIDE DEF k
    <2> QED
      BY <2>2 DEF Armed
  <1> HIDE DEF noted, recorded, k
  <1>5. op' = [op EXCEPT ![s] = Free]
    BY <1>1 DEF Leave
  <1>6. Only(s) /\ op'[s] = Free
    BY <1>5 DEF Only, Types, HandlerTypes
  <1>7. NoRecord.kind = "none"
    BY DEF NoRecord
  <1>8. CASE Retries(op[s])
    <2>1. Leave(s, recorded, Armed(k, op[s].retry + 1))
      BY <1>1, <1>8
    <2>2. <<k, op[s].retry + 1>> \in timers'
      BY <1>4, <2>1 DEF Leave
    <2>3. \E t \in timers' : t[2] # 0
      BY <1>4, <2>2
    <2>4. disk'.pending # "none" /\ (disk'.rec.kind = "none" \/ disk'.rec = Record(sess))
      BY <1>3, <1>7, <2>1 DEF Leave
    <2> QED
      BY <1>1, <1>2, <1>6, <2>3, <2>4 DEF RestoreMoves, Notes, known
  <1>9. CASE ~Retries(op[s])
    <2>1. Leave(s, noted, timers)
      BY <1>1, <1>9
    <2>2. disk'.pending # "none" /\ (disk'.rec.kind = "none" \/ disk'.rec = disk.rec)
      BY <1>3, <1>7, <2>1 DEF Leave
    <2>3. timers' = IF op[s].after \in Kinds THEN timers \cup {<<op[s].after, 0>>} ELSE timers
      BY <2>1 DEF Leave
    <2> QED
      BY <1>1, <1>2, <1>6, <1>9, <2>2, <2>3 DEF RestoreMoves, Notes, known
  <1> QED
    BY <1>8, <1>9

\* The pulse of a force command or a restore is over.
LEMMA ForcePulseSteps ==
  ASSUME Types, Shape, NEW s \in Slots, Forcing(s), NEW ok \in BOOLEAN, PulseOver(s, ok),
         op[s].at \in {"pulse", "pulsing"}, op[s].at = "pulse" => ~Locked /\ ~ok,
         hw'.grid = hw.grid, hw'.tariff = hw.tariff, hw' = hw \/ op[s].at = "pulsing",
         own' = own, UNCHANGED known
  PROVE  ForceSteps(s)
  <1>1. op[s].kind \in Kinds /\ op[s].kind # "restore"
    BY DEF Forcing, Kinds
  <1>2. mishaps \subseteq mishaps'
    BY <1>1 DEF PulseOver, Cleanup, CleanUp, Mishap
  <1>3. Touches(s)
    BY <1>2 DEF Touches
  <1>4. CASE ~op[s].cur
    BY <1>3, <1>4, EndForces DEF PulseOver, ForceSteps
  <1>5. CASE op[s].cur /\ op[s].res /\ ok
    <2>1. Running(s) /\ op[s].at = "pulsing"
      BY <1>1, <1>5 DEF PulseOver
    <2>2. op[s].after # "drop"
      BY <1>1 DEF Shape, Afters, Restoring, Kinds
    <2>3. /\ sess' = Succeeding(s) /\ op' = [op EXCEPT ![s] = Free]
          /\ disk' = Recorded(Succeeding(s)) /\ kept' = kept
      BY <2>1, <2>2 DEF Running, Leave, Succeeding
    <2>4. Only(s) /\ op'[s] = Free
      BY <2>3 DEF Only, Types, HandlerTypes
    <2> QED
      BY <1>3, <1>5, <2>1, <2>3, <2>4 DEF ForceSteps, Runs, known
  <1>6. CASE op[s].cur /\ ~(op[s].res /\ ok)
    <2> DEFINE keep == ~op[s].res
    <2>1. CleanUp(s, keep, keep, {}) /\ keep \in BOOLEAN
      BY <1>1, <1>6 DEF PulseOver, Cleanup
    <2>2. keep => op[s].cur /\ ~op[s].res /\ (op[s].at = "pulsing" \/ ~Locked)
      BY <1>6
    <2> HIDE DEF keep
    <2>3. op[s].at # "baseline"
      OBVIOUS
    <2> QED
      BY <1>3, <2>1, <2>2, <2>3, CleanUpCleans DEF ForceSteps
  <1> QED
    BY <1>4, <1>5, <1>6, HandlerOf

LEMMA RestorePulseMoves ==
  ASSUME Types, NEW s \in Slots, Restoring(s), NEW ok \in BOOLEAN, PulseOver(s, ok),
         op[s].at \in {"pulse", "pulsing"},
         hw'.grid = hw.grid, hw'.tariff = hw.tariff, hw' = hw \/ op[s].at = "pulsing",
         own' = own, UNCHANGED known
  PROVE  RestoreMoves(s)
  <1>1. /\ mishaps' = mishaps
        /\ \/ ~op[s].cur /\ Ends(s)
           \/ op[s].cur /\ GoesOn(s) /\ op'[s].at = "note" /\ op'[s].goal = op[s].goal
           \/ op[s].cur /\ Ended(s) /\ ~op[s].failed
    BY RestorePulseIs
  <1>2. Touches(s) /\ cached' = cached
    BY <1>1 DEF Touches, known
  <1> QED
    BY <1>1, <1>2 DEF RestoreMoves, RestoreGoes, RestoreEnds, RestoreEnded

LEMMA PulseBeginsSteps ==
  ASSUME Types, Shape, NEW s \in Slots, PulseBegins(s)
  PROVE  ForceSteps(s) \/ RestoreMoves(s)
  <1>1. /\ op[s].at = "pulse" /\ ~Locked /\ op[s].cur /\ op[s].res /\ Go(s, op[s], "pulsing")
        /\ hw' = hw /\ own' = own /\ UNCHANGED known /\ mishaps' = mishaps
    BY DEF PulseBegins
  <1>2. op[s].kind \in Kinds \cup {"restore"}
    BY <1>1, PulsesAre
  <1>3. Touches(s)
    BY <1>1, NothingTouches
  <1>4. CASE op[s].kind \in Kinds
    <2>1. Forcing(s) /\ GridForced(op[s])
      BY <1>1, <1>4 DEF Forcing, GridForced
    <2> QED
      BY <1>1, <1>3, <2>1, GoForces DEF ForceSteps
  <1>5. CASE op[s].kind = "restore"
    <2>1. Sames(op[s], op[s]) /\ Restoring(s)
      BY <1>5 DEF Sames, Restoring
    <2>2. /\ GoesOn(s) /\ op'[s].at = "pulsing" /\ op'[s].goal = op[s].goal
          /\ op'[s].failed = op[s].failed
      BY <1>1, <2>1, HandlerOf, GoGoesOn
    <2> QED
      BY <1>1, <1>3, <2>1, <2>2 DEF RestoreMoves, RestoreGoes, known
  <1> QED
    BY <1>2, <1>4, <1>5

LEMMA PulseEndsSteps ==
  ASSUME Types, Shape, NEW s \in Slots, PulseSkipped(s) \/ PulseAnswer(s)
  PROVE  ForceSteps(s) \/ RestoreMoves(s)
  <1>1. /\ own' = own /\ UNCHANGED known
        /\ \/ op[s].at = "pulse" /\ ~Locked /\ hw' = hw /\ PulseOver(s, FALSE)
           \/ op[s].at = "pulsing" /\ \E a \in Answers : Answer(s, a) /\ PulseOver(s, a = "ok")
    BY DEF PulseSkipped, PulseAnswer
  <1>2. op[s].kind \in Kinds \cup {"restore"}
    BY <1>1, PulsesAre
  <1>3. op[s].kind \in Kinds => Forcing(s)
    BY <1>1 DEF Forcing
  <1>4. op[s].kind = "restore" => Restoring(s)
    BY DEF Restoring
  <1>5. CASE op[s].at = "pulse" /\ ~Locked /\ hw' = hw /\ PulseOver(s, FALSE)
    BY <1>1, <1>2, <1>3, <1>4, <1>5, ForcePulseSteps, RestorePulseMoves
  <1>6. CASE op[s].at = "pulsing" /\ \E a \in Answers : Answer(s, a) /\ PulseOver(s, a = "ok")
    <2>1. PICK a \in Answers : Answer(s, a) /\ PulseOver(s, a = "ok")
      BY <1>6
    <2>2. hw'.grid = hw.grid /\ hw'.tariff = hw.tariff
      BY <1>6, <2>1, AnswerLands
    <2> DEFINE ok == a = "ok"
    <2>3. ok \in BOOLEAN /\ PulseOver(s, ok)
      BY <2>1
    <2> HIDE DEF ok
    <2> QED
      BY <1>1, <1>2, <1>3, <1>4, <1>6, <2>2, <2>3, ForcePulseSteps, RestorePulseMoves
  <1> QED
    BY <1>1, <1>5, <1>6

LEMMA RuleRaisesSteps ==
  ASSUME Types, NEW s \in Slots, RuleRaises(s)
  PROVE  ForceSteps(s) \/ RestoreMoves(s)
  <1>1. /\ op[s].at = "rule" /\ own' = own /\ UNCHANGED known /\ hw' \in {hw, Landed(op[s])}
        /\ IF op[s].kind = "restore" THEN End(s) /\ Mishap({"raised"})
                                     ELSE CleanUp(s, FALSE, FALSE, {"raised"})
    BY DEF RuleRaises
  <1>2. op[s].kind \in Kinds \cup {"restore"}
    BY <1>1, LooksAre
  <1>3. mishaps \subseteq mishaps' /\ "raised" \in mishaps'
    BY <1>1 DEF CleanUp, Mishap
  <1>4. Touches(s)
    <2> DEFINE v == op[s].goal.rule
    <2>1. hw' = hw \/ hw' = [hw EXCEPT !.rule = v]
      BY <1>1 DEF Landed
    <2> HIDE DEF v
    <2>2. hw'.grid = hw.grid /\ hw'.tariff = hw.tariff /\ hw'.reserve = hw.reserve
      BY <2>1 DEF Types, GatewayTypes, Gateway
    <2> QED
      BY <1>1, <1>3, <2>2 DEF Touches
  <1>5. CASE op[s].kind = "restore"
    BY <1>1, <1>3, <1>4, <1>5, EndIs DEF Restoring, RestoreMoves, RestoreEnds, known
  <1>6. CASE op[s].kind \in Kinds
    <2>1. CleanUp(s, FALSE, FALSE, {"raised"}) /\ Forcing(s)
      BY <1>1, <1>6 DEF Forcing, Kinds
    <2> QED
      BY <1>1, <1>4, <2>1, CleanUpCleans DEF ForceSteps
  <1> QED
    BY <1>2, <1>5, <1>6

\* A step of one handler that is neither a force command nor a restore.
LEMMA OneBystands ==
  ASSUME Types, Shape, NEW s \in Slots, ~Forcing(s), ~Restoring(s), Only(s),
         ~Forcing(s)', ~Restoring(s)', ~op'[s].cur, ~op'[s].res,
         op'[s].at # "pulsing", op'[s].after = "",
         hw'.grid = hw.grid, hw'.tariff = hw.tariff, mishaps \subseteq mishaps',
         UNCHANGED <<sess, timers, disk, cached, kept>>,
         \/ hw'.reserve = hw.reserve /\ own'.reserve = own.reserve
         \/ hw'.reserve = "new" /\ own'.reserve = "new" /\ ~Locked,
         op[s].kind = "reserve" => \/ "reserve_refused" \in mishaps'
                                   \/ hw'.reserve = "new" /\ own'.reserve = "new" /\ ~Locked
  PROVE  Bystands
  <1>1. ASSUME NEW t \in Slots, t # s
        PROVE  op'[t] = op[t]
    BY <1>1 DEF Only
  <1>2. ~op[s].cur
    BY DEF Shape, OneCurrent
  <1>3. \A t \in Slots : /\ Alone(t) \/ ~(Forcing(t) \/ Restoring(t) \/ op'[t].cur
                                          \/ op'[t].at = "pulsing" \/ op'[t].after # "")
                         /\ (Forcing(t) \/ Restoring(t))' => Forcing(t) \/ Restoring(t)
                         /\ op'[t].res => op[t].res
    BY <1>1 DEF Alone, Forcing, Restoring
  <1>4. /\ \A t \in Slots : op[t].cur => op'[t].res = op[t].res
        /\ \A t \in Slots : op'[t].cur /\ ~op'[t].res => op[t].cur /\ ~op[t].res
    BY <1>1, <1>2
  <1>5. ReserveComes => ReserveComes' \/ op[s].kind = "reserve"
    BY <1>1 DEF ReserveComes
  <1> QED
    BY <1>3, <1>4, <1>5 DEF Bystands

LEMMA EndBystands ==
  ASSUME Types, Shape, NEW s \in Slots, ~Forcing(s), ~Restoring(s), End(s),
         hw'.grid = hw.grid, hw'.tariff = hw.tariff, mishaps \subseteq mishaps', cached' = cached,
         \/ hw'.reserve = hw.reserve /\ own'.reserve = own.reserve
         \/ hw'.reserve = "new" /\ own'.reserve = "new" /\ ~Locked,
         op[s].kind = "reserve" => \/ "reserve_refused" \in mishaps'
                                   \/ hw'.reserve = "new" /\ own'.reserve = "new" /\ ~Locked
  PROVE  Bystands
  <1>1. op[s].after = ""
    BY DEF Shape, Afters
  <1>2. op' = [op EXCEPT ![s] = Free] /\ UNCHANGED <<sess, timers, disk, kept>>
    BY <1>1 DEF End, Leave, Kinds
  <1>3. Only(s) /\ op'[s] = Free
    BY <1>2 DEF Only, Types, HandlerTypes
  <1>4. ~Forcing(s)' /\ ~Restoring(s)' /\ ~op'[s].cur /\ ~op'[s].res /\ op'[s].at # "pulsing"
        /\ op'[s].after = ""
    BY <1>3, FreeIs DEF Forcing, Restoring, Kinds
  <1> QED
    BY <1>2, <1>3, <1>4, OneBystands

LEMMA BeginBegins ==
  ASSUME Types, NEW s \in Slots, NEW k \in Kinds, NEW source, NEW after,
         Begin(s, k, source, after), ~Forcing(s), ~Restoring(s),
         UNCHANGED <<hw, own, cached>>, after # "" => ~Never({"restarted", "crash"})
  PROVE  Begins(s, k)
  <1> DEFINE ms == If(sess[Other(k)].active, "switched")
                     \cup If(source = "optimizer", "optimizer")
                     \cup If(op[s].at = "look" /\ Active(sess) # {}, "looked_late")
  <1>1. Mishap(Overlaps(s) \cup ms)
    BY DEF Begin, Mishap
  <1> HIDE DEF ms
  <1>2. mishaps \subseteq mishaps' /\ (Never({"overlap"})' => Supersedes(s))
    BY <1>1, OverlapsAre DEF Supersedes, Mishap
  <1>3. /\ Newest(s) /\ disk' = disk /\ timers' = {} /\ kept' = FALSE
        /\ op'[s].kind = k /\ op'[s].cur /\ op'[s].res /\ op'[s].at = First(k)
        /\ ~sess'[Other(k)].active
    BY BeginIs, ZenonT(60)
  <1>4. op'[s].after = after
    BY BeginNames, ZenonT(60)
  <1> QED
    BY <1>2, <1>3, <1>4 DEF Begins, Apart

LEMMA StartStarts ==
  ASSUME Types, NEW s \in Slots, NEW source, NEW retry, NEW after, NEW keep,
         StartRestore(s, source, retry, after, keep, sess), ~Forcing(s), ~Restoring(s),
         op[s].kind # "reserve", UNCHANGED <<hw, own, disk, cached, kept>>,
         mishaps \subseteq mishaps',
         Never({"overlap"})' => Supersedes(s),
         after \notin Kinds, after # "" => ~Never({"restarted", "crash"}),
         \/ Active(sess) # {} \/ "idle" \in mishaps'
         \/ (\A t \in Slots \ {s} : op[t].kind = "free") /\ sess = Reloaded
            /\ disk.rec.kind = "none"
  PROVE  Starts(s)
  <1> DEFINE ss == sess
  <1>0. StartRestore(s, source, retry, after, keep, ss)
    OBVIOUS
  <1> HIDE DEF ss
  <1>1. /\ Newest(s) /\ sess' = ss /\ timers' = {}
        /\ \/ op'[s] = Free
           \/ ~NothingToRestore(ss) /\ Started(s, source, retry, after, keep, ss)
    <2>1. Newest(s) /\ sess' = ss /\ timers' = {}
      BY <1>0, StartIs
    <2>2. CASE NothingToRestore(ss)
      BY <1>0, <2>2, StartIs
    <2>3. CASE ~NothingToRestore(ss)
      <3>1. Started(s, source, retry, after, keep, ss)
        BY <1>0, <2>3, StartIs
      <3> QED
        BY <2>1, <2>3, <3>1
    <2> QED
      BY <2>1, <2>2, <2>3
  <1>2. CASE op'[s] = Free
    BY <1>1, <1>2, FreeIs DEF Starts, Apart, ss
  <1>3. CASE ~NothingToRestore(ss) /\ Started(s, source, retry, after, keep, ss)
    <2>1. /\ op'[s].kind = "restore" /\ op'[s].cur /\ op'[s].res /\ op'[s].goal.reserve = "none"
          /\ op'[s].after = after /\ ((\E k \in Kinds : sess[k].skip) => op'[s].skip)
          /\ op'[s].at \in {"handoff", "tariff"} \/ (op'[s].at = "mode" /\ ~cached)
      BY <1>3 DEF Started, ss
    <2> QED
      BY <1>1, <1>3, <2>1 DEF Starts, Apart, ss
  <1> QED
    BY <1>1, <1>2, <1>3

Others(s) == ForceSteps(s) \/ RestoreMoves(s) \/ Starts(s) \/ (\E k \in Kinds : Begins(s, k))

LEMMA LookSteps ==
  ASSUME Types, Shape, NEW s \in Slots, LookAnswer(s)
  PROVE  Others(s) \/ Bystands
  <1>1. op[s].at = "look" /\ UNCHANGED <<hw, own, cached>>
    BY DEF LookAnswer
  <1>2. op[s].kind \in Kinds /\ ~Forcing(s) /\ ~Restoring(s) /\ op[s].kind # "reserve"
    BY <1>1, LooksAre DEF Forcing, Restoring, Kinds
  <1>3. CASE Begin(s, op[s].kind, op[s].source, "")
    BY <1>1, <1>2, <1>3, BeginBegins DEF Others
  <1>4. CASE End(s) /\ UNCHANGED mishaps
    BY <1>1, <1>2, <1>4, EndBystands
  <1> QED
    BY <1>3, <1>4 DEF LookAnswer

LEMMA ReserveAnswerSteps ==
  ASSUME Types, Shape, NEW s \in Slots, ReserveAnswer(s)
  PROVE  Bystands
  <1>1. /\ op[s].kind = "reserve" /\ ~Locked /\ End(s) /\ cached' = cached
        /\ mishaps \subseteq mishaps'
        /\ \/ hw' = Landed(op[s]) /\ own' = [own EXCEPT !.reserve = "new"]
           \/ "reserve_refused" \in mishaps' /\ UNCHANGED <<hw, own>>
    BY DEF ReserveAnswer, Chance, Mishap, known
  <1>2. /\ ~Forcing(s) /\ ~Restoring(s) /\ op[s].at = "reserve" /\ op[s].goal.reserve = "new"
    BY <1>1, HandlerOf DEF Forcing, Restoring, Kinds, Placed
  <1>3. CASE hw' = Landed(op[s]) /\ own' = [own EXCEPT !.reserve = "new"]
    <2>1. Landed(op[s]) = [hw EXCEPT !.reserve = "new"]
      BY <1>2 DEF Landed
    <2>2. /\ hw'.grid = hw.grid /\ hw'.tariff = hw.tariff /\ hw'.reserve = "new"
          /\ own'.reserve = "new"
      BY <1>3, <2>1 DEF Types, GatewayTypes, Gateway
    <2> QED
      BY <1>1, <1>2, <2>2, EndBystands
  <1>4. CASE "reserve_refused" \in mishaps' /\ UNCHANGED <<hw, own>>
    BY <1>1, <1>2, <1>4, EndBystands
  <1> QED
    BY <1>1, <1>3, <1>4

LEMMA SetReserveSteps ==
  ASSUME Types, SetReserve
  PROVE  Bystands
  <1>1. UNCHANGED <<hw, own, sess, timers, disk, cached, kept>> /\ mishaps \subseteq mishaps'
    BY DEF SetReserve, Mishap, known
  <1>2. PICK s \in Slots : s = Slot /\ op[s].kind = "free"
    BY SlotIsFree DEF SetReserve
  <1> DEFINE o == [Free EXCEPT !.kind = "reserve", !.at = "reserve",
                     !.goal = [Blank EXCEPT !.reserve = "new"]]
  <1>3. o.kind = "reserve" /\ o.at = "reserve" /\ ~o.cur /\ o.after = "" /\ ~o.res
    BY DEF Free
  <1> HIDE DEF o
  <1>4. op' = [[t \in Slots |-> [op[t] EXCEPT !.res = FALSE]] EXCEPT ![s] = o]
    BY <1>2 DEF SetReserve, o
  <1>5. op'[s] = o
    BY <1>4
  <1>6. ASSUME NEW t \in Slots, t # s
        PROVE  Alone(t) /\ ~op'[t].res
    <2>1. op'[t] = [op[t] EXCEPT !.res = FALSE]
      BY <1>4, <1>6
    <2> QED
      BY <2>1, HandlerOf DEF Handlers, Alone
  <1>7. ~Forcing(s) /\ ~Restoring(s) /\ ~Forcing(s)' /\ ~Restoring(s)' /\ ReserveComes'
    BY <1>2, <1>3, <1>5 DEF Forcing, Restoring, Kinds, ReserveComes
  <1>8. \A t \in Slots : ~op'[t].res
    BY <1>3, <1>5, <1>6
  <1>9. \A t \in Slots : /\ Alone(t) \/ ~(Forcing(t) \/ Restoring(t) \/ op'[t].cur
                                          \/ op'[t].at = "pulsing" \/ op'[t].after # "")
                         /\ (Forcing(t) \/ Restoring(t))' => Forcing(t) \/ Restoring(t)
    <2> SUFFICES ASSUME NEW t \in Slots
                 PROVE  /\ Alone(t) \/ ~(Forcing(t) \/ Restoring(t) \/ op'[t].cur
                                          \/ op'[t].at = "pulsing" \/ op'[t].after # "")
                        /\ (Forcing(t) \/ Restoring(t))' => Forcing(t) \/ Restoring(t)
      OBVIOUS
    <2>1. CASE t = s
      BY <1>3, <1>5, <1>7, <2>1
    <2>2. CASE t # s
      BY <1>6, <2>2 DEF Alone, Forcing, Restoring
    <2> QED
      BY <2>1, <2>2
  <1> QED
    BY <1>1, <1>7, <1>8, <1>9 DEF Bystands

LEMMA ForceCommandSteps ==
  ASSUME Types, Shape, NEW k \in Kinds, NEW source, ForceCommand(k, source)
  PROVE  (\E s \in Slots : Others(s)) \/ Bystands
  <1>1. HasSlot /\ UNCHANGED <<hw, own, cached>>
    BY DEF ForceCommand, known
  <1>2. PICK s \in Slots : s = Slot /\ op[s].kind = "free" /\ ~Forcing(s) /\ ~Restoring(s)
    BY <1>1, FreeSlot
  <1>3. CASE Begin(s, k, source, "")
    BY <1>1, <1>2, <1>3, BeginBegins DEF Others
  <1>4. CASE /\ Go(s, [Free EXCEPT !.kind = k, !.source = source], "look")
             /\ Mishap(If(source = "optimizer", "optimizer"))
    <2> DEFINE p == [Free EXCEPT !.kind = k, !.source = source]
    <2>1. /\ p.kind = k /\ ~p.cur /\ p.after = "" /\ ~p.res
          /\ [p EXCEPT !.at = "look"].kind = p.kind /\ [p EXCEPT !.at = "look"].at = "look"
          /\ [p EXCEPT !.at = "look"].cur = p.cur /\ [p EXCEPT !.at = "look"].after = p.after
          /\ [p EXCEPT !.at = "look"].res = p.res
      BY DEF Free
    <2>2. Go(s, p, "look") /\ mishaps \subseteq mishaps'
      BY <1>4 DEF Mishap
    <2> HIDE DEF p
    <2>3. /\ Only(s) /\ op'[s] = [p EXCEPT !.at = "look"]
          /\ UNCHANGED <<sess, timers, disk, kept>>
      BY <2>2, GoIs
    <2>4. /\ ~Forcing(s)' /\ ~Restoring(s)' /\ ~op'[s].cur /\ ~op'[s].res
          /\ op'[s].at # "pulsing" /\ op'[s].after = ""
      BY <2>1, <2>3 DEF Forcing, Restoring, Kinds
    <2> QED
      BY <1>1, <1>2, <2>2, <2>3, <2>4, OneBystands
  <1> QED
    BY <1>2, <1>3, <1>4 DEF ForceCommand

LEMMA StartupSteps ==
  ASSUME Types, Shape, NEW s \in Slots, Startup(s)
  PROVE  Others(s) \/ Bystands
  <1>1. op[s].kind = "startup" /\ UNCHANGED <<hw, own, cached>>
    BY DEF Startup, known
  <1>2. ~Forcing(s) /\ ~Restoring(s) /\ op[s].kind # "reserve"
    BY <1>1 DEF Forcing, Restoring, Kinds
  <1>3. /\ \A t \in Slots \ {s} : op[t].kind = "free"
        /\ sess = Reloaded /\ ~Never({"restarted", "crash"})
    BY <1>1 DEF Shape, StartsAlone
  <1>4. Supersedes(s)
    BY <1>3 DEF Supersedes, Forcing, Restoring, Kinds
  <1>5. disk.rec.kind \in {"none"} \cup Kinds
    BY DEF Types, StoreTypes, Records
  <1>6. CASE disk.rec.kind = "none" /\ disk.pending = "none" /\ End(s) /\ UNCHANGED mishaps
    BY <1>1, <1>2, <1>6, EndBystands
  <1>7. CASE /\ disk.rec.kind = "none" /\ disk.pending # "none"
             /\ StartRestore(s, "user", 0, "", disk.pending = "skip", sess)
             /\ UNCHANGED <<disk, kept, mishaps>>
    <2> DEFINE keep == disk.pending = "skip"
    <2>1. StartRestore(s, "user", 0, "", keep, sess) /\ "" \notin Kinds
      BY <1>7 DEF Kinds
    <2> HIDE DEF keep
    <2>2. Starts(s)
      BY <1>1, <1>2, <1>3, <1>4, <1>7, <2>1, StartStarts
    <2> QED
      BY <2>2 DEF Others
  <1>8. CASE /\ disk.rec.kind # "none"
             /\ StartRestore(s, disk.rec.source, 0, "drop", FALSE, sess)
             /\ UNCHANGED <<disk, kept, mishaps>>
    <2>1. Active(sess) # {}
      BY <1>3, <1>5, <1>8, ReloadedIs
    <2> DEFINE source == disk.rec.source
    <2>2. StartRestore(s, source, 0, "drop", FALSE, sess) /\ "drop" \notin Kinds
      BY <1>8 DEF Kinds
    <2> HIDE DEF source
    <2>3. Starts(s)
      BY <1>1, <1>2, <1>3, <1>4, <1>8, <2>1, <2>2, StartStarts
    <2> QED
      BY <2>3 DEF Others
  <1>9. CASE disk.rec.kind # "none" /\ Begin(s, disk.rec.kind, "user", disk.rec.kind)
    <2> DEFINE k == disk.rec.kind
    <2>1. k \in Kinds /\ Begin(s, k, "user", k)
      BY <1>5, <1>9
    <2> HIDE DEF k
    <2>2. Begins(s, k)
      BY <1>1, <1>2, <1>3, <2>1, BeginBegins
    <2> QED
      BY <2>1, <2>2 DEF Others
  <1> QED
    BY <1>6, <1>7, <1>8, <1>9 DEF Startup

LEMMA RestoreStarts ==
  ASSUME Types, Restore
  PROVE  \E s \in Slots : Starts(s)
  <1>1. /\ HasSlot /\ UNCHANGED <<hw, own, disk, cached, kept>>
        /\ StartRestore(Slot, "user", 0, "", FALSE, sess)
        /\ Mishap(Overlaps(Slot) \cup If(Active(sess) = {}, "idle"))
    BY DEF Restore, Chance, known
  <1>2. PICK s \in Slots : s = Slot /\ op[s].kind = "free" /\ ~Forcing(s) /\ ~Restoring(s)
    BY <1>1, FreeSlot
  <1> DEFINE ms == If(Active(sess) = {}, "idle")
  <1>3. Mishap(Overlaps(s) \cup ms)
    BY <1>1, <1>2
  <1>4. mishaps \subseteq mishaps' /\ (Active(sess) # {} \/ "idle" \in mishaps')
    BY <1>3 DEF Mishap, If
  <1> HIDE DEF ms
  <1>5. Never({"overlap"})' => Supersedes(s)
    BY <1>3, OverlapsAre DEF Supersedes
  <1>6. "" \notin Kinds /\ op[s].kind # "reserve"
    BY <1>2 DEF Kinds
  <1> QED
    BY <1>1, <1>2, <1>4, <1>5, <1>6, StartStarts

\* A timer that finds no session is gone.
Lapsed == \E t \in timers :
  /\ timers' = timers \ {t} /\ IF t[2] = 0 THEN ~sess[t[1]].active ELSE Active(sess) = {}
  /\ UNCHANGED <<hw, own, sess, disk, cached, op, kept, mishaps>>

LEMMA FireSteps ==
  ASSUME Types, NEW t \in Kinds \X (0..MaxRetries), Fire(t)
  PROVE  (\E s \in Slots : Starts(s)) \/ Lapsed
  <1>1. HasSlot /\ t \in timers /\ UNCHANGED <<hw, own, disk, cached, kept>>
    BY DEF Fire, known
  <1>2. PICK s \in Slots : s = Slot /\ op[s].kind = "free" /\ ~Forcing(s) /\ ~Restoring(s)
    BY <1>1, FreeSlot
  <1>3. CASE IF t[2] = 0 THEN sess[t[1]].active ELSE Active(sess) # {}
    <2>1. /\ StartRestore(s, "user", t[2], "", FALSE, sess)
          /\ Mishap(Overlaps(s) \cup {})
      BY <1>2, <1>3 DEF Fire, Chance
    <2>2. Active(sess) # {}
      BY <1>3 DEF Active
    <2>3. Never({"overlap"})' => Supersedes(s)
      BY <2>1, OverlapsAre DEF Supersedes
    <2>4. mishaps \subseteq mishaps' /\ "" \notin Kinds /\ op[s].kind # "reserve"
      BY <1>2, <2>1 DEF Mishap, Kinds
    <2> QED
      BY <1>1, <1>2, <2>1, <2>2, <2>3, <2>4, StartStarts
  <1>4. CASE ~(IF t[2] = 0 THEN sess[t[1]].active ELSE Active(sess) # {})
    BY <1>1, <1>4 DEF Fire, Lapsed
  <1> QED
    BY <1>3, <1>4

\* Every step.
LEMMA StepsAre ==
  ASSUME Types, Shape, Next
  PROVE  (\E s \in Slots : Others(s)) \/ Bystands \/ Lapsed \/ Restart
  <1>1. ASSUME NEW s \in Slots, Answered(s)
        PROVE  Others(s) \/ Bystands
    BY <1>1, LookSteps, BaselineSteps, ChargeSteps, DischargeSteps, RestoreAnswerMoves,
       RuleRaisesSteps, NoteMoves, PulseBeginsSteps, PulseEndsSteps, ReserveAnswerSteps,
       StartupSteps DEF Answered, Others
  <1>2. ASSUME NEW s \in Slots, Starts(s) PROVE Others(s)
    BY <1>2 DEF Others
  <1> QED
    BY <1>1, <1>2, ForceCommandSteps, FireSteps, RestoreStarts, SetReserveSteps DEF Next

-----------------------------------------------------------------------------
(* What the start-up code waits for                                        *)

\* It waits only after a restart, and for no retry.
Waited == \A s \in Slots :
  /\ op[s].after # "" => ~Never({"restarted", "crash"})
  /\ op[s].after \in Kinds /\ Restoring(s) => op[s].retry = 0

\* The handlers a step does not move.
LEMMA OthersAre ==
  ASSUME Types, NEW s \in Slots, Only(s) \/ Newest(s), NEW t \in Slots, t # s
  PROVE  /\ op'[t].kind = op[t].kind /\ op'[t].at = op[t].at /\ op'[t].goal = op[t].goal
         /\ op'[t].after = op[t].after /\ op'[t].retry = op[t].retry
         /\ op'[t].res = op[t].res /\ op'[t].skip = op[t].skip
         /\ op'[t].failed = op[t].failed /\ op'[t].was = op[t].was
         /\ op'[t].cur => op[t].cur
         /\ Only(s) => op'[t].cur = op[t].cur
         /\ Newest(s) => ~op'[t].cur
         /\ Forcing(t)' <=> Forcing(t)
         /\ Restoring(t)' <=> Restoring(t)
  <1>1. op'[t] = op[t] \/ op'[t] = [op[t] EXCEPT !.cur = FALSE]
    BY DEF Only, Newest
  <1>2. LET p == [op[t] EXCEPT !.cur = FALSE] IN p.retry = op[t].retry
    BY HandlerOf DEF Handlers
  <1>3. /\ op'[t].kind = op[t].kind /\ op'[t].at = op[t].at /\ op'[t].goal = op[t].goal
        /\ op'[t].after = op[t].after /\ op'[t].retry = op[t].retry
        /\ op'[t].res = op[t].res /\ op'[t].skip = op[t].skip
        /\ op'[t].failed = op[t].failed /\ op'[t].was = op[t].was
        /\ op'[t].cur => op[t].cur
    <2>1. CASE op'[t] = op[t]
      BY <2>1
    <2>2. CASE op'[t] = [op[t] EXCEPT !.cur = FALSE]
      <3> DEFINE p == [op[t] EXCEPT !.cur = FALSE]
      <3>1. /\ ~p.cur /\ p.kind = op[t].kind /\ p.at = op[t].at /\ p.after = op[t].after
            /\ p.res = op[t].res /\ p.skip = op[t].skip /\ p.was = op[t].was
            /\ p.goal = op[t].goal /\ p.failed = op[t].failed /\ p.retry = op[t].retry
        BY <1>2, CurrentOnly
      <3>2. op'[t] = p
        BY <2>2
      <3> HIDE DEF p
      <3> QED
        BY <3>1, <3>2
    <2> QED
      BY <1>1, <2>1, <2>2
  <1>4. Only(s) => op'[t].cur = op[t].cur
    BY DEF Only
  <1>5. Newest(s) => ~op'[t].cur
    BY CurrentOnly DEF Newest
  <1> QED
    BY <1>3, <1>4, <1>5 DEF Forcing, Restoring

\* What a step does to the handler that takes it.
LEMMA MoversAre ==
  ASSUME Types, NEW s \in Slots, Others(s)
  PROVE  /\ Only(s) \/ Newest(s)
         /\ mishaps \subseteq mishaps' /\ own' = own
         /\ op'[s].after \in {"", op[s].after} \/ ~Never({"restarted", "crash"})
         /\ op'[s].after \in Kinds /\ Restoring(s)'
              => \/ op'[s].retry = 0
                 \/ Restoring(s) /\ op'[s].after = op[s].after /\ op'[s].retry = op[s].retry
  <1>1. CASE ForceGoes(s)
    BY <1>1 DEF ForceGoes, Sames, Touches, Forcing, Restoring, Kinds
  <1>2. CASE ForceEnds(s) \/ Lapses(s) \/ Runs(s)
    BY <1>2, FreeIs DEF ForceEnds, Lapses, Runs, Touches, Restoring
  <1>3. ASSUME NEW keep \in BOOLEAN, Cleans(s, keep)
        PROVE  /\ Newest(s) /\ mishaps \subseteq mishaps' /\ own' = own
               /\ op'[s].after = op[s].after /\ op'[s].retry = 0
    BY <1>3 DEF Cleans, Started, Touches
  <1>4. CASE RestoreGoes(s)
    BY <1>4 DEF RestoreGoes, GoesOn, Sames, Touches, Restoring
  <1>5. CASE RestoreEnds(s) \/ RestoreEnded(s) \/ Notes(s)
    BY <1>5, FreeIs DEF RestoreEnds, RestoreEnded, Notes, Ends, Ended, Touches, Restoring
  <1>6. CASE Starts(s)
    <2>1. Newest(s) /\ mishaps \subseteq mishaps' /\ own' = own
      BY <1>6 DEF Starts, Apart
    <2>2. op'[s].after = "" \/ ~Never({"restarted", "crash"})
      BY <1>6 DEF Starts, Apart
    <2>3. op'[s] = Free \/ op'[s].after \notin Kinds
      BY <1>6 DEF Starts
    <2>4. ~(op'[s].after \in Kinds /\ Restoring(s)')
      BY <2>3, FreeIs DEF Restoring
    <2> QED
      BY <2>1, <2>2, <2>4
  <1>7. ASSUME NEW k \in Kinds, Begins(s, k)
        PROVE  /\ Newest(s) /\ mishaps \subseteq mishaps' /\ own' = own
               /\ op'[s].after = "" \/ ~Never({"restarted", "crash"})
               /\ ~Restoring(s)'
    BY <1>7 DEF Begins, Apart, Restoring, Kinds
  <1> QED
    BY <1>1, <1>2, <1>3, <1>4, <1>5, <1>6, <1>7 DEF Others, ForceSteps, RestoreMoves

\* The handlers after a restart.
LEMMA RestartIs ==
  ASSUME Types, Restart
  PROVE  /\ sess' = Reloaded /\ timers' = {} /\ disk' = disk /\ own' = own /\ cached' = cached
         /\ kept' = (kept /\ Idle) /\ mishaps \subseteq mishaps'
         /\ \/ Idle /\ "restarted" \in mishaps' /\ hw' = hw
            \/ "crash" \in mishaps'
         /\ \A t \in Slots : /\ op'[t].kind \in {"free", "startup"} /\ op'[t].at = ""
                             /\ ~op'[t].cur /\ op'[t].after = "" /\ ~op'[t].res
                             /\ ~Forcing(t)' /\ ~Restoring(t)'
  <1>1. /\ sess' = Reloaded /\ timers' = {} /\ disk' = disk /\ own' = own /\ cached' = cached
        /\ kept' = (kept /\ Idle) /\ hw' \in Abandoned
        /\ op' = [t \in Slots |-> IF t = AnySlot THEN [Free EXCEPT !.kind = "startup"]
                                                  ELSE Free]
        /\ Mishap({IF Idle THEN "restarted" ELSE "crash"})
    BY DEF Restart, Chance, known
  <1>2. mishaps \subseteq mishaps' /\ (IF Idle THEN "restarted" ELSE "crash") \in mishaps'
    BY <1>1 DEF Mishap
  <1>3. Idle => hw' = hw
    <2>1. SUFFICES ASSUME Idle PROVE hw' = hw
      OBVIOUS
    <2>2. ASSUME NEW s \in Slots
          PROVE  Missed(op[s]) = {hw} /\ Landed(op[s]) = hw
      <3>1. op[s].at = ""
        BY <2>1, HandlerOf DEF Idle, Placed
      <3> QED
        BY <3>1 DEF Missed, Landed
    <2> QED
      BY <1>1, <2>2 DEF Abandoned
  <1>4. ASSUME NEW t \in Slots
        PROVE  /\ op'[t].kind \in {"free", "startup"} /\ op'[t].at = ""
               /\ ~op'[t].cur /\ op'[t].after = "" /\ ~op'[t].res
    <2>1. LET p == [Free EXCEPT !.kind = "startup"] IN
          p.kind = "startup" /\ p.at = "" /\ ~p.cur /\ p.after = "" /\ ~p.res
      BY DEF Free
    <2> QED
      BY <1>1, <2>1, FreeIs
  <1>5. \A t \in Slots : ~Forcing(t)' /\ ~Restoring(t)'
    BY <1>4 DEF Forcing, Restoring, Kinds
  <1> QED
    BY <1>1, <1>2, <1>3, <1>4, <1>5

LEMMA WaitedStep ==
  ASSUME Types, Shape, Waited, Next
  PROVE  Waited'
  <1>1. ASSUME NEW s \in Slots, Others(s) PROVE Waited'
    <2>1. Never({"restarted", "crash"})' => Never({"restarted", "crash"})
      BY <1>1, MoversAre, StillPlain
    <2>2. \A t \in Slots : op[t].after # "" => ~Never({"restarted", "crash"})
      BY DEF Waited
    <2>3. ASSUME NEW t \in Slots
          PROVE  /\ op'[t].after # "" => ~Never({"restarted", "crash"})
                 /\ op'[t].after \in Kinds /\ Restoring(t)' => op'[t].retry = 0
      <3>1. CASE t = s
        BY <1>1, <2>2, <3>1, MoversAre DEF Waited
      <3>2. CASE t # s
        <4>1. /\ op'[t].after = op[t].after /\ op'[t].retry = op[t].retry
              /\ Restoring(t)' <=> Restoring(t)
          BY <1>1, <3>2, MoversAre, OthersAre
        <4> QED
          BY <4>1 DEF Waited
      <3> QED
        BY <3>1, <3>2
    <2> QED
      BY <2>1, <2>3 DEF Waited
  <1>2. CASE Bystands
    <2>1. Never({"restarted", "crash"})' => Never({"restarted", "crash"})
      BY <1>2, StillPlain DEF Bystands
    <2>2. ASSUME NEW t \in Slots
          PROVE  /\ op'[t].after # "" => ~Never({"restarted", "crash"})
                 /\ op'[t].after \in Kinds /\ Restoring(t)' => op'[t].retry = 0
      <3>1. CASE Alone(t)
        BY <3>1 DEF Alone, Waited, Restoring
      <3>2. CASE op'[t].after = ""
        BY <3>2 DEF Kinds
      <3> QED
        BY <1>2, <3>1, <3>2 DEF Bystands
    <2> QED
      BY <2>1, <2>2 DEF Waited
  <1>3. CASE Lapsed
    BY <1>3 DEF Lapsed, Waited, Restoring, Never
  <1>4. CASE Restart
    BY <1>4, RestartIs DEF Waited
  <1> QED
    BY <1>1, <1>2, <1>3, <1>4, StepsAre

-----------------------------------------------------------------------------
(* A session that runs                                                     *)

Forced(k) == hw.tariff = k /\ hw.grid = ForceGoal(k).grid

Clean == /\ Never({"overlap", "overtaken"})
         /\ Never({"restarted", "crash"}) \/ Never({"raised"})

\* No timer is armed while a handler writes.
NoTimers == (\E s \in Slots : Forcing(s) \/ Restoring(s)) => timers = {}

\* What a force command has written.
HasForced(s) == Forcing(s) =>
  /\ GridForced(op[s]) => hw.grid = ForceGoal(op[s].kind).grid
  /\ op[s].at \in {"pulse", "pulsing"} => hw.tariff = op[s].kind

\* A session with an expiry is what the gateway does, unless a restore has failed.
Expires == \A k \in Kinds :
  sess[k].active /\ <<k, 0>> \in timers => Forced(k) \/ \E t \in timers : t[2] # 0

Timed == NoTimers /\ Expires /\ \A s \in Slots : HasForced(s)

\* Then one handler writes at a time.
LEMMA CleanIsAlone ==
  ASSUME Types, Shape, Lane, Clean, NEW s \in Slots, Forcing(s) \/ Restoring(s)
  PROVE  op[s].cur /\ \A t \in Slots \ {s} : ~Forcing(t) /\ ~Restoring(t)
  <1>1. "overtaken" \notin mishaps
    BY DEF Clean, Never
  <1>2. \A t \in Slots : Restoring(t) => op[t].cur
    BY <1>1 DEF Lane, ForcesAlone
  <1>3. CASE Forcing(s)
    BY <1>2, <1>3, ForceIsAlone
  <1>4. CASE Restoring(s)
    <2>1. op[s].cur
      BY <1>2, <1>4
    <2> QED
      BY <1>2, <1>4, <2>1, RestoreIsAlone
  <1> QED
    BY <1>3, <1>4

\* A step of the only handler that writes leaves none, or one.
LEMMA TimedQuiet ==
  ASSUME Types, NEW s \in Slots, Only(s) \/ Newest(s), ~Forcing(s)',
         \A t \in Slots \ {s} : ~Forcing(t)
  PROVE  \A t \in Slots : HasForced(t)'
  <1>1. \A t \in Slots : ~Forcing(t)'
    BY OthersAre
  <1> QED
    BY <1>1 DEF HasForced

LEMMA TimedForces ==
  ASSUME Types, Shape, Lane, Clean, Timed, NEW s \in Slots, ForceSteps(s)
  PROVE  Timed'
  <1>1. Forcing(s)
    BY FreshForces DEF ForceSteps, ForceGoes, ForceEnds, Lapses, Runs, Cleans
  <1> DEFINE k == op[s].kind
  <1>2. /\ k \in Kinds /\ op[s].cur /\ sess[k].active
        /\ \A t \in Slots \ {s} : ~Forcing(t) /\ ~Restoring(t)
    BY <1>1, CleanIsAlone, ForceIsAlone
  <1>3. timers = {} /\ HasForced(s)
    BY <1>1 DEF Timed, NoTimers
  <1>4. \A j \in Kinds : sess[j].active => j = k
    BY <1>2 DEF Lane, OneSession, Kinds
  <1>5. ASSUME Only(s), op'[s] = Free
        PROVE  NoTimers' /\ \A t \in Slots : HasForced(t)'
    <2>1. ~Forcing(s)' /\ ~Restoring(s)'
      BY <1>5, FreeIs DEF Forcing, Restoring, Kinds
    <2>2. \A t \in Slots : ~Forcing(t)' /\ ~Restoring(t)'
      BY <1>2, <1>5, <2>1, OthersAre
    <2> QED
      BY <2>2 DEF NoTimers, HasForced
  <1>6. CASE ForceGoes(s)
    <2>1. timers' = {} /\ Only(s) /\ op'[s].kind = k
      BY <1>3, <1>6 DEF ForceGoes, Sames
    <2>2. HasForced(s)'
      <3>1. GridForced(op'[s]) => hw'.grid = ForceGoal(k).grid
        BY <1>1, <1>3, <1>6 DEF ForceGoes, Touches, HasForced
      <3>2. op'[s].at \in {"pulse", "pulsing"} => hw'.tariff = k
        BY <1>1, <1>3, <1>6 DEF ForceGoes, Touches, HasForced
      <3> QED
        BY <2>1, <3>1, <3>2 DEF HasForced, GridForced
    <2>3. \A t \in Slots : HasForced(t)'
      <3>1. \A t \in Slots \ {s} : ~Forcing(t)'
        BY <1>2, <2>1, OthersAre
      <3> QED
        BY <2>2, <3>1 DEF HasForced
    <2> QED
      BY <2>1, <2>3 DEF Timed, NoTimers, Expires
  <1>7. CASE ForceEnds(s)
    BY <1>2, <1>7 DEF ForceEnds
  <1>8. CASE Lapses(s)
    <2>1. \A j \in Kinds : ~sess'[j].active
      BY <1>4, <1>8 DEF Lapses
    <2> QED
      BY <1>5, <1>8, <2>1 DEF Timed, Expires, Lapses
  <1>9. CASE Runs(s)
    <2>1. /\ \A j \in Kinds \ {k} : sess'[j] = sess[j]
          /\ hw'.grid = hw.grid /\ hw'.tariff = hw.tariff /\ op[s].at = "pulsing"
      BY <1>1, <1>9, SucceedingIs DEF Runs, Touches
    <2>2. hw'.grid = ForceGoal(k).grid /\ hw'.tariff = k
      BY <1>1, <1>3, <2>1 DEF HasForced, GridForced
    <2>3. \A j \in Kinds : sess'[j].active => j = k
      BY <1>4, <2>1
    <2>4. Expires'
      <3>1. SUFFICES ASSUME NEW j \in Kinds, sess'[j].active
                     PROVE  Forced(j)'
        BY DEF Expires
      <3>2. j = k
        BY <2>3, <3>1
      <3> HIDE DEF k
      <3> QED
        BY <2>2, <3>2 DEF Forced
    <2> QED
      BY <1>5, <1>9, <2>4 DEF Timed, Runs
  <1>10. ASSUME NEW keep \in BOOLEAN, Cleans(s, keep) PROVE Timed'
    <2>1. timers' = {} /\ Newest(s) /\ op'[s].kind = "restore"
      BY <1>10 DEF Cleans, Started
    <2>2. ~Forcing(s)'
      BY <2>1 DEF Forcing, Kinds
    <2> QED
      BY <1>2, <2>1, <2>2, TimedQuiet DEF Timed, NoTimers, Expires
  <1> QED
    BY <1>6, <1>7, <1>8, <1>9, <1>10 DEF ForceSteps

LEMMA TimedRestores ==
  ASSUME Types, Shape, Lane, Clean, Clean', Waited, Timed, NEW s \in Slots, RestoreMoves(s)
  PROVE  Timed'
  <1>1. Restoring(s)
    BY DEF RestoreMoves, RestoreGoes, RestoreEnds, RestoreEnded, Notes
  <1>2. op[s].cur /\ \A t \in Slots \ {s} : ~Forcing(t) /\ ~Restoring(t)
    BY <1>1, CleanIsAlone
  <1>3. timers = {}
    BY <1>1 DEF Timed, NoTimers
  <1>4. Only(s) /\ (op'[s].kind = "restore" \/ op'[s] = Free)
    BY <1>1 DEF RestoreMoves, RestoreGoes, RestoreEnds, RestoreEnded, Notes, GoesOn, Sames, Ends,
       Ended, Restoring
  <1>5. \A t \in Slots : HasForced(t)'
    <2>1. ~Forcing(s)'
      BY <1>4, FreeIs DEF Forcing, Kinds
    <2> QED
      BY <1>2, <1>4, <2>1, TimedQuiet
  <1>6. op'[s] = Free => NoTimers'
    <2>1. SUFFICES ASSUME op'[s] = Free PROVE NoTimers'
      OBVIOUS
    <2>2. ~Forcing(s)' /\ ~Restoring(s)'
      BY <2>1, FreeIs DEF Forcing, Restoring, Kinds
    <2>3. \A t \in Slots : ~Forcing(t)' /\ ~Restoring(t)'
      BY <1>2, <1>4, <2>2, OthersAre
    <2> QED
      BY <2>3 DEF NoTimers
  <1>7. timers' = {} => Timed'
    BY <1>5 DEF Timed, NoTimers, Expires
  <1>8. CASE RestoreGoes(s)
    BY <1>3, <1>7, <1>8 DEF RestoreGoes, GoesOn
  <1>9. CASE RestoreEnds(s)
    <2>1. "raised" \in mishaps' /\ mishaps \subseteq mishaps'
      BY <1>2, <1>9 DEF RestoreEnds, Touches
    <2>2. Never({"restarted", "crash"})
      BY <2>1 DEF Clean, Never
    <2>3. op[s].after = ""
      BY <2>2 DEF Waited
    <2> QED
      BY <1>3, <1>7, <1>9, <2>3 DEF RestoreEnds, Ends, Kinds
  <1>10. CASE RestoreEnded(s)
    <2>1. op'[s] = Free /\ sess' = Cleared
      BY <1>10 DEF RestoreEnded, Ended
    <2>2. \A k \in Kinds : ~sess'[k].active
      BY <2>1 DEF Cleared, NoSession
    <2> QED
      BY <1>5, <1>6, <2>1, <2>2 DEF Timed, Expires
  <1>11. CASE Notes(s)
    <2>1. CASE \E t \in timers' : t[2] # 0
      BY <1>5, <1>6, <1>11, <2>1 DEF Timed, Expires, Notes
    <2>2. CASE /\ ~Retries(op[s])
               /\ timers' = IF op[s].after \in Kinds THEN timers \cup {<<op[s].after, 0>>}
                                                     ELSE timers
      <3>1. op[s].after \notin Kinds
        BY <1>1, <2>2, FailuresAreRetried DEF Waited, Retries
      <3> QED
        BY <1>3, <1>7, <2>2, <3>1
    <2> QED
      BY <1>11, <2>1, <2>2 DEF Notes
  <1> QED
    BY <1>8, <1>9, <1>10, <1>11 DEF RestoreMoves

LEMMA TimedStep ==
  ASSUME Inv, Waited, Clean => Timed, Next
  PROVE  Clean' => Timed'
  <1> SUFFICES ASSUME Clean' PROVE Timed'
    OBVIOUS
  <1>1. Types /\ Shape
    BY DEF Inv
  <1>2. ASSUME mishaps \subseteq mishaps'
        PROVE  Lane /\ Clean /\ Timed /\ Never({"overlap"})'
    BY <1>2 DEF Clean, Never, Inv
  <1>3. ASSUME NEW s \in Slots, Others(s) PROVE Timed'
    <2>1. Lane /\ Clean /\ Timed /\ Never({"overlap"})'
      BY <1>1, <1>2, <1>3, MoversAre
    <2>2. CASE ForceSteps(s)
      BY <1>1, <2>1, <2>2, TimedForces
    <2>3. CASE RestoreMoves(s)
      BY <1>1, <2>1, <2>3, TimedRestores
    <2>4. CASE Starts(s)
      <3>1. Newest(s) /\ timers' = {} /\ Supersedes(s) /\ (op'[s] = Free \/ op'[s].kind = "restore")
        BY <2>1, <2>4 DEF Starts, Apart
      <3>2. ~Forcing(s)'
        BY <3>1, FreeIs DEF Forcing, Kinds
      <3> QED
        BY <1>1, <3>1, <3>2, TimedQuiet DEF Supersedes, Timed, NoTimers, Expires
    <2>5. ASSUME NEW k \in Kinds, Begins(s, k) PROVE Timed'
      <3>1. /\ Newest(s) /\ timers' = {} /\ Supersedes(s)
            /\ op'[s].kind = k /\ op'[s].at = First(k)
        BY <2>1, <2>5 DEF Begins, Apart
      <3>2. HasForced(s)'
        BY <3>1 DEF HasForced, GridForced, First, Kinds
      <3>3. \A t \in Slots \ {s} : ~Forcing(t)'
        BY <1>1, <3>1, OthersAre DEF Supersedes
      <3>4. \A t \in Slots : HasForced(t)'
        BY <3>2, <3>3 DEF HasForced
      <3> QED
        BY <3>1, <3>4 DEF Timed, NoTimers, Expires
    <2> QED
      BY <1>3, <2>2, <2>3, <2>4, <2>5 DEF Others
  <1>4. CASE Bystands
    <2>1. Timed
      BY <1>2, <1>4 DEF Bystands
    <2>2. NoTimers'
      BY <1>4, <2>1 DEF Bystands, Timed, NoTimers, Forcing, Restoring
    <2>3. Expires'
      BY <1>4, <2>1 DEF Bystands, Timed, Expires, Forced
    <2>4. ASSUME NEW t \in Slots, Forcing(t)' PROVE HasForced(t)'
      <3>1. Alone(t)
        BY <1>4, <2>4 DEF Bystands
      <3>2. HasForced(t) /\ hw'.grid = hw.grid /\ hw'.tariff = hw.tariff
        BY <1>4, <2>1 DEF Timed, Bystands
      <3> QED
        BY <3>1, <3>2 DEF HasForced, Alone, GridForced, Forcing
    <2> QED
      BY <2>2, <2>3, <2>4 DEF Timed, HasForced
  <1>5. CASE Lapsed
    <2>1. Timed
      BY <1>2, <1>5 DEF Lapsed
    <2>2. PICK t \in timers :
            /\ timers' = timers \ {t}
            /\ IF t[2] = 0 THEN ~sess[t[1]].active ELSE Active(sess) = {}
            /\ UNCHANGED <<hw, own, sess, disk, cached, op, kept, mishaps>>
      BY <1>5 DEF Lapsed
    <2>3. \A s \in Slots : ~Forcing(s) /\ ~Restoring(s)
      BY <2>1, <2>2 DEF Timed, NoTimers
    <2>4. \A s \in Slots : ~Forcing(s)' /\ ~Restoring(s)'
      BY <2>2, <2>3 DEF Forcing, Restoring
    <2>5. ASSUME NEW k \in Kinds, sess'[k].active, <<k, 0>> \in timers'
          PROVE  Forced(k)' \/ \E u \in timers' : u[2] # 0
      <3>1. Forced(k) \/ \E u \in timers : u[2] # 0
        BY <2>1, <2>2, <2>5 DEF Timed, Expires
      <3>2. t[2] = 0
        BY <2>2, <2>5 DEF Active
      <3> QED
        BY <2>2, <3>1, <3>2 DEF Forced
    <2> QED
      BY <2>4, <2>5 DEF Timed, NoTimers, Expires, HasForced
  <1>6. CASE Restart
    BY <1>1, <1>6, RestartIs DEF Timed, NoTimers, Expires, HasForced
  <1> QED
    BY <1>1, <1>3, <1>4, <1>5, <1>6, StepsAre

\* Nothing waits and no timer is armed at first.
LEMMA InitTimed == Init => Waited /\ Timed
  <1> SUFFICES ASSUME Init PROVE Waited /\ Timed
    OBVIOUS
  <1>1. \A s \in Slots : op[s] = Free
    BY DEF Init
  <1>2. \A s \in Slots : ~Forcing(s) /\ ~Restoring(s) /\ op[s].after = ""
    BY <1>1, FreeIs DEF Forcing, Restoring, Kinds
  <1>3. timers = {}
    BY DEF Init
  <1>4. \A s \in Slots : op[s].after \notin Kinds
    BY <1>2 DEF Kinds
  <1> QED
    BY <1>2, <1>3, <1>4 DEF Waited, Timed, NoTimers, Expires, HasForced

\* A session that waits for its expiry only is what the gateway does.
THEOREM RunningCorrect == Spec => []RunningIsForced
  <1> DEFINE IInv == Inv /\ Waited /\ (Clean => Timed)
  <1>1. Init => IInv
    BY InitInv, InitTimed
  <1>2. IInv /\ [Next]_vars => IInv'
    <2>1. ASSUME IInv, Next PROVE IInv'
      <3>1. Types /\ Shape
        BY <2>1 DEF Inv
      <3> QED
        BY <2>1, <3>1, NextInv, WaitedStep, TimedStep
    <2>2. ASSUME IInv, UNCHANGED vars PROVE IInv'
      <3>1. Inv'
        BY <2>2, NextInv
      <3>2. /\ op' = op /\ timers' = timers /\ mishaps' = mishaps /\ sess' = sess /\ hw' = hw
        BY <2>2 DEF vars
      <3> QED
        BY <2>2, <3>1, <3>2 DEF Waited, Clean, Timed, NoTimers, Expires, HasForced, GridForced,
           Forced, Forcing, Restoring, Never
    <2> QED
      BY <2>1, <2>2
  <1>3. IInv => RunningIsForced
    <2> SUFFICES ASSUME IInv, NEW k \in Kinds, Idle, sess[k].active, timers = {<<k, 0>>},
                        Never({"overlap", "overtaken"}),
                        Never({"restarted", "crash"}) \/ Never({"raised"})
                 PROVE  hw.tariff = k /\ hw.grid = ForceGoal(k).grid
      BY DEF RunningIsForced
    <2>1. Expires
      BY DEF Clean, Timed
    <2>2. <<k, 0>> \in timers /\ \A t \in timers : t[2] = 0
      OBVIOUS
    <2>3. Forced(k)
      BY <2>1, <2>2 DEF Expires
    <2> QED
      BY <2>3 DEF Forced
  <1> QED
    BY <1>1, <1>2, <1>3, PTL DEF Spec

-----------------------------------------------------------------------------
(* A gateway that is not the user's                                        *)

Orderly == /\ Never({"overlap", "crash", "unread"})
           /\ Never({"restarted"}) \/ Never({"overtaken", "raised"})

\* Whoever may need the user's tariff finds it.
TariffNeeded ==
  \/ ~Before \/ disk.rec.kind # "none" \/ hw.tariff # "own"
  \/ \E s \in Slots : Restoring(s) \/ (Forcing(s) /\ op[s].at = "rule")
TariffKnown == TariffNeeded => cached

\* A restore that has not failed has written it back before the other settings.
TariffBack == \A s \in Slots :
  /\ Restoring(s) /\ op[s].cur /\ ~op[s].failed
  /\ op[s].at \in {"mode", "rule", "grid", "pulse", "pulsing"}
  => hw.tariff = "own"

\* A tariff that is not the user's is on the disk, or a force command has it.
TariffNoted ==
  hw.tariff # "own" => \/ disk.rec.kind # "none" \/ disk.pending # "none"
                       \/ \E s \in Slots : Forcing(s) /\ ~Fresh(s)

Watched == TariffKnown /\ TariffBack /\ TariffNoted

LEMMA OrderlyBefore ==
  ASSUME mishaps \subseteq mishaps', Orderly'
  PROVE  Orderly /\ Never({"overlap"})' /\ Never({"overlap"})
  BY DEF Orderly, Never

\* A force command that has written a setting knows the tariff.
LEMMA ForceKnows ==
  ASSUME Types, Shape, Lane, TariffKnown, NEW s \in Slots, Forcing(s), op[s].at # "baseline"
  PROVE  cached
  <1>1. CASE op[s].at = "rule"
    BY <1>1 DEF TariffKnown, TariffNeeded
  <1>2. CASE op[s].at # "rule"
    <2>1. ~Fresh(s)
      BY <1>2 DEF Fresh
    <2>2. ~Before
      BY <2>1, ForceIsAlone
    <2> QED
      BY <2>2 DEF TariffKnown, TariffNeeded
  <1> QED
    BY <1>1, <1>2

LEMMA WatchedForces ==
  ASSUME Types, Shape, Lane, Watched, Orderly', NEW s \in Slots, ForceSteps(s)
  PROVE  Watched'
  <1>1. Forcing(s) /\ ~Restoring(s)
    BY FreshForces
       DEF ForceSteps, ForceGoes, ForceEnds, Lapses, Runs, Cleans, Forcing, Restoring, Kinds
  <1>2. /\ op[s].cur /\ op[s].kind \in Kinds
        /\ \A t \in Slots \ {s} : ~Forcing(t) /\ ~op[t].cur /\ ~Fresh(t)
        /\ ~Fresh(s) => ~Before
    BY <1>1, ForceIsAlone
  <1>3. ASSUME NEW t \in Slots \ {s}, Only(s) \/ Newest(s)
        PROVE  ~op'[t].cur /\ ~Forcing(t)' /\ (Restoring(t)' <=> Restoring(t))
    <2>1. op'[t].cur => op[t].cur
      BY <1>3, OthersAre
    <2> QED
      BY <1>2, <1>3, <2>1, OthersAre
  <1>4. CASE ForceGoes(s)
    <2>1. /\ Only(s) /\ Touches(s) /\ Sames(op'[s], op[s]) /\ disk' = disk
          /\ Forcing(s)' /\ (cached => cached')
      BY <1>4 DEF ForceGoes
    <2>2. cached'
      <3>1. CASE op[s].at # "baseline"
        BY <1>1, <2>1, <3>1, ForceKnows DEF Watched
      <3>2. CASE op[s].at = "baseline" /\ hw.tariff = "own"
        BY <1>4, <3>2 DEF ForceGoes, Orderly, Never
      <3>3. CASE hw.tariff # "own"
        BY <2>1, <3>3 DEF Watched, TariffKnown, TariffNeeded
      <3> QED
        BY <3>1, <3>2, <3>3
    <2>3. TariffBack'
      <3>1. ~Restoring(s)'
        BY <2>1 DEF Forcing, Restoring, Kinds
      <3> QED
        BY <1>3, <2>1, <3>1 DEF TariffBack
    <2>4. ~Fresh(s) => ~Fresh(s)'
      BY <1>4, <2>1 DEF ForceGoes, Fresh
    <2>5. TariffNoted'
      <3>1. CASE hw.tariff # "own"
        <4>1. \/ disk.rec.kind # "none" \/ disk.pending # "none"
              \/ ~Fresh(s)
          BY <1>2, <3>1 DEF Watched, TariffNoted
        <4> QED
          BY <2>1, <2>4, <4>1 DEF TariffNoted
      <3>2. CASE hw.tariff = "own"
        <4>1. hw'.tariff # "own" => op[s].at = "tariff"
          BY <2>1, <3>2 DEF Touches
        <4>2. op[s].at = "tariff" => ~Fresh(s)
          BY DEF Fresh
        <4> QED
          BY <2>1, <2>4, <4>1, <4>2 DEF TariffNoted
      <3> QED
        BY <3>1, <3>2
    <2> QED
      BY <2>2, <2>3, <2>5 DEF Watched, TariffKnown
  <1>5. CASE ForceEnds(s)
    BY <1>2, <1>5 DEF ForceEnds
  <1>6. CASE Lapses(s)
    <2>1. Only(s) /\ op'[s] = Free /\ Fresh(s) /\ hw' = hw /\ disk' = disk /\ cached' = cached
      BY <1>6 DEF Lapses
    <2>2. ~Forcing(s)' /\ ~Restoring(s)' /\ ~op'[s].cur
      BY <2>1, FreeIs DEF Forcing, Restoring, Kinds
    <2>3. Before'
      <3>1. \A k \in Kinds : ~sess'[k].active
        BY <1>1, <1>6, ForceIsAlone DEF Lapses, Lane, OneSession, Kinds
      <3> QED
        BY <3>1 DEF Before, Active
    <2>4. TariffKnown'
      BY <1>3, <2>1, <2>2, <2>3 DEF Watched, TariffKnown, TariffNeeded
    <2>5. TariffBack'
      BY <1>3, <2>1, <2>2 DEF TariffBack
    <2>6. TariffNoted'
      BY <1>2, <2>1 DEF Watched, TariffNoted
    <2> QED
      BY <2>4, <2>5, <2>6 DEF Watched
  <1>7. CASE Runs(s)
    <2>1. /\ Only(s) /\ op'[s] = Free /\ cached' = cached /\ op[s].at = "pulsing"
          /\ disk' = Recorded(Succeeding(s))
      BY <1>7 DEF Runs
    <2>2. ~Forcing(s)' /\ ~Restoring(s)' /\ ~op'[s].cur
      BY <2>1, FreeIs DEF Forcing, Restoring, Kinds
    <2>3. cached
      BY <1>1, <2>1, ForceKnows DEF Watched
    <2>4. Active(Succeeding(s)) # {} /\ Succeeding(s) \in [Kinds -> Sessions]
      BY <1>1, <1>2, SucceedingIs, ForceIsAlone DEF Alike, Active
    <2>5. disk'.rec.kind # "none"
      <3>1. disk'.rec = Record(Succeeding(s))
        BY <2>1 DEF Recorded, Types, StoreTypes
      <3>2. RecordIs(Succeeding(s), Record(Succeeding(s)))
        BY <2>4, RecordIsOf
      <3> QED
        BY <2>4, <3>1, <3>2 DEF RecordIs, Active, Kinds
    <2> QED
      BY <1>3, <2>1, <2>2, <2>3, <2>5 DEF Watched, TariffKnown, TariffBack, TariffNoted
  <1>8. ASSUME NEW keep \in BOOLEAN, Cleans(s, keep) PROVE Watched'
    <2> DEFINE ss == Failing(s, keep)
    <2>1. /\ Newest(s) /\ cached' = cached /\ op[s].at # "baseline"
          /\ disk' = Recorded(ss) /\ Started(s, "user", 0, op[s].after, keep, ss)
      BY <1>8 DEF Cleans
    <2>2. cached
      BY <1>1, <2>1, ForceKnows DEF Watched
    <2>3. ss \in [Kinds -> Sessions] /\ Active(ss) # {}
      BY <1>1, FailingIs
    <2> HIDE DEF ss
    <2>4. op'[s].at = "handoff"
      BY <2>1, <2>3 DEF Started
    <2>5. disk'.rec.kind # "none"
      <3>1. disk'.rec = Record(ss)
        BY <2>1 DEF Recorded, Types, StoreTypes
      <3>2. RecordIs(ss, Record(ss))
        BY <2>3, RecordIsOf
      <3> QED
        BY <2>3, <3>1, <3>2 DEF RecordIs, Active, Kinds
    <2> QED
      BY <1>3, <2>1, <2>2, <2>4, <2>5 DEF Watched, TariffKnown, TariffBack, TariffNoted
  <1> QED
    BY <1>4, <1>5, <1>6, <1>7, <1>8 DEF ForceSteps

LEMMA WatchedRestores ==
  ASSUME Types, Shape, Lane, Waited, Watched, Orderly, Orderly', NEW s \in Slots, RestoreMoves(s)
  PROVE  Watched'
  <1>1. Restoring(s) /\ ~Forcing(s)
    BY DEF RestoreMoves, RestoreGoes, RestoreEnds, RestoreEnded, Notes, Restoring, Forcing, Kinds
  <1>2. cached /\ cached' = cached
    BY <1>1 DEF Watched, TariffKnown, TariffNeeded, RestoreMoves, RestoreGoes, RestoreEnds,
       RestoreEnded, Notes
  <1>3. TariffKnown'
    BY <1>2 DEF TariffKnown
  <1>4. Only(s)
    BY DEF RestoreMoves, RestoreGoes, RestoreEnds, RestoreEnded, Notes, GoesOn, Ends, Ended
  <1>5. op'[s].kind = "restore" \/ op'[s] = Free
    BY <1>1 DEF RestoreMoves, RestoreGoes, RestoreEnds, RestoreEnded, Notes, GoesOn, Sames, Ends,
       Ended, Restoring
  <1>6. \A t \in Slots : Forcing(t) /\ ~Fresh(t) => Forcing(t)' /\ ~Fresh(t)'
    <2>1. SUFFICES ASSUME NEW t \in Slots, Forcing(t), ~Fresh(t) PROVE Forcing(t)' /\ ~Fresh(t)'
      OBVIOUS
    <2>2. t # s
      BY <1>1, <2>1
    <2>3. op'[t].kind = op[t].kind /\ op'[t].at = op[t].at
      BY <1>4, <2>2, OthersAre
    <2> QED
      BY <2>1, <2>3 DEF Forcing, Fresh
  <1>7. hw'.tariff # "own" => hw.tariff # "own"
    BY <1>1 DEF RestoreMoves, RestoreGoes, RestoreEnds, RestoreEnded, Notes, Touches
  <1>8. disk'.rec.kind = disk.rec.kind /\ disk'.pending = disk.pending => TariffNoted'
    BY <1>6, <1>7 DEF Watched, TariffNoted
  <1>9. ASSUME NEW t \in Slots \ {s}, Restoring(t)', op'[t].cur, ~op'[t].failed,
               op'[t].at \in {"mode", "rule", "grid", "pulse", "pulsing"}
        PROVE  hw'.tariff = "own"
    <2>1. /\ Restoring(t) /\ op[t].cur /\ ~op[t].failed
          /\ op[t].at \in {"mode", "rule", "grid", "pulse", "pulsing"}
      BY <1>4, <1>9, OthersAre
    <2> QED
      BY <1>7, <2>1 DEF Watched, TariffBack
  <1>10. op'[s] = Free => TariffBack'
    BY <1>9, FreeIs DEF TariffBack, Restoring
  <1>11. CASE RestoreGoes(s)
    <2>1. TariffNoted'
      BY <1>8, <1>11 DEF RestoreGoes, GoesOn
    <2>2. TariffBack'
      <3>1. SUFFICES ASSUME op'[s].cur, ~op'[s].failed,
                            op'[s].at \in {"mode", "rule", "grid", "pulse", "pulsing"}
                     PROVE  hw'.tariff = "own"
        BY <1>9 DEF TariffBack
      <3>2. op[s].cur
        BY <1>11, <3>1 DEF RestoreGoes, GoesOn, Sames
      <3>3. CASE hw'.tariff = "own"
        BY <3>3
      <3>4. CASE op[s].at \in {"mode", "rule", "grid", "pulse"} /\ ~op[s].failed
        BY <1>1, <1>7, <3>2, <3>4 DEF Watched, TariffBack
      <3> QED
        BY <1>2, <1>11, <3>1, <3>3, <3>4 DEF RestoreGoes
    <2> QED
      BY <1>3, <2>1, <2>2 DEF Watched
  <1>12. CASE RestoreEnds(s)
    <2>1. op'[s] = Free /\ disk'.pending = disk.pending
          /\ disk'.rec = IF op[s].after = "drop" THEN NoRecord ELSE disk.rec
      BY <1>12 DEF RestoreEnds, Ends
    <2>2. mishaps \subseteq mishaps' /\ (~op[s].cur \/ "raised" \in mishaps')
      BY <1>12 DEF RestoreEnds, Touches
    <2>3. op[s].after # "drop"
      <3>1. SUFFICES ASSUME op[s].after = "drop" PROVE FALSE
        OBVIOUS
      <3>2. "restarted" \in mishaps
        BY <3>1 DEF Waited, Orderly, Never
      <3>3. "overtaken" \notin mishaps /\ "raised" \notin mishaps'
        BY <2>2, <3>2 DEF Orderly, Never
      <3>4. op[s].cur
        BY <1>1, <3>3 DEF Lane, ForcesAlone
      <3> QED
        BY <2>2, <3>3, <3>4
    <2> QED
      BY <1>3, <1>8, <1>10, <2>1, <2>3 DEF Watched
  <1>13. CASE RestoreEnded(s)
    <2>1. op'[s] = Free
      BY <1>13 DEF RestoreEnded, Ended
    <2>2. hw.tariff = "own"
      BY <1>13 DEF RestoreEnded, Watched, TariffBack
    <2>3. TariffNoted'
      BY <1>7, <2>2 DEF TariffNoted
    <2> QED
      BY <1>3, <1>10, <2>1, <2>3 DEF Watched
  <1>14. CASE Notes(s)
    <2>1. TariffNoted'
      BY <1>14 DEF Notes, TariffNoted
    <2> QED
      BY <1>3, <1>10, <1>14, <2>1 DEF Watched, Notes
  <1> QED
    BY <1>11, <1>12, <1>13, <1>14 DEF RestoreMoves

LEMMA WatchedStarts ==
  ASSUME Types, Shape, Lane, Watched, Orderly, Orderly', NEW s \in Slots,
         Starts(s) \/ \E k \in Kinds : Begins(s, k)
  PROVE  Watched'
  <1>1. /\ ~Forcing(s) /\ ~Restoring(s) /\ Newest(s) /\ hw' = hw /\ disk' = disk
        /\ cached' = cached /\ Supersedes(s)
    BY DEF Starts, Begins, Apart, Orderly, Never
  <1>2. \A t \in Slots : ~Forcing(t) /\ ~Fresh(t)
    BY <1>1, FreshForces DEF Supersedes
  <1>3. ASSUME NEW t \in Slots \ {s}
        PROVE  ~op'[t].cur /\ ~Forcing(t)' /\ (Restoring(t)' <=> Restoring(t))
    BY <1>1, <1>2, OthersAre
  <1>4. Active(sess) # {} => cached
    BY <1>2 DEF Watched, TariffKnown, TariffNeeded, Before
  <1>5. TariffNoted'
    BY <1>1, <1>2 DEF Watched, TariffNoted
  <1>6. CASE Starts(s)
    <2>1. CASE op'[s] = Free
      <3>1. ~Forcing(s)' /\ ~Restoring(s)' /\ ~op'[s].cur
        BY <2>1, FreeIs DEF Forcing, Restoring, Kinds
      <3>2. Active(sess) = {} => Before'
        BY <1>6 DEF Before, Starts
      <3>3. TariffKnown'
        BY <1>1, <1>3, <1>4, <3>1, <3>2 DEF Watched, TariffKnown, TariffNeeded
      <3> QED
        BY <1>3, <1>5, <3>1, <3>3 DEF Watched, TariffBack
    <2>2. CASE op'[s] # Free
      <3>1. cached
        <4>1. CASE Active(sess) = {}
          <5>1. \A k \in Kinds : sess[k].saved = Blank
            BY <4>1 DEF Lane, OneSession, Active
          <5>2. \A k \in Kinds : \A f \in {"mode", "reserve", "grid"} : sess[k].saved[f] = "none"
            BY <5>1 DEF Blank
          <5> QED
            BY <1>6, <2>2, <4>1, <5>2 DEF Starts, NothingToRestore
        <4> QED
          BY <1>4, <4>1
      <3>2. op'[s].at \in {"handoff", "tariff"}
        BY <1>6, <2>2, <3>1 DEF Starts
      <3> QED
        BY <1>1, <1>3, <1>5, <3>1, <3>2 DEF Watched, TariffKnown, TariffBack
    <2> QED
      BY <2>1, <2>2
  <1>7. ASSUME NEW k \in Kinds, Begins(s, k) PROVE Watched'
    <2>1. op'[s].kind = k /\ op'[s].at = First(k)
      BY <1>7 DEF Begins
    <2>2. ~Restoring(s)' /\ op'[s].at # "rule"
      BY <2>1 DEF Restoring, Kinds, First
    <2>3. TariffBack'
      BY <1>3, <2>2 DEF TariffBack
    <2>4. CASE Active(sess) = {}
      <3>1. Before'
        BY <2>1, <2>4 DEF First, Before, Fresh
      <3>2. TariffKnown'
        BY <1>1, <1>3, <2>2, <3>1 DEF Watched, TariffKnown, TariffNeeded
      <3> QED
        BY <1>5, <2>3, <3>2 DEF Watched
    <2>5. CASE Active(sess) # {}
      BY <1>1, <1>4, <1>5, <2>3, <2>5 DEF Watched, TariffKnown
    <2> QED
      BY <2>4, <2>5
  <1> QED
    BY <1>6, <1>7

LEMMA WatchedStep ==
  ASSUME Inv, Waited, Orderly => Watched, Next
  PROVE  Orderly' => Watched'
  <1> SUFFICES ASSUME Orderly' PROVE Watched'
    OBVIOUS
  <1>1. Types /\ Shape
    BY DEF Inv
  <1>2. ASSUME mishaps \subseteq mishaps' PROVE Lane /\ Orderly /\ Watched
    BY <1>2, OrderlyBefore DEF Inv
  <1>3. ASSUME NEW s \in Slots, Others(s) PROVE Watched'
    <2>1. Lane /\ Orderly /\ Watched
      BY <1>1, <1>2, <1>3, MoversAre
    <2> QED
      BY <1>1, <1>3, <2>1, WatchedForces, WatchedRestores, WatchedStarts DEF Others
  <1>4. CASE Bystands
    <2>1. Watched
      BY <1>2, <1>4 DEF Bystands
    <2>2. hw'.tariff = hw.tariff /\ disk' = disk /\ cached' = cached /\ sess' = sess
      BY <1>4 DEF Bystands
    <2>3. ASSUME NEW t \in Slots, Forcing(t) \/ Restoring(t) \/ Forcing(t)' \/ Restoring(t)'
          PROVE  Alone(t)
      BY <1>4, <2>3 DEF Bystands
    <2>4. \A t \in Slots : /\ Forcing(t)' <=> Forcing(t)
                           /\ Restoring(t)' <=> Restoring(t)
                           /\ Forcing(t) => (Fresh(t)' <=> Fresh(t)) /\ op'[t].at = op[t].at
      BY <2>3 DEF Alone, Forcing, Restoring, Fresh
    <2>5. TariffNoted'
      BY <2>1, <2>2, <2>4 DEF Watched, TariffNoted
    <2>6. TariffBack'
      BY <2>1, <2>2, <2>3, <2>4 DEF Watched, TariffBack, Alone
    <2>7. Before => Before'
      BY <1>1, <2>2, <2>4, FreshForces DEF Before
    <2>8. TariffKnown'
      BY <2>1, <2>2, <2>4, <2>7 DEF Watched, TariffKnown, TariffNeeded
    <2> QED
      BY <2>5, <2>6, <2>8 DEF Watched
  <1>5. CASE Lapsed
    <2>1. UNCHANGED <<hw, own, sess, disk, cached, op, kept, mishaps>>
      BY <1>5 DEF Lapsed
    <2>2. Watched
      BY <1>2, <2>1
    <2> QED
      BY <2>1, <2>2 DEF Watched, TariffKnown, TariffNeeded, TariffBack, TariffNoted, Before, Fresh,
         Forcing, Restoring, Active
  <1>6. CASE Restart
    <2>1. Watched /\ Idle /\ hw' = hw /\ disk' = disk /\ cached' = cached /\ sess' = Reloaded
      BY <1>1, <1>2, <1>6, RestartIs DEF Orderly, Never
    <2>2. \A t \in Slots : ~Forcing(t)' /\ ~Restoring(t)' /\ ~Forcing(t)
      BY <1>1, <1>6, <2>1, RestartIs DEF Idle, Forcing, Kinds
    <2>3. Before' \/ disk.rec.kind # "none"
      BY <2>1, ReloadedIs DEF Before
    <2> QED
      BY <2>1, <2>2, <2>3 DEF Watched, TariffKnown, TariffNeeded, TariffBack, TariffNoted
  <1> QED
    BY <1>1, <1>3, <1>4, <1>5, <1>6, StepsAre

LEMMA InitWatched == Init => Watched
  <1> SUFFICES ASSUME Init PROVE Watched
    OBVIOUS
  <1>1. \A s \in Slots : op[s] = Free
    BY DEF Init
  <1>2. \A s \in Slots : ~Forcing(s) /\ ~Restoring(s)
    BY <1>1, FreeIs DEF Forcing, Restoring, Kinds
  <1>3. disk.rec.kind = "none" /\ hw.tariff = "own" /\ Active(sess) = {}
    BY DEF Init, NoRecord, NoSession, Active
  <1> QED
    BY <1>2, <1>3 DEF Watched, TariffKnown, TariffNeeded, TariffBack, TariffNoted, Before

\* A gateway that is not the user's is on the disk as a session or as a
\* restore to finish.
THEOREM UnfinishedCorrect == Spec => []UnfinishedIsOnDisk
  <1> DEFINE IInv == Inv /\ Waited /\ (Orderly => Watched)
  <1>1. Init => IInv
    BY InitInv, InitTimed, InitWatched
  <1>2. IInv /\ [Next]_vars => IInv'
    <2>1. ASSUME IInv, Next PROVE IInv'
      <3>1. Types /\ Shape
        BY <2>1 DEF Inv
      <3> QED
        BY <2>1, <3>1, NextInv, WaitedStep, WatchedStep
    <2>2. ASSUME IInv, UNCHANGED vars PROVE IInv'
      <3>1. Inv'
        BY <2>2, NextInv
      <3>2. UNCHANGED <<hw, sess, disk, cached, op, mishaps>>
        BY <2>2 DEF vars, known
      <3>3. Waited'
        BY <2>2, <3>2 DEF Waited, Restoring, Never
      <3>4. Orderly' => Watched'
        BY <2>2, <3>2 DEF Orderly, Watched, TariffKnown, TariffNeeded, TariffBack, TariffNoted,
           Before, Fresh, Forcing, Restoring, Active, Never
      <3> QED
        BY <3>1, <3>3, <3>4
    <2> QED
      BY <2>1, <2>2
  <1>3. IInv => UnfinishedIsOnDisk
    <2> SUFFICES ASSUME IInv, Idle, hw.tariff # "own", Never({"overlap", "crash", "unread"}),
                        Never({"restarted"}) \/ Never({"overtaken", "raised"})
                 PROVE  disk.rec.kind # "none" \/ disk.pending # "none"
      BY DEF UnfinishedIsOnDisk
    <2>1. TariffNoted
      BY DEF Orderly, Watched
    <2>2. \A s \in Slots : ~Forcing(s)
      BY DEF Idle, Forcing, Kinds
    <2> QED
      BY <2>1, <2>2 DEF TariffNoted
  <1> QED
    BY <1>1, <1>2, <1>3, PTL DEF Spec

-----------------------------------------------------------------------------
(* The reserve command that a force command meets                          *)

\* A command that a reserve command has come after is the newest still, and the
\* only session is its own.
Newer == \A s \in Slots : op[s].cur =>
  /\ ~op[s].res => \A t \in Slots : ~op[t].res
  /\ Forcing(s) => ~sess[Other(op[s].kind)].active

\* It stays so as long as no command begins and no session does.
LEMMA NewerStays ==
  ASSUME Types, Newer, NEW s \in Slots, Only(s),
         op'[s] = Free \/ (Sames(op'[s], op[s]) /\ (Forcing(s)' => Forcing(s))),
         \A k \in Kinds : sess'[k].active => sess[k].active
  PROVE  Newer'
  <1>1. ASSUME NEW t \in Slots
        PROVE  /\ op'[t].cur => op[t].cur /\ op'[t].res = op[t].res /\ op'[t].kind = op[t].kind
               /\ op'[t].res => op[t].res
               /\ Forcing(t)' /\ op'[t].cur => Forcing(t)
    <2>1. CASE t = s
      BY <2>1, FreeIs DEF Sames
    <2>2. CASE t # s
      BY <2>2, OthersAre
    <2> QED
      BY <2>1, <2>2
  <1>2. ASSUME NEW t \in Slots, op'[t].cur
        PROVE  /\ ~op'[t].res => \A u \in Slots : ~op'[u].res
               /\ Forcing(t)' => ~sess'[Other(op'[t].kind)].active
    <2>1. op[t].cur /\ op'[t].res = op[t].res /\ op'[t].kind = op[t].kind
      BY <1>1, <1>2
    <2>2. ~op[t].res => \A u \in Slots : ~op[u].res
      BY <2>1 DEF Newer
    <2>3. ~op'[t].res => \A u \in Slots : ~op'[u].res
      BY <1>1, <2>1, <2>2
    <2>4. Forcing(t)' => ~sess[Other(op[t].kind)].active
      BY <1>1, <1>2, <2>1 DEF Newer
    <2>5. Other(op[t].kind) \in Kinds
      BY DEF Other, Kinds
    <2>6. Forcing(t)' => ~sess'[Other(op'[t].kind)].active
      BY <2>1, <2>4, <2>5
    <2> QED
      BY <2>3, <2>6
  <1> QED
    BY <1>2 DEF Newer

LEMMA NewestNewer ==
  ASSUME Types, NEW s \in Slots, Newest(s), op'[s].cur => op'[s].res,
         Forcing(s)' => ~sess'[Other(op'[s].kind)].active
  PROVE  Newer'
  <1>1. \A t \in Slots \ {s} : ~op'[t].cur
    BY OthersAre
  <1> QED
    BY <1>1 DEF Newer

LEMMA NewerStep ==
  ASSUME Types, Shape, Newer, Next
  PROVE  Newer'
  <1>1. ASSUME NEW s \in Slots, ForceSteps(s) PROVE Newer'
    <2>1. CASE ForceGoes(s)
      BY <1>1, <2>1, NewerStays DEF ForceGoes, SameFlags
    <2>2. CASE ForceEnds(s)
      BY <1>1, <2>2, NewerStays DEF ForceEnds, SameFlags
    <2>3. CASE Lapses(s)
      BY <1>1, <2>3, NewerStays DEF Lapses
    <2>4. CASE Runs(s)
      <3>1. \A t \in Slots \ {s} : ~op[t].cur
        BY <1>1, <2>4 DEF Runs, Shape, OneCurrent
      <3>2. \A t \in Slots : ~op'[t].cur
        BY <1>1, <2>4, <3>1, FreeIs DEF Runs, Only
      <3> QED
        BY <3>2 DEF Newer
    <2>5. ASSUME NEW keep \in BOOLEAN, Cleans(s, keep) PROVE Newer'
      <3>1. Newest(s) /\ op'[s].res /\ op'[s].kind = "restore"
        BY <2>5 DEF Cleans, Started
      <3>2. ~Forcing(s)'
        BY <3>1 DEF Forcing, Kinds
      <3> QED
        BY <1>1, <3>1, <3>2, NewestNewer
    <2> QED
      BY <1>1, <2>1, <2>2, <2>3, <2>4, <2>5 DEF ForceSteps
  <1>2. ASSUME NEW s \in Slots, RestoreMoves(s) PROVE Newer'
    <2>1. Only(s) /\ (op'[s] = Free \/ Sames(op'[s], op[s])) /\ Restoring(s)
      BY <1>2 DEF RestoreMoves, RestoreGoes, RestoreEnds, RestoreEnded, Notes, GoesOn, Ends, Ended
    <2>2. sess' = sess \/ sess' = Cleared
      BY <1>2 DEF RestoreMoves, RestoreGoes, RestoreEnds, RestoreEnded, Notes, GoesOn, Ends, Ended
    <2>3. \A k \in Kinds : sess'[k].active => sess[k].active
      BY <2>2 DEF Cleared, NoSession
    <2>4. Sames(op'[s], op[s]) => ~Forcing(s)'
      BY <2>1 DEF Sames, Forcing, Restoring, Kinds
    <2> QED
      BY <1>2, <2>1, <2>3, <2>4, NewerStays
  <1>3. ASSUME NEW s \in Slots, Starts(s) PROVE Newer'
    <2>1. Newest(s) /\ (op'[s] = Free \/ (op'[s].res /\ op'[s].kind = "restore"))
      BY <1>3 DEF Starts, Apart
    <2>2. ~Forcing(s)' /\ (op'[s].cur => op'[s].res)
      BY <2>1, FreeIs DEF Forcing, Kinds
    <2> QED
      BY <1>3, <2>1, <2>2, NewestNewer
  <1>4. ASSUME NEW s \in Slots, NEW k \in Kinds, Begins(s, k) PROVE Newer'
    <2>1. Newest(s) /\ op'[s].res /\ op'[s].kind = k /\ ~sess'[Other(k)].active
      BY <1>4 DEF Begins, Apart
    <2> QED
      BY <1>4, <2>1, NewestNewer
  <1>5. CASE Bystands
    <2>1. SUFFICES ASSUME NEW t \in Slots, op'[t].cur
                   PROVE  /\ ~op'[t].res => \A u \in Slots : ~op'[u].res
                          /\ Forcing(t)' => ~sess'[Other(op'[t].kind)].active
      BY DEF Newer
    <2>2. Alone(t) /\ sess' = sess
      BY <1>5, <2>1 DEF Bystands
    <2>3. op[t].cur /\ op'[t].kind = op[t].kind /\ (Forcing(t)' => Forcing(t))
      BY <2>1, <2>2 DEF Alone, Forcing
    <2>4. CASE \A u \in Slots : ~op'[u].res
      BY <2>2, <2>3, <2>4 DEF Newer
    <2>5. CASE \A u \in Slots : op[u].cur => op'[u].res = op[u].res
      <3>1. \A u \in Slots : op'[u].res => op[u].res
        BY <1>5 DEF Bystands
      <3>2. ~op[t].res => \A u \in Slots : ~op[u].res
        BY <2>3 DEF Newer
      <3>3. op'[t].res = op[t].res
        BY <2>3, <2>5
      <3> QED
        BY <2>2, <2>3, <3>1, <3>2, <3>3 DEF Newer
    <2> QED
      BY <1>5, <2>4, <2>5 DEF Bystands
  <1>6. CASE Lapsed
    BY <1>6 DEF Lapsed, Newer, Forcing
  <1>7. CASE Restart
    BY <1>7, RestartIs DEF Newer
  <1> QED
    BY <1>1, <1>2, <1>3, <1>4, <1>5, <1>6, <1>7, StepsAre DEF Others

\* The reserve command is not undone while it is current, or has been spared.
Calm == /\ Never({"reserve_refused", "overwritten"})
        /\ Never({"overlap"}) \/ Never({"idle"})
Commanded == kept \/ \E s \in Slots : op[s].cur /\ ~op[s].res
Written == hw.reserve = "new" /\ own.reserve = "new" /\ ~Locked
NewStands == Commanded => ReserveComes \/ Written

\* A restore that has no reserve to write back, nor will have.
HasNone(s) == /\ op[s].goal.reserve = "none" /\ \A t \in Slots : ~Forcing(t)
              /\ \A k \in Kinds : sess[k].saved.reserve = "none" /\ sess[k].sites.reserve = "none"

\* What was spared is marked, in memory and on the disk, until it is restored.
Marked == kept =>
  /\ ~Locked
  /\ \A s \in Slots : Forcing(s) => ~op[s].cur /\ ~op[s].res
  /\ \A k \in Kinds : sess[k].active => sess[k].skip
  /\ disk.rec.kind # "none" => disk.rec.skip
  /\ \A s \in Slots : Restoring(s) /\ op[s].cur => (op[s].skip /\ op[s].at # "pulse") \/ HasNone(s)

Standing == NewStands /\ Marked

LEMMA RecordSkips ==
  ASSUME NEW ss \in [Kinds -> Sessions], Record(ss).kind # "none"
  PROVE  \E k \in Kinds : ss[k].active /\ Record(ss).skip = ss[k].skip
  <1>1. Active(ss) # {}
    BY DEF Record, NoRecord
  <1> DEFINE k == IF ss["charge"].active THEN "charge" ELSE "discharge"
  <1>2. k \in Kinds /\ ss[k].active
    BY <1>1 DEF Active, Kinds
  <1>3. Record(ss) = [kind |-> k, source |-> ss[k].source, skip |-> ss[k].skip,
                      saved |-> ss[k].saved]
    BY <1>1 DEF Record
  <1> HIDE DEF k
  <1> QED
    BY <1>2, <1>3

LEMMA NoSetting ==
  ASSUME \A k \in Kinds : sess[k].saved.reserve = "none" /\ sess[k].sites.reserve = "none"
  PROVE  Setting(sess, "reserve") = "none"
  BY DEF Setting, Kinds

LEMMA StandsMove ==
  ASSUME Types, Newer, Standing, Calm', NEW s \in Slots, Forcing(s) \/ Restoring(s),
         Only(s) \/ Newest(s), Touches(s), Commanded' => Commanded,
         Commanded /\ ~Locked => op'[s].at # "pulsing"
  PROVE  NewStands'
  <1> SUFFICES ASSUME Commanded' PROVE (ReserveComes \/ Written)'
    BY DEF NewStands
  <1>1. CASE ReserveComes
    <2>1. PICK r \in Slots : op[r].kind = "reserve"
      BY <1>1 DEF ReserveComes
    <2>2. r # s
      BY <2>1 DEF Forcing, Restoring, Kinds
    <2>3. op'[r].kind = "reserve"
      BY <2>1, <2>2, OthersAre
    <2> QED
      BY <2>3 DEF ReserveComes
  <1>2. CASE Written
    <2>1. op[s].at # "pulsing"
      BY <1>2 DEF Written, Locked
    <2>2. ~(op[s].at = "reserve" /\ op[s].res)
      <3>1. SUFFICES ASSUME op[s].at = "reserve", op[s].res PROVE FALSE
        OBVIOUS
      <3>2. Forcing(s)
        BY <3>1, HandlerOf DEF Restoring, Placed
      <3>3. CASE kept
        BY <3>1, <3>2, <3>3 DEF Standing, Marked
      <3>4. CASE \E t \in Slots : op[t].cur /\ ~op[t].res
        BY <3>1, <3>4 DEF Newer
      <3> QED
        BY <3>3, <3>4 DEF Commanded
    <2>3. hw'.reserve = hw.reserve /\ own' = own
      BY <2>1, <2>2 DEF Touches, Calm, Never
    <2>4. ~Locked'
      <3>1. SUFFICES ASSUME NEW t \in Slots PROVE op'[t].at # "pulsing"
        BY DEF Locked
      <3>2. CASE t = s
        BY <1>2, <3>2 DEF Written
      <3>3. CASE t # s
        BY <1>2, <3>3, OthersAre DEF Written, Locked
      <3> QED
        BY <3>2, <3>3
    <2> QED
      BY <1>2, <2>3, <2>4 DEF Written
  <1> QED
    BY <1>1, <1>2 DEF Standing, NewStands

\* It is the same for the handlers that a step does not move.
LEMMA OthersMarked ==
  ASSUME Types, NEW s \in Slots, Only(s) \/ Newest(s), NEW t \in Slots, t # s
  PROVE  /\ (Forcing(t) => ~op[t].cur /\ ~op[t].res)
               => (Forcing(t)' => ~op'[t].cur /\ ~op'[t].res)
         /\ Restoring(t)' /\ op'[t].cur => Restoring(t) /\ op[t].cur /\ Only(s)
         /\ op'[t].skip = op[t].skip /\ op'[t].at = op[t].at
         /\ op'[t].goal.reserve = op[t].goal.reserve
  <1>1. op'[t].goal = op[t].goal /\ op'[t].res = op[t].res /\ (op'[t].cur => op[t].cur)
    BY OthersAre
  <1>2. Newest(s) => ~op'[t].cur
    BY OthersAre
  <1> QED
    BY <1>1, <1>2, OthersAre

LEMMA StandingForces ==
  ASSUME Types, Shape, Newer, Standing, Calm', NEW s \in Slots, ForceSteps(s)
  PROVE  Standing'
  <1>1. Forcing(s) /\ ~Restoring(s) /\ op[s].kind \in Kinds
    BY FreshForces
       DEF ForceSteps, ForceGoes, ForceEnds, Lapses, Runs, Cleans, Forcing, Restoring, Kinds
  <1>2. ASSUME Only(s), Sames(op'[s], op[s]) \/ op'[s] = Free, kept' = kept
        PROVE  Commanded' => Commanded
    <2>1. ASSUME NEW t \in Slots, op'[t].cur, ~op'[t].res PROVE op[t].cur /\ ~op[t].res
      BY <1>2, <2>1, OthersAre, FreeIs DEF Sames
    <2> QED
      BY <1>2, <2>1 DEF Commanded
  <1>3. kept => \A t \in Slots : Forcing(t) => ~op[t].cur /\ ~op[t].res
    BY DEF Standing, Marked
  <1>4. Commanded => ~op[s].cur \/ ~op[s].res
    <2>1. CASE kept
      BY <1>1, <1>3, <2>1
    <2>2. CASE \E t \in Slots : op[t].cur /\ ~op[t].res
      BY <2>2 DEF Newer
    <2> QED
      BY <2>1, <2>2 DEF Commanded
  <1>5. CASE ForceGoes(s) \/ ForceEnds(s) \/ Lapses(s)
    <2>1. /\ Only(s) /\ (Sames(op'[s], op[s]) \/ op'[s] = Free) /\ kept' = kept /\ disk' = disk
          /\ \A k \in Kinds : sess'[k].skip = sess[k].skip /\ (sess'[k].active => sess[k].active)
      BY <1>5 DEF ForceGoes, ForceEnds, Lapses, SameFlags
    <2>2. op'[s].at = "pulsing" => op[s].cur /\ op[s].res
      BY <1>5, FreeIs DEF ForceGoes, ForceEnds, Lapses
    <2>3. Touches(s)
      BY <1>5 DEF ForceGoes, ForceEnds, Lapses, Touches
    <2>4. NewStands'
      BY <1>1, <1>2, <1>4, <2>1, <2>2, <2>3, StandsMove
    <2>5. ASSUME kept PROVE Marked'
      <3>1. ~op[s].cur /\ ~op[s].res /\ ~Locked
        BY <1>1, <1>3, <2>5 DEF Standing, Marked
      <3>2. ~op'[s].cur /\ ~op'[s].res /\ op'[s].at # "pulsing"
        BY <2>1, <2>2, <3>1, FreeIs DEF Sames
      <3>3. ~Locked'
        <4>1. \A t \in Slots : op'[t].at # "pulsing"
          BY <2>1, <3>1, <3>2, OthersAre DEF Locked
        <4> QED
          BY <4>1 DEF Locked
      <3>4. \A t \in Slots : Forcing(t)' => ~op'[t].cur /\ ~op'[t].res
        BY <1>3, <2>1, <2>5, <3>2, OthersMarked
      <3>5. \A k \in Kinds : sess'[k].active => sess'[k].skip
        BY <2>1, <2>5 DEF Standing, Marked
      <3>6. disk'.rec.kind # "none" => disk'.rec.skip
        BY <2>1, <2>5 DEF Standing, Marked
      <3>7. ASSUME NEW t \in Slots, Restoring(t)', op'[t].cur
            PROVE  op'[t].skip /\ op'[t].at # "pulse"
        <4>1. t # s
          BY <3>2, <3>7
        <4>2. Restoring(t) /\ op[t].cur
          BY <2>1, <3>7, <4>1, OthersMarked
        <4>3. ~HasNone(t)
          BY <1>1 DEF HasNone
        <4>4. op[t].skip /\ op[t].at # "pulse"
          BY <2>5, <4>2, <4>3 DEF Standing, Marked
        <4> QED
          BY <2>1, <4>1, <4>4, OthersMarked
      <3> QED
        BY <3>3, <3>4, <3>5, <3>6, <3>7 DEF Marked
    <2>6. kept' => Marked'
      BY <2>1, <2>5
    <2> QED
      BY <2>4, <2>6 DEF Standing, Marked
  <1>6. CASE Runs(s)
    <2>1. \A t \in Slots \ {s} : ~op[t].cur
      BY <1>6 DEF Runs, Shape, OneCurrent
    <2>2. ~Commanded
      BY <1>4, <1>6 DEF Runs
    <2>3. ~Commanded'
      BY <1>2, <1>6, <2>2 DEF Runs
    <2> QED
      BY <2>3 DEF Standing, NewStands, Marked, Commanded
  <1>7. ASSUME NEW keep \in BOOLEAN, Cleans(s, keep) PROVE Standing'
    <2> DEFINE ss == Failing(s, keep)
    <2>1. /\ Newest(s) /\ Touches(s) /\ kept' = keep /\ sess' = ss /\ disk' = Recorded(ss)
          /\ Started(s, "user", 0, op[s].after, keep, ss)
          /\ keep => op[s].cur /\ ~op[s].res /\ (op[s].at = "pulsing" \/ ~Locked)
      BY <1>7 DEF Cleans
    <2>2. ss \in [Kinds -> Sessions] /\ ss[op[s].kind].skip = keep
          /\ \A j \in Kinds \ {op[s].kind} : ss[j] = sess[j]
      BY <1>1, FailingIs
    <2> HIDE DEF ss
    <2>3. /\ op'[s].res /\ op'[s].kind = "restore" /\ op'[s].at \notin {"pulse", "pulsing"}
          /\ keep => op'[s].skip
      BY <2>1 DEF Started
    <2>4. ASSUME NEW t \in Slots \ {s} PROVE ~op'[t].cur /\ op'[t].res = op[t].res
                                           /\ op'[t].at = op[t].at
      BY <2>1, OthersAre
    <2>5. Commanded' => keep
      BY <2>1, <2>3, <2>4 DEF Commanded
    <2>6. CASE ~keep
      BY <2>1, <2>5, <2>6 DEF Standing, NewStands, Marked
    <2>7. CASE keep
      <3>1. op[s].cur /\ ~op[s].res /\ (op[s].at = "pulsing" \/ ~Locked)
        BY <2>1, <2>7
      <3>2. Commanded
        BY <3>1 DEF Commanded
      <3>3. NewStands'
        BY <1>1, <2>1, <2>3, <3>2, StandsMove
      <3>4. ~Locked'
        <4>1. \A t \in Slots \ {s} : op[t].at # "pulsing"
          BY <3>1 DEF Locked, Shape, OnePulse
        <4> QED
          BY <2>3, <2>4, <4>1 DEF Locked
      <3>5. \A t \in Slots : Forcing(t)' => ~op'[t].cur /\ ~op'[t].res
        <4>1. \A t \in Slots : ~op[t].res
          BY <3>1 DEF Newer
        <4>2. ~Forcing(s)'
          BY <2>3 DEF Forcing, Kinds
        <4> QED
          BY <2>4, <4>1, <4>2
      <3>6. \A k \in Kinds : sess'[k].active => sess'[k].skip
        <4>1. ~sess[Other(op[s].kind)].active
          BY <1>1, <3>1 DEF Newer
        <4>2. \A k \in Kinds : k = op[s].kind \/ k = Other(op[s].kind)
          BY <1>1 DEF Other, Kinds
        <4> QED
          BY <2>1, <2>2, <2>7, <4>1, <4>2
      <3>7. disk'.rec.kind # "none" => disk'.rec.skip
        <4>1. disk'.rec = Record(ss)
          BY <2>1 DEF Recorded, Types, StoreTypes
        <4> QED
          BY <2>1, <2>2, <3>6, <4>1, RecordSkips
      <3> QED
        BY <2>3, <2>4, <2>7, <3>3, <3>4, <3>5, <3>6, <3>7 DEF Standing, Marked
    <2> QED
      BY <2>6, <2>7
  <1> QED
    BY <1>5, <1>6, <1>7 DEF ForceSteps

LEMMA StandingRestores ==
  ASSUME Types, Shape, Newer, Standing, Calm', NEW s \in Slots, RestoreMoves(s)
  PROVE  Standing'
  <1>1. Restoring(s) /\ ~Forcing(s)
    BY DEF RestoreMoves, RestoreGoes, RestoreEnds, RestoreEnded, Notes, Restoring, Forcing, Kinds
  <1>2. Only(s) /\ (Sames(op'[s], op[s]) \/ op'[s] = Free) /\ kept' = kept
    BY DEF RestoreMoves, RestoreGoes, RestoreEnds, RestoreEnded, Notes, GoesOn, Ends, Ended
  <1>3. Touches(s)
    BY DEF RestoreMoves, RestoreGoes, RestoreEnds, RestoreEnded, Notes, Touches
  <1>4. Commanded' => Commanded
    <2>1. ASSUME NEW t \in Slots, op'[t].cur, ~op'[t].res PROVE op[t].cur /\ ~op[t].res
      BY <1>2, <2>1, OthersAre, FreeIs DEF Sames
    <2> QED
      BY <1>2, <2>1 DEF Commanded
  <1>5. Commanded /\ ~Locked => op'[s].at # "pulsing"
    <2>1. SUFFICES ASSUME Commanded, ~Locked, op'[s].at = "pulsing" PROVE FALSE
      OBVIOUS
    <2>2. RestoreGoes(s)
      BY <2>1, FreeIs
         DEF RestoreMoves, RestoreEnds, RestoreEnded, Notes, Ends, Ended
    <2>3. op[s].at = "pulse" /\ op[s].cur /\ op[s].res
      BY <2>1, <2>2 DEF RestoreGoes
    <2>4. op[s].goal.reserve # "none"
      BY <1>1, <2>3, HandlerOf DEF Placed, Restoring
    <2>5. ~kept
      BY <1>1, <2>3, <2>4 DEF Standing, Marked, HasNone
    <2> QED
      BY <2>1, <2>3, <2>5 DEF Commanded, Newer
  <1>6. NewStands'
    BY <1>1, <1>2, <1>3, <1>4, <1>5, StandsMove
  <1>7. ASSUME kept PROVE Marked'
    <2>1. /\ ~Locked /\ \A t \in Slots : Forcing(t) => ~op[t].cur /\ ~op[t].res
      BY <1>7 DEF Standing, Marked
    <2>2. ~Locked'
      <3>1. op'[s].at # "pulsing"
        BY <1>5, <1>7, <2>1 DEF Commanded
      <3>2. \A t \in Slots : op'[t].at # "pulsing"
        BY <1>2, <2>1, <3>1, OthersAre DEF Locked
      <3> QED
        BY <3>2 DEF Locked
    <2>3. ~Forcing(s)'
      BY <1>1, <1>2, FreeIs DEF Sames, Forcing, Restoring, Kinds
    <2>4. \A t \in Slots : Forcing(t)' => ~op'[t].cur /\ ~op'[t].res
      BY <1>2, <2>1, <2>3, OthersMarked
    <2>5. sess' = sess \/ (op[s].cur /\ sess' = Cleared)
      BY DEF RestoreMoves, RestoreGoes, RestoreEnds, RestoreEnded, Notes, GoesOn, Ends, Ended
    <2>6. \A k \in Kinds : ~Cleared[k].active
      BY DEF Cleared, NoSession
    <2>7. \A k \in Kinds : sess[k].active => sess[k].skip
      BY <1>7 DEF Standing, Marked
    <2>8. \A k \in Kinds : sess'[k].active => sess'[k].skip
      BY <2>5, <2>6, <2>7
    <2>9. disk'.rec.kind # "none" => disk'.rec.skip
      <3>1. disk'.rec.kind = "none" \/ disk'.rec = disk.rec \/ disk'.rec = Record(sess)
        BY DEF RestoreMoves, RestoreGoes, RestoreEnds, RestoreEnded, Notes, GoesOn, Ends, Ended,
           NoRecord
      <3>2. disk.rec.kind # "none" => disk.rec.skip
        BY <1>7 DEF Standing, Marked
      <3>3. Record(sess).kind # "none" => Record(sess).skip
        BY <2>7, RecordSkips DEF Types, SessionTypes
      <3> QED
        BY <3>1, <3>2, <3>3
    <2>10. \A t \in Slots : ~Forcing(t) => ~Forcing(t)'
      BY <1>2, <2>3, OthersAre
    <2>11. ASSUME NEW t \in Slots, t # s, Restoring(t)', op'[t].cur
           PROVE  (op'[t].skip /\ op'[t].at # "pulse") \/ HasNone(t)'
      <3>1. Restoring(t) /\ op[t].cur
        BY <1>2, <2>11, OthersMarked
      <3>2. sess' = sess
        BY <2>5, <2>11, <3>1 DEF Shape, OneCurrent
      <3>3. (op[t].skip /\ op[t].at # "pulse") \/ HasNone(t)
        BY <1>7, <3>1 DEF Standing, Marked
      <3>4. op'[t].goal.reserve = op[t].goal.reserve /\ op'[t].skip = op[t].skip
            /\ op'[t].at = op[t].at
        BY <1>2, <2>11, OthersMarked
      <3> QED
        BY <2>10, <3>2, <3>3, <3>4 DEF HasNone
    <2>12. ASSUME Restoring(s)', op'[s].cur
           PROVE  (op'[s].skip /\ op'[s].at # "pulse") \/ HasNone(s)'
      <3>1. RestoreGoes(s)
        BY <2>12, FreeIs DEF RestoreMoves, RestoreEnds, RestoreEnded, Notes, Ends, Ended
      <3>2. /\ op[s].cur /\ op'[s].skip = op[s].skip /\ sess' = sess
            /\ op'[s].at = "pulse" => ~op[s].skip
            /\ op'[s].goal.reserve \in {"none", op[s].goal.reserve, Setting(sess, "reserve")}
        BY <2>12, <3>1 DEF RestoreGoes, GoesOn, Sames
      <3>3. CASE op[s].skip
        BY <3>2, <3>3
      <3>4. CASE HasNone(s)
        <4>1. Setting(sess, "reserve") = "none"
          BY <3>4, NoSetting DEF HasNone
        <4>2. op'[s].goal.reserve = "none"
          BY <3>2, <3>4, <4>1 DEF HasNone
        <4> QED
          BY <2>10, <3>2, <3>4, <4>2 DEF HasNone
      <3> QED
        BY <1>1, <1>7, <3>2, <3>3, <3>4 DEF Standing, Marked
    <2> QED
      BY <2>2, <2>4, <2>8, <2>9, <2>11, <2>12 DEF Marked
  <1>8. kept' => Marked'
    BY <1>2, <1>7
  <1> QED
    BY <1>6, <1>8 DEF Standing, Marked

LEMMA StandingStarts ==
  ASSUME Types, Shape, Never({"overlap"}) => Lane, Newer, Standing, Calm', NEW s \in Slots,
         Starts(s)
  PROVE  Standing'
  <1>1. /\ ~Forcing(s) /\ ~Restoring(s) /\ Newest(s) /\ UNCHANGED <<hw, own, disk, cached>>
        /\ mishaps \subseteq mishaps' /\ kept' = kept /\ sess' = sess
        /\ Never({"overlap"})' => Supersedes(s)
    BY DEF Starts, Apart
  <1>2. /\ op'[s] = Free \/ (op'[s].kind = "restore" /\ op'[s].res
                             /\ op'[s].at \in {"handoff", "tariff", "mode"})
    BY DEF Starts
  <1>3. ~Forcing(s)' /\ op'[s].at \notin {"pulse", "pulsing"} /\ (op'[s].cur => op'[s].res)
    BY <1>2, FreeIs DEF Forcing, Kinds
  <1>4. ASSUME NEW t \in Slots, t # s
        PROVE  /\ ~op'[t].cur /\ op'[t].res = op[t].res /\ op'[t].at = op[t].at
               /\ op'[t].kind = op[t].kind
    BY <1>1, <1>4, OthersAre
  <1>5. Commanded' => kept
    BY <1>1, <1>3, <1>4 DEF Commanded
  <1>6. ~Locked => ~Locked'
    BY <1>3, <1>4 DEF Locked
  <1>7. CASE ~kept
    BY <1>1, <1>5, <1>7 DEF Standing, NewStands, Marked
  <1>8. CASE kept
    <2>1. ~Locked
      BY <1>8 DEF Standing, Marked
    <2>2. ReserveComes \/ Written
      BY <1>8 DEF Standing, NewStands, Commanded
    <2>3. (ReserveComes \/ Written)'
      <3>1. CASE Written
        BY <1>1, <1>6, <3>1 DEF Written
      <3>2. CASE ReserveComes
        <4>1. PICK r \in Slots : op[r].kind = "reserve"
          BY <3>2 DEF ReserveComes
        <4>2. r # s
          BY <4>1 DEF Starts
        <4> QED
          BY <1>4, <4>1, <4>2 DEF ReserveComes
      <3> QED
        BY <2>2, <3>1, <3>2
    <2>4. \A t \in Slots : Forcing(t)' => ~op'[t].cur /\ ~op'[t].res
      BY <1>1, <1>3, <1>8, OthersMarked DEF Standing, Marked
    <2>5. ASSUME Restoring(s)', op'[s].cur PROVE op'[s].skip \/ HasNone(s)'
      <3>1. /\ op'[s].goal.reserve = "none"
            /\ (\E k \in Kinds : sess[k].skip) => op'[s].skip
        BY <2>5, FreeIs DEF Starts
      <3>2. CASE Active(sess) # {}
        BY <1>8, <3>1, <3>2 DEF Active, Standing, Marked
      <3>3. CASE Active(sess) = {} /\ "idle" \in mishaps'
        <4>1. Never({"overlap"})' /\ Never({"overlap"})
          BY <1>1, <3>3 DEF Calm, Never
        <4>2. Lane /\ Supersedes(s)
          BY <1>1, <4>1
        <4>3. \A t \in Slots : ~Forcing(t)'
          BY <1>1, <1>3, <4>2, OthersAre DEF Supersedes
        <4>4. \A k \in Kinds : sess[k].saved = Blank /\ sess[k].sites = Blank
          BY <3>3, <4>2 DEF Lane, OneSession, Active
        <4> QED
          BY <1>1, <3>1, <4>3, <4>4 DEF HasNone, Blank
      <3>4. CASE /\ \A t \in Slots \ {s} : op[t].kind = "free"
                 /\ sess = Reloaded /\ disk.rec.kind = "none"
        <4>1. \A t \in Slots : ~Forcing(t)'
          <5>1. \A t \in Slots \ {s} : ~Forcing(t)
            BY <3>4 DEF Forcing, Kinds
          <5> QED
            BY <1>1, <1>3, <5>1, OthersAre
        <4>2. \A k \in Kinds : sess[k].saved = Blank /\ sess[k].sites = Blank
          BY <3>4 DEF Reloaded, NoSession, Kinds
        <4> QED
          BY <1>1, <3>1, <4>1, <4>2 DEF HasNone, Blank
      <3> QED
        BY <3>2, <3>3, <3>4 DEF Starts
    <2>6. \A k \in Kinds : sess'[k].active => sess'[k].skip
      BY <1>1, <1>8 DEF Standing, Marked
    <2>7. disk'.rec.kind # "none" => disk'.rec.skip
      BY <1>1, <1>8 DEF Standing, Marked
    <2> QED
      BY <1>3, <1>4, <1>6, <2>1, <2>3, <2>4, <2>5, <2>6, <2>7 DEF Standing, NewStands, Marked
  <1> QED
    BY <1>7, <1>8

LEMMA StandingStep ==
  ASSUME Inv, Newer, Calm => Standing, Next
  PROVE  Calm' => Standing'
  <1> SUFFICES ASSUME Calm' PROVE Standing'
    OBVIOUS
  <1>1. Types /\ Shape /\ (Never({"overlap"}) => Lane)
    BY DEF Inv
  <1>2. mishaps \subseteq mishaps' => Standing
    BY DEF Calm, Never
  <1>3. ASSUME NEW s \in Slots, Others(s) PROVE Standing'
    <2>1. Standing
      BY <1>1, <1>2, <1>3, MoversAre
    <2>2. ASSUME NEW k \in Kinds, Begins(s, k) PROVE Standing'
      <3>1. Newest(s) /\ kept' = FALSE /\ op'[s].res
        BY <2>2 DEF Begins, Apart
      <3>2. \A t \in Slots \ {s} : ~op'[t].cur
        BY <1>1, <3>1, OthersAre
      <3>3. ~Commanded'
        BY <3>1, <3>2 DEF Commanded
      <3> QED
        BY <3>1, <3>3 DEF Standing, NewStands, Marked
    <2> QED
      BY <1>1, <1>3, <2>1, <2>2, StandingForces, StandingRestores, StandingStarts DEF Others
  <1>4. CASE Bystands
    <2>1. Standing /\ kept' = kept /\ sess' = sess /\ disk' = disk
      BY <1>2, <1>4 DEF Bystands
    <2>2. ASSUME NEW t \in Slots
          PROVE  /\ op'[t].cur \/ op'[t].at = "pulsing" \/ Forcing(t) \/ Restoring(t) => Alone(t)
                 /\ (Forcing(t) \/ Restoring(t))' => Forcing(t) \/ Restoring(t)
                 /\ op'[t].res => op[t].res
      BY <1>4 DEF Bystands
    <2>3. ASSUME NEW t \in Slots
          PROVE  /\ Forcing(t)' => Forcing(t) /\ op'[t].cur = op[t].cur
                 /\ Restoring(t)' => /\ Restoring(t) /\ op'[t].cur = op[t].cur
                                     /\ op'[t].skip = op[t].skip /\ op'[t].at = op[t].at
                                     /\ op'[t].goal = op[t].goal
      BY <2>2 DEF Alone, Forcing, Restoring
    <2>4. ~Locked => ~Locked'
      BY <2>2 DEF Locked, Alone
    <2>5. Commanded' => Commanded \/ ReserveComes'
      <3>1. (\E t \in Slots : op'[t].cur /\ ~op'[t].res)
              => ReserveComes' \/ \E t \in Slots : op[t].cur /\ ~op[t].res
        BY <1>4 DEF Bystands
      <3> QED
        BY <2>1, <3>1 DEF Commanded
    <2>6. Written => Written'
      BY <1>4, <2>4 DEF Bystands, Written
    <2>7. ReserveComes => (ReserveComes \/ Written)'
      BY <1>4, <2>4 DEF Bystands, Written, Calm, Never
    <2>8. NewStands'
      BY <2>1, <2>5, <2>6, <2>7 DEF Standing, NewStands
    <2>9. ASSUME kept PROVE Marked'
      <3>1. ~Locked' /\ (\A t \in Slots : Forcing(t)' => ~op'[t].cur /\ ~op'[t].res)
        BY <2>1, <2>2, <2>3, <2>4, <2>9 DEF Standing, Marked
      <3>2. /\ \A k \in Kinds : sess'[k].active => sess'[k].skip
            /\ disk'.rec.kind # "none" => disk'.rec.skip
        BY <2>1, <2>9 DEF Standing, Marked
      <3>3. ASSUME NEW t \in Slots, Restoring(t)', op'[t].cur
            PROVE  (op'[t].skip /\ op'[t].at # "pulse") \/ HasNone(t)'
        <4>1. (op[t].skip /\ op[t].at # "pulse") \/ HasNone(t)
          BY <2>1, <2>3, <2>9, <3>3 DEF Standing, Marked
        <4> QED
          BY <2>1, <2>3, <3>3, <4>1 DEF HasNone
      <3> QED
        BY <3>1, <3>2, <3>3 DEF Marked
    <2> QED
      BY <2>1, <2>8, <2>9 DEF Standing, Marked
  <1>5. CASE Lapsed
    <2>1. UNCHANGED <<hw, own, sess, disk, cached, op, kept, mishaps>>
      BY <1>5 DEF Lapsed
    <2>2. Standing
      BY <1>2, <2>1
    <2> QED
      BY <2>1, <2>2 DEF Standing, NewStands, Commanded, ReserveComes, Written, Locked, Marked,
         HasNone, Forcing, Restoring
  <1>6. CASE Restart
    <2>1. Standing /\ kept' = (kept /\ Idle) /\ own' = own /\ disk' = disk /\ sess' = Reloaded
      BY <1>1, <1>2, <1>6, RestartIs
    <2>2. \A t \in Slots : /\ op'[t].at = "" /\ ~op'[t].cur /\ ~op'[t].res
                           /\ ~Forcing(t)' /\ ~Restoring(t)'
      BY <1>1, <1>6, RestartIs
    <2>3. Commanded' => kept /\ Idle
      BY <2>1, <2>2 DEF Commanded
    <2>4. ~Locked'
      BY <2>2 DEF Locked
    <2>5. ASSUME kept, Idle PROVE Standing'
      <3>1. hw' = hw
        <4>1. ASSUME NEW t \in Slots PROVE op[t].at = ""
          BY <1>1, <2>5, HandlerOf DEF Idle, Placed
        <4>2. ASSUME NEW t \in Slots PROVE Missed(op[t]) = {hw} /\ Landed(op[t]) = hw
          BY <4>1 DEF Missed, Landed
        <4> QED
          BY <1>6, <4>2 DEF Restart, Abandoned
      <3>2. ~ReserveComes
        BY <2>5 DEF Idle, ReserveComes
      <3>3. Written'
        BY <2>1, <2>4, <2>5, <3>1, <3>2 DEF Standing, NewStands, Commanded, Written
      <3>4. disk.rec.kind # "none" => disk.rec.skip
        BY <2>1, <2>5 DEF Standing, Marked
      <3>5. \A k \in Kinds : sess'[k].active => sess'[k].skip
        <4>1. Active(Reloaded) \subseteq {disk.rec.kind} /\ "none" \notin Kinds
          BY <1>1, ReloadedIs DEF Kinds, Types, StoreTypes, Records
        <4> QED
          BY <2>1, <3>4, <4>1, ReloadedIs DEF Active
      <3> QED
        BY <2>1, <2>2, <2>4, <3>3, <3>4, <3>5 DEF Standing, NewStands, Marked
    <2> QED
      BY <2>1, <2>3, <2>5 DEF Standing, NewStands, Marked
  <1> QED
    BY <1>1, <1>3, <1>4, <1>5, <1>6, StepsAre

LEMMA InitStanding == Init => Newer /\ Standing
  <1> SUFFICES ASSUME Init PROVE Newer /\ Standing
    OBVIOUS
  <1>1. \A s \in Slots : op[s] = Free
    BY DEF Init
  <1>2. ~kept /\ \A s \in Slots : ~op[s].cur
    BY <1>1, FreeIs DEF Init
  <1> QED
    BY <1>2 DEF Newer, Standing, NewStands, Commanded, Marked

\* A reserve command that arrives while a force command waits for its reserve
\* stands, once it is answered, through the clean-up and its retries.
THEOREM ReserveCorrect == Spec => []ReserveStands
  <1> DEFINE IInv == Inv /\ Newer /\ (Calm => Standing)
  <1>1. Init => IInv
    BY InitInv, InitStanding
  <1>2. IInv /\ [Next]_vars => IInv'
    <2>1. ASSUME IInv, Next PROVE IInv'
      <3>1. Types /\ Shape
        BY <2>1 DEF Inv
      <3> QED
        BY <2>1, <3>1, NextInv, NewerStep, StandingStep
    <2>2. ASSUME IInv, UNCHANGED vars PROVE IInv'
      <3>1. Inv'
        BY <2>2, NextInv
      <3>2. UNCHANGED <<hw, own, sess, disk, op, kept, mishaps>>
        BY <2>2 DEF vars
      <3>3. Newer'
        BY <2>2, <3>2 DEF Newer, Forcing
      <3>4. Calm' => Standing'
        BY <2>2, <3>2 DEF Calm, Standing, NewStands, Commanded, ReserveComes, Written, Locked,
           Marked, HasNone, Forcing, Restoring, Never
      <3> QED
        BY <3>1, <3>3, <3>4
    <2> QED
      BY <2>1, <2>2
  <1>3. IInv => ReserveStands
    BY DEF ReserveStands, Calm, Standing, NewStands, Commanded, ReserveComes, Written
  <1> QED
    BY <1>1, <1>2, <1>3, PTL DEF Spec

=============================================================================
