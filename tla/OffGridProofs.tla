---------------------------- MODULE OffGridProofs ----------------------------
(***************************************************************************)
(* Theorems about OffGrid, for every cap, number of days, restarts,        *)
(* refusals and changes, and with every mishap allowed.                    *)
(***************************************************************************)
EXTENDS OffGrid, TLAPS

\* The counted durations stay within their range, wherever the code sets
\* them.
LEMMA DurationsInRange ==
  ASSUME FallbackTypes
  PROVE  /\ 0 \in 0..Limit /\ UsedToday \in 0..Limit
         /\ UpToLimit(used + session) \in 0..Limit
         /\ UpToLimit(IF active THEN session + 1 ELSE 0) \in 0..Limit
  BY CapIsPositive DEF UpToLimit, UsedToday, FallbackTypes

\* Saturation keeps a number within the range.
LEMMA SaturatedIsNumber ==
  ASSUME NEW n \in Nat
  PROVE  UpToLimit(n) \in 0..Limit
  BY CapIsPositive DEF UpToLimit

\* Every step keeps the state's shape.
LEMMA TypeStep ==
  ASSUME TypeOK, [Next]_vars
  PROVE  TypeOK'
  <1> USE BoundsAreNaturals, DurationsInRange DEF TypeOK
  <1>1. CASE Tick
    <2> USE <1>1
       DEF Tick, Mishap, OptGoesTo, Hold, Activate, Release, LookAtCap,
           inputs, clock
    <2>1. FallbackTypes'
      BY DEF FallbackTypes
    <2>2. HouseTypes'
      BY DEF HouseTypes
    <2>3. DriverTypes'
      BY DEF DriverTypes
    <2>4. CountTypes'
      BY CapIsPositive, SaturatedIsNumber DEF CountTypes
    <2> QED
      BY <2>1, <2>2, <2>3, <2>4
  <1>2. CASE OptAnswer
    <2> USE <1>2
       DEF OptAnswer, Opens, Closes, Activated, Released, OptGoesTo, Mishap,
           MishapIf, inputs, clock
    <2>1. FallbackTypes'
      BY DEF FallbackTypes
    <2>2. HouseTypes'
      BY DEF HouseTypes
    <2>3. DriverTypes'
      BY DEF DriverTypes
    <2>4. CountTypes'
      BY CapIsPositive, SaturatedIsNumber DEF CountTypes
    <2> QED
      BY <2>1, <2>2, <2>3, <2>4
  <1>3. CASE Act
    <2> USE <1>3 DEF Act, OptGoesTo, Mishap, fallback, inputs, clock
    <2>1. FallbackTypes'
      BY DEF FallbackTypes
    <2>2. HouseTypes'
      BY DEF HouseTypes
    <2>3. DriverTypes'
      BY DEF DriverTypes
    <2>4. CountTypes'
      BY CapIsPositive, SaturatedIsNumber DEF CountTypes
    <2> QED
      BY <2>1, <2>2, <2>3, <2>4
  <1>4. CASE Start
    <2> USE <1>4 DEF Start, OptGoesTo, Mishap, fallback, inputs, clock
    <2>1. FallbackTypes'
      BY DEF FallbackTypes
    <2>2. HouseTypes'
      BY DEF HouseTypes
    <2>3. DriverTypes'
      BY DEF DriverTypes
    <2>4. CountTypes'
      BY CapIsPositive, SaturatedIsNumber DEF CountTypes
    <2> QED
      BY <2>1, <2>2, <2>3, <2>4
  <1>5. CASE \E c \in Checks : Check(c)
    <2>0. PICK c \in Checks : Check(c)
      BY <1>5
    <2> USE <2>0
       DEF Check, GoTo, Apply, Activate, Release, LookAtCap, MishapIf, Mishap,
           inputs, clock
    <2>1. FallbackTypes'
      BY DEF FallbackTypes
    <2>2. HouseTypes'
      BY DEF HouseTypes
    <2>3. DriverTypes'
      BY DEF DriverTypes
    <2>4. CountTypes'
      BY CapIsPositive, SaturatedIsNumber DEF CountTypes
    <2> QED
      BY <2>1, <2>2, <2>3, <2>4
  <1>6. CASE \E c \in Checks : Posted(c)
    <2>0. PICK c \in Checks : Posted(c)
      BY <1>6
    <2> USE <2>0
       DEF Posted, GoTo, Apply, Activate, Release, LookAtCap, MishapIf,
           Mishap, inputs, clock
    <2>1. FallbackTypes'
      BY DEF FallbackTypes
    <2>2. HouseTypes'
      BY DEF HouseTypes
    <2>3. DriverTypes'
      BY DEF DriverTypes
    <2>4. CountTypes'
      BY CapIsPositive, SaturatedIsNumber DEF CountTypes
    <2> QED
      BY <2>1, <2>2, <2>3, <2>4
  <1>7. CASE \E c \in Checks : CheckAnswer(c)
    <2>0. PICK c \in Checks : CheckAnswer(c)
      BY <1>7
    <2> USE <2>0
       DEF CheckAnswer, Opens, Closes, GoTo, MishapIf, Mishap, inputs, clock
    <2>1. FallbackTypes'
      BY DEF FallbackTypes
    <2>2. HouseTypes'
      BY DEF HouseTypes
    <2>3. DriverTypes'
      BY DEF DriverTypes
    <2>4. CountTypes'
      BY CapIsPositive, SaturatedIsNumber DEF CountTypes
    <2> QED
      BY <2>1, <2>2, <2>3, <2>4
  <1>8. CASE Status
    <2> USE <1>8 DEF Status, LookAtCap, inputs, clock, faults
    <2>1. FallbackTypes'
      BY DEF FallbackTypes
    <2>2. HouseTypes'
      BY DEF HouseTypes
    <2>3. DriverTypes'
      BY DEF DriverTypes
    <2>4. CountTypes'
      BY CapIsPositive, SaturatedIsNumber DEF CountTypes
    <2> QED
      BY <2>1, <2>2, <2>3, <2>4
  <1>9. CASE User
    <2> USE <1>9 DEF User, MishapIf, Mishap, fallback, clock
    <2>1. FallbackTypes'
      BY DEF FallbackTypes
    <2>2. HouseTypes'
      BY DEF HouseTypes
    <2>3. DriverTypes'
      BY DEF DriverTypes
    <2>4. CountTypes'
      BY CapIsPositive, SaturatedIsNumber DEF CountTypes
    <2> QED
      BY <2>1, <2>2, <2>3, <2>4
  <1>10. CASE Change
    <2> USE <1>10 DEF Change, fallback, clock, faults
    <2>1. FallbackTypes'
      BY DEF FallbackTypes
    <2>2. HouseTypes'
      BY DEF HouseTypes
    <2>3. DriverTypes'
      BY DEF DriverTypes
    <2>4. CountTypes'
      BY CapIsPositive, SaturatedIsNumber DEF CountTypes
    <2> QED
      BY <2>1, <2>2, <2>3, <2>4
  <1>11. CASE Pass
    <2> USE <1>11 DEF Pass, inputs, faults
    <2>1. FallbackTypes'
      BY DEF FallbackTypes
    <2>2. HouseTypes'
      BY DEF HouseTypes
    <2>3. DriverTypes'
      BY DEF DriverTypes
    <2>4. CountTypes'
      BY CapIsPositive, SaturatedIsNumber DEF CountTypes
    <2> QED
      BY <2>1, <2>2, <2>3, <2>4
  <1>12. CASE Midnight
    <2> USE <1>12 DEF Midnight, inputs, faults
    <2>1. FallbackTypes'
      BY DEF FallbackTypes
    <2>2. HouseTypes'
      BY DEF HouseTypes
    <2>3. DriverTypes'
      BY DEF DriverTypes
    <2>4. CountTypes'
      BY CapIsPositive, SaturatedIsNumber DEF CountTypes
    <2> QED
      BY <2>1, <2>2, <2>3, <2>4
  <1>13. CASE Toggle
    <2> USE <1>13
       DEF Toggle, Mishap, OptGoesTo, fallback, inputs, clock, Abandoned
    <2>1. FallbackTypes'
      BY DEF FallbackTypes
    <2>2. HouseTypes'
      BY DEF HouseTypes
    <2>3. DriverTypes'
      BY DEF DriverTypes
    <2>4. CountTypes'
      BY CapIsPositive, SaturatedIsNumber DEF CountTypes
    <2> QED
      BY <2>1, <2>2, <2>3, <2>4
  <1>14. CASE Restart
    <2> USE <1>14 DEF Restart, Mishap, OptGoesTo, inputs, clock, Abandoned
    <2>1. FallbackTypes'
      BY DEF FallbackTypes
    <2>2. HouseTypes'
      BY DEF HouseTypes
    <2>3. DriverTypes'
      BY DEF DriverTypes
    <2>4. CountTypes'
      BY CapIsPositive, SaturatedIsNumber DEF CountTypes
    <2> QED
      BY <2>1, <2>2, <2>3, <2>4
  <1>15. CASE UNCHANGED vars
    <2> USE <1>15 DEF vars
    <2>1. FallbackTypes'
      BY DEF FallbackTypes
    <2>2. HouseTypes'
      BY DEF HouseTypes
    <2>3. DriverTypes'
      BY DEF DriverTypes
    <2>4. CountTypes'
      BY CapIsPositive, SaturatedIsNumber DEF CountTypes
    <2> QED
      BY <2>1, <2>2, <2>3, <2>4
  <1> QED
    BY <1>1, <1>2, <1>3, <1>4, <1>5, <1>6, <1>7, <1>8, <1>9, <1>10, <1>11,
       <1>12, <1>13, <1>14, <1>15
       DEF Next, Optimiser, Price

-----------------------------------------------------------------------------
(* Who owns the contactor                                                  *)

\* What has gone wrong is not forgotten, also not by a restart.
LEMMA MishapsStay ==
  ASSUME TypeOK, [Next]_vars
  PROVE  mishaps \subseteq mishaps'
  <1> USE DEF TypeOK, CountTypes
  <1>1. CASE Tick
    BY <1>1
       DEF Tick, Mishap, OptGoesTo, Hold, Activate, Release, LookAtCap,
           inputs, clock
  <1>2. CASE OptAnswer
    BY <1>2
       DEF OptAnswer, Opens, Closes, Activated, Released, OptGoesTo, Mishap,
           MishapIf, inputs, clock
  <1>3. CASE Act
    BY <1>3 DEF Act, OptGoesTo, Mishap, fallback, inputs, clock
  <1>4. CASE Start
    BY <1>4 DEF Start, OptGoesTo, Mishap, fallback, inputs, clock
  <1>5. CASE \E c \in Checks : Check(c)
    <2>1. PICK c \in Checks : Check(c)
      BY <1>5
    <2> QED
      BY <2>1
         DEF Check, GoTo, Apply, Activate, Release, LookAtCap, MishapIf,
             Mishap, inputs, clock
  <1>6. CASE \E c \in Checks : Posted(c)
    <2>1. PICK c \in Checks : Posted(c)
      BY <1>6
    <2> QED
      BY <2>1
         DEF Posted, GoTo, Apply, Activate, Release, LookAtCap, MishapIf,
             Mishap, inputs, clock
  <1>7. CASE \E c \in Checks : CheckAnswer(c)
    <2>1. PICK c \in Checks : CheckAnswer(c)
      BY <1>7
    <2> QED
      BY <2>1
         DEF CheckAnswer, Opens, Closes, GoTo, MishapIf, Mishap, inputs, clock
  <1>8. CASE Status
    BY <1>8 DEF Status, LookAtCap, inputs, clock, faults
  <1>9. CASE User
    BY <1>9 DEF User, MishapIf, Mishap, fallback, clock
  <1>10. CASE Change
    BY <1>10 DEF Change, fallback, clock, faults
  <1>11. CASE Pass
    BY <1>11 DEF Pass, inputs, faults
  <1>12. CASE Midnight
    BY <1>12 DEF Midnight, inputs, faults
  <1>13. CASE Toggle
    BY <1>13 DEF Toggle, Mishap, OptGoesTo, fallback, inputs, clock
  <1>14. CASE Restart
    BY <1>14 DEF Restart, Mishap, OptGoesTo, inputs, clock
  <1>15. CASE UNCHANGED vars
    BY <1>15 DEF vars
  <1> QED
    BY <1>1, <1>2, <1>3, <1>4, <1>5, <1>6, <1>7, <1>8, <1>9, <1>10, <1>11,
       <1>12, <1>13, <1>14, <1>15
       DEF Next, Optimiser, Price

\* A command's answer changes session and contactor together, or it is one of
\* the mishaps named.
LEMMA OwnsStep ==
  ASSUME TypeOK, SessionOwnsContactor, [Next]_vars
  PROVE  SessionOwnsContactor'
  <1> USE
     DEF TypeOK, HouseTypes, FallbackTypes, SessionOwnsContactor, Never,
         Interrupted
  <1>1. CASE Tick
    BY MishapsStay, <1>1
       DEF Tick, Mishap, OptGoesTo, Hold, Activate, Release, LookAtCap,
           inputs, clock
  <1>2. CASE OptAnswer
    BY MishapsStay, <1>2
       DEF OptAnswer, Opens, Closes, Activated, Released, OptGoesTo, Mishap,
           MishapIf, inputs, clock
  <1>3. CASE Act
    BY MishapsStay, <1>3 DEF Act, OptGoesTo, Mishap, fallback, inputs, clock
  <1>4. CASE Start
    BY MishapsStay, <1>4 DEF Start, OptGoesTo, Mishap, fallback, inputs, clock
  <1>5. CASE \E c \in Checks : Check(c)
    <2>1. PICK c \in Checks : Check(c)
      BY <1>5
    <2> QED
      BY MishapsStay, <2>1
         DEF Check, GoTo, Apply, Activate, Release, LookAtCap, MishapIf,
             Mishap, inputs, clock
  <1>6. CASE \E c \in Checks : Posted(c)
    <2>1. PICK c \in Checks : Posted(c)
      BY <1>6
    <2> QED
      BY MishapsStay, <2>1
         DEF Posted, GoTo, Apply, Activate, Release, LookAtCap, MishapIf,
             Mishap, inputs, clock
  <1>7. CASE \E c \in Checks : CheckAnswer(c)
    <2>1. PICK c \in Checks : CheckAnswer(c)
      BY <1>7
    <2> QED
      BY MishapsStay, <2>1
         DEF CheckAnswer, Opens, Closes, GoTo, MishapIf, Mishap, inputs, clock
  <1>8. CASE Status
    BY MishapsStay, <1>8 DEF Status, LookAtCap, inputs, clock, faults
  <1>9. CASE User
    BY MishapsStay, <1>9 DEF User, MishapIf, Mishap, fallback, clock
  <1>10. CASE Change
    BY MishapsStay, <1>10 DEF Change, fallback, clock, faults
  <1>11. CASE Pass
    BY MishapsStay, <1>11 DEF Pass, inputs, faults
  <1>12. CASE Midnight
    BY MishapsStay, <1>12 DEF Midnight, inputs, faults
  <1>13. CASE Toggle
    BY MishapsStay, <1>13
       DEF Toggle, Mishap, OptGoesTo, fallback, inputs, clock
  <1>14. CASE Restart
    BY MishapsStay, <1>14 DEF Restart, Mishap, OptGoesTo, inputs, clock
  <1>15. CASE UNCHANGED vars
    BY MishapsStay, <1>15 DEF vars
  <1> QED
    BY <1>1, <1>2, <1>3, <1>4, <1>5, <1>6, <1>7, <1>8, <1>9, <1>10, <1>11,
       <1>12, <1>13, <1>14, <1>15
       DEF Next, Optimiser, Price

\* The events after which the fallback may close a contactor it has not
\* opened: the user's own command, a session begun over the user's, and the
\* start-up clean-up, which closes whatever is open.
OwnExcepts == {"user_closes", "taken_over"} \cup Interrupted

\* Until then an active session is on a contactor of its own; a reconnect is
\* under way only for an active session, and only one driver is at work: the
\* optimiser while it is enabled, a price check otherwise.
OwnFacts ==
  Never(OwnExcepts) =>
    /\ active => contactor # "user"
    /\ opt \notin {"starting", "cleanup"}
    /\ enabled => \A c \in Checks : at[c] = "idle"
    /\ ~enabled => opt = "idle"
    /\ opt \in {"release", "safety"} => active
    /\ \A c \in Checks : at[c] = "release" => active

\* OwnFacts is inductive where at most one price check is alive. With two of
\* them, one may release the session while the reconnect of the other is on
\* its way, which then finds a contactor the user has opened meanwhile.
LEMMA OwnFactsStep ==
  ASSUME NEW k, Checks \subseteq {k}, TypeOK, OwnFacts, [Next]_vars
  PROVE  OwnFacts'
  <1> USE
     DEF TypeOK, DriverTypes, FallbackTypes, HouseTypes, OwnFacts, OwnExcepts,
         Never, Interrupted
  <1>1. CASE Tick
    BY MishapsStay, <1>1
       DEF Tick, Mishap, OptGoesTo, Hold, Activate, Release, LookAtCap,
           inputs, clock
  <1>2. CASE OptAnswer
    BY MishapsStay, <1>2
       DEF OptAnswer, Opens, Closes, Activated, Released, OptGoesTo, Mishap,
           MishapIf, inputs, clock
  <1>3. CASE Act
    BY MishapsStay, <1>3 DEF Act, OptGoesTo, Mishap, fallback, inputs, clock
  <1>4. CASE Start
    BY MishapsStay, <1>4 DEF Start, OptGoesTo, Mishap, fallback, inputs, clock
  <1>5. CASE \E c \in Checks : Check(c)
    <2>1. PICK c \in Checks : Check(c)
      BY <1>5
    <2> QED
      BY MishapsStay, <2>1
         DEF Check, GoTo, Apply, Activate, Release, LookAtCap, MishapIf,
             Mishap, inputs, clock
  <1>6. CASE \E c \in Checks : Posted(c)
    <2>1. PICK c \in Checks : Posted(c)
      BY <1>6
    <2> QED
      BY MishapsStay, <2>1
         DEF Posted, GoTo, Apply, Activate, Release, LookAtCap, MishapIf,
             Mishap, inputs, clock
  <1>7. CASE \E c \in Checks : CheckAnswer(c)
    <2>1. PICK c \in Checks : CheckAnswer(c)
      BY <1>7
    <2> QED
      BY MishapsStay, <2>1
         DEF CheckAnswer, Opens, Closes, GoTo, MishapIf, Mishap, inputs, clock
  <1>8. CASE Status
    BY MishapsStay, <1>8 DEF Status, LookAtCap, inputs, clock, faults
  <1>9. CASE User
    BY MishapsStay, <1>9 DEF User, MishapIf, Mishap, fallback, clock
  <1>10. CASE Change
    BY MishapsStay, <1>10 DEF Change, fallback, clock, faults
  <1>11. CASE Pass
    BY MishapsStay, <1>11 DEF Pass, inputs, faults
  <1>12. CASE Midnight
    BY MishapsStay, <1>12 DEF Midnight, inputs, faults
  <1>13. CASE Toggle
    BY MishapsStay, <1>13
       DEF Toggle, Mishap, OptGoesTo, fallback, inputs, clock
  <1>14. CASE Restart
    BY MishapsStay, <1>14 DEF Restart, Mishap, OptGoesTo, inputs, clock
  <1>15. CASE UNCHANGED vars
    BY MishapsStay, <1>15 DEF vars
  <1> QED
    BY <1>1, <1>2, <1>3, <1>4, <1>5, <1>6, <1>7, <1>8, <1>9, <1>10, <1>11,
       <1>12, <1>13, <1>14, <1>15
       DEF Next, Optimiser, Price

\* Only an active session's reconnect closes the contactor, and that
\* session's contactor is not the user's.
LEMMA OwnReleaseStep ==
  ASSUME TypeOK, OwnFacts, contactor = "user", contactor' # "user", [Next]_vars
  PROVE  mishaps' \cap OwnExcepts # {}
  <1> USE
     DEF TypeOK, DriverTypes, FallbackTypes, HouseTypes, CountTypes, OwnFacts,
         OwnExcepts, Never, Interrupted
  <1>1. CASE Tick
    BY MishapsStay, <1>1
       DEF Tick, Mishap, OptGoesTo, Hold, Activate, Release, LookAtCap,
           inputs, clock
  <1>2. CASE OptAnswer
    BY MishapsStay, <1>2
       DEF OptAnswer, Opens, Closes, Activated, Released, OptGoesTo, Mishap,
           MishapIf, inputs, clock
  <1>3. CASE Act
    BY MishapsStay, <1>3 DEF Act, OptGoesTo, Mishap, fallback, inputs, clock
  <1>4. CASE Start
    BY MishapsStay, <1>4 DEF Start, OptGoesTo, Mishap, fallback, inputs, clock
  <1>5. CASE \E c \in Checks : Check(c)
    <2>1. PICK c \in Checks : Check(c)
      BY <1>5
    <2> QED
      BY MishapsStay, <2>1
         DEF Check, GoTo, Apply, Activate, Release, LookAtCap, MishapIf,
             Mishap, inputs, clock
  <1>6. CASE \E c \in Checks : Posted(c)
    <2>1. PICK c \in Checks : Posted(c)
      BY <1>6
    <2> QED
      BY MishapsStay, <2>1
         DEF Posted, GoTo, Apply, Activate, Release, LookAtCap, MishapIf,
             Mishap, inputs, clock
  <1>7. CASE \E c \in Checks : CheckAnswer(c)
    <2>1. PICK c \in Checks : CheckAnswer(c)
      BY <1>7
    <2> QED
      BY MishapsStay, <2>1
         DEF CheckAnswer, Opens, Closes, GoTo, MishapIf, Mishap, inputs, clock
  <1>8. CASE Status
    BY MishapsStay, <1>8 DEF Status, LookAtCap, inputs, clock, faults
  <1>9. CASE User
    BY MishapsStay, <1>9 DEF User, MishapIf, Mishap, fallback, clock
  <1>10. CASE Change
    BY MishapsStay, <1>10 DEF Change, fallback, clock, faults
  <1>11. CASE Pass
    BY MishapsStay, <1>11 DEF Pass, inputs, faults
  <1>12. CASE Midnight
    BY MishapsStay, <1>12 DEF Midnight, inputs, faults
  <1>13. CASE Toggle
    BY MishapsStay, <1>13
       DEF Toggle, Mishap, OptGoesTo, fallback, inputs, clock
  <1>14. CASE Restart
    BY MishapsStay, <1>14 DEF Restart, Mishap, OptGoesTo, inputs, clock
  <1>15. CASE UNCHANGED vars
    BY MishapsStay, <1>15 DEF vars
  <1> QED
    BY <1>1, <1>2, <1>3, <1>4, <1>5, <1>6, <1>7, <1>8, <1>9, <1>10, <1>11,
       <1>12, <1>13, <1>14, <1>15
       DEF Next, Optimiser, Price

-----------------------------------------------------------------------------
(* The daily cap                                                           *)

\* The events after which the cap is not enforced as it should be.
CapExcepts ==
  {"lost_answer", "held", "early_return", "safety_refused"} \cup Interrupted

\* The optimiser has looked after the fallback since the start.
Served == enabled /\ Never(CapExcepts)

\* What the cap rests on. The optimiser alone is at work and finishes its
\* tick before the next round; an open contactor has a session, which the
\* marker knows; the day's time is what the fallback has counted, but for the
\* round under way and one for each reconnect that failed, and after a look
\* at the cap that has not ended the session it is below the cap.
CapFacts ==
  /\ \A c \in Checks : at[c] = "idle"
  /\ opt \notin {"starting", "cleanup"}
  /\ opt # "idle" => ~due
  /\ contactor = "fallback" => active
  /\ active => marker = "off_grid" /\ opt \notin {"activate", "act"}
  /\ ~active => session = 0
  /\ today <= 1 + refusals + (IF rolled THEN used + session ELSE 0)
  /\ today <= Cap + 1 + refusals
  /\ ~due /\ (opt = "activate" \/ (opt = "idle" /\ contactor = "fallback"))
       => today <= refusals + (IF rolled THEN Cap ELSE 0)

\* An optimiser that has served to the end of a step served before it.
LEMMA ServedBefore ==
  ASSUME TypeOK, Served', [Next]_vars
  PROVE  Served
  <1> USE DEF Served, Never, CapExcepts, Interrupted
  <1>1. CASE Tick
    BY MishapsStay, <1>1
       DEF Tick, Mishap, OptGoesTo, Hold, Activate, Release, LookAtCap,
           inputs, clock
  <1>2. CASE OptAnswer
    BY MishapsStay, <1>2
       DEF OptAnswer, Opens, Closes, Activated, Released, OptGoesTo, Mishap,
           MishapIf, inputs, clock
  <1>3. CASE Act
    BY MishapsStay, <1>3 DEF Act, OptGoesTo, Mishap, fallback, inputs, clock
  <1>4. CASE Start
    BY MishapsStay, <1>4 DEF Start, OptGoesTo, Mishap, fallback, inputs, clock
  <1>5. CASE \E c \in Checks : Check(c)
    <2>1. PICK c \in Checks : Check(c)
      BY <1>5
    <2> QED
      BY MishapsStay, <2>1
         DEF Check, GoTo, Apply, Activate, Release, LookAtCap, MishapIf,
             Mishap, inputs, clock
  <1>6. CASE \E c \in Checks : Posted(c)
    <2>1. PICK c \in Checks : Posted(c)
      BY <1>6
    <2> QED
      BY MishapsStay, <2>1
         DEF Posted, GoTo, Apply, Activate, Release, LookAtCap, MishapIf,
             Mishap, inputs, clock
  <1>7. CASE \E c \in Checks : CheckAnswer(c)
    <2>1. PICK c \in Checks : CheckAnswer(c)
      BY <1>7
    <2> QED
      BY MishapsStay, <2>1
         DEF CheckAnswer, Opens, Closes, GoTo, MishapIf, Mishap, inputs, clock
  <1>8. CASE Status
    BY MishapsStay, <1>8 DEF Status, LookAtCap, inputs, clock, faults
  <1>9. CASE User
    BY MishapsStay, <1>9 DEF User, MishapIf, Mishap, fallback, clock
  <1>10. CASE Change
    BY MishapsStay, <1>10 DEF Change, fallback, clock, faults
  <1>11. CASE Pass
    BY MishapsStay, <1>11 DEF Pass, inputs, faults
  <1>12. CASE Midnight
    BY MishapsStay, <1>12 DEF Midnight, inputs, faults
  <1>13. CASE Toggle
    BY MishapsStay, <1>13
       DEF Toggle, Mishap, OptGoesTo, fallback, inputs, clock
  <1>14. CASE Restart
    BY MishapsStay, <1>14 DEF Restart, Mishap, OptGoesTo, inputs, clock
  <1>15. CASE UNCHANGED vars
    BY MishapsStay, <1>15 DEF vars
  <1> QED
    BY <1>1, <1>2, <1>3, <1>4, <1>5, <1>6, <1>7, <1>8, <1>9, <1>10, <1>11,
       <1>12, <1>13, <1>14, <1>15
       DEF Next, Optimiser, Price

\* A step keeps what the cap rests on.
LEMMA CapStep ==
  ASSUME TypeOK, Served => CapFacts, Served', [Next]_vars
  PROVE  CapFacts'
  <1> USE ServedBefore, CapIsPositive, BoundsAreNaturals
     DEF TypeOK, FallbackTypes, HouseTypes, DriverTypes, CountTypes, CapFacts,
         Served, Never, CapExcepts, Interrupted
  <1>1. CASE Tick
    BY <1>1
       DEF Tick, Mishap, OptGoesTo, Hold, Activate, Release, LookAtCap,
           inputs, clock, WithinCap, UsedToday
  <1>2. CASE OptAnswer
    BY <1>2
       DEF OptAnswer, Opens, Closes, Activated, Released, OptGoesTo, Mishap,
           MishapIf, inputs, clock, UpToLimit
  <1>3. CASE Act
    BY <1>3 DEF Act, OptGoesTo, Mishap, fallback, inputs, clock
  <1>4. CASE Start
    BY <1>4 DEF Start, OptGoesTo, Mishap, fallback, inputs, clock
  <1>5. CASE \E c \in Checks : Check(c)
    <2>1. PICK c \in Checks : Check(c)
      BY <1>5
    <2> QED
      BY <2>1
         DEF Check, GoTo, Apply, Activate, Release, LookAtCap, MishapIf,
             Mishap, inputs, clock
  <1>6. CASE \E c \in Checks : Posted(c)
    <2>1. PICK c \in Checks : Posted(c)
      BY <1>6
    <2> QED
      BY <2>1
         DEF Posted, GoTo, Apply, Activate, Release, LookAtCap, MishapIf,
             Mishap, inputs, clock
  <1>7. CASE \E c \in Checks : CheckAnswer(c)
    <2>1. PICK c \in Checks : CheckAnswer(c)
      BY <1>7
    <2> QED
      BY <2>1
         DEF CheckAnswer, Opens, Closes, GoTo, MishapIf, Mishap, inputs, clock
  <1>8. CASE Status
    BY <1>8 DEF Status, LookAtCap, inputs, clock, faults, UsedToday
  <1>9. CASE User
    BY <1>9 DEF User, MishapIf, Mishap, fallback, clock
  <1>10. CASE Change
    BY <1>10 DEF Change, fallback, clock, faults
  <1>11. CASE Pass
    BY <1>11 DEF Pass, inputs, faults, UpToLimit
  <1>12. CASE Midnight
    BY <1>12 DEF Midnight, inputs, faults
  <1>13. CASE Toggle
    BY <1>13 DEF Toggle, Mishap, OptGoesTo, fallback, inputs, clock
  <1>14. CASE Restart
    BY <1>14 DEF Restart, Mishap, OptGoesTo, inputs, clock
  <1>15. CASE UNCHANGED vars
    BY <1>15 DEF vars
  <1> QED
    BY <1>1, <1>2, <1>3, <1>4, <1>5, <1>6, <1>7, <1>8, <1>9, <1>10, <1>11,
       <1>12, <1>13, <1>14, <1>15
       DEF Next, Optimiser, Price

-----------------------------------------------------------------------------
(* The theorems                                                            *)

\* The state keeps its declared shape, whatever happens: the day's total, the
\* session and the time off-grid stay where they saturate.
THEOREM TypeCorrect == Spec => []TypeOK
  <1>1. Init => TypeOK
    <2> SUFFICES ASSUME Init
                 PROVE  TypeOK
      OBVIOUS
    <2>1. FallbackTypes
      <3>1. 0 \in 0..Limit
        BY CapIsPositive
      <3> QED
        BY <3>1, Zenon DEF Init, FallbackTypes
    <2>2. HouseTypes
      BY DEF Init, HouseTypes
    <2>3. DriverTypes
      BY DEF Init, DriverTypes
    <2>4. CountTypes
      BY CapIsPositive, BoundsAreNaturals DEF Init, CountTypes
    <2> QED
      BY <2>1, <2>2, <2>3, <2>4 DEF TypeOK
  <1> QED
    BY <1>1, TypeStep, PTL DEF Spec

\* Session and contactor are one thing, for any number of price checks, both
\* drivers and every refused command: neither an answer, a tick, a look at
\* the cap nor a midnight leaves one without the other.
THEOREM SessionAndContactor == Spec => []SessionOwnsContactor
  <1>1. Init => SessionOwnsContactor
    BY DEF Init, SessionOwnsContactor
  <1> QED
    BY <1>1, OwnsStep, TypeCorrect, PTL DEF Spec

\* Under the optimiser the house is off-grid for at most one round beyond the
\* cap in a day and a round more for each reconnect that was refused, for
\* every cap, midnights, plans and prices.
THEOREM DailyCap == Spec => []DailyCapHolds
  <1> DEFINE Bounded == Served => CapFacts
  <1>1. Init => Bounded
    BY CapIsPositive DEF Init, CapFacts
  <1>2. ASSUME TypeOK, Bounded, [Next]_vars
        PROVE  Bounded'
    BY <1>2, CapStep
  <1>3. Bounded => DailyCapHolds
    BY DEF CapFacts, DailyCapHolds, Served, CapExcepts
  <1> QED
    BY <1>1, <1>2, <1>3, TypeCorrect, PTL DEF Spec

\* With one price check at a time, a contactor the user has opened is closed
\* only by the user, by a session begun on top of it, or after a restart or a
\* toggle of the optimiser (whose clean-up closes what it finds open).
THEOREM UsersContactorStays ==
  (\E c : Checks \subseteq {c}) => (Spec => OnlyOwnReleased)
  <1> SUFFICES ASSUME NEW c, Checks \subseteq {c}
               PROVE  Spec => OnlyOwnReleased
    OBVIOUS
  <1>1. Init => OwnFacts
    BY DEF Init, OwnFacts
  <1>2. ASSUME TypeOK, OwnFacts, [Next]_vars
        PROVE  OwnFacts'
    BY <1>2, OwnFactsStep
  <1>3. ASSUME TypeOK, OwnFacts, [Next]_vars
        PROVE  [contactor = "user" /\ contactor' # "user"
                  => mishaps' \cap ({"user_closes", "taken_over"}
                                      \cup Interrupted) # {}]_vars
    BY <1>3, OwnReleaseStep DEF OwnExcepts
  <1> QED
    BY <1>1, <1>2, <1>3, TypeCorrect, PTL DEF Spec, OnlyOwnReleased

=============================================================================
