------------------------- MODULE TeslaForceProofs --------------------------
(***************************************************************************)
(* Theorems about TeslaForce, for any number of handlers in flight,        *)
(* commands, failed requests, retries and restarts, every user's settings, *)
(* and every combination of mishaps.                                       *)
(***************************************************************************)
EXTENDS TeslaForce, FiniteSetTheorems, TLAPS

-----------------------------------------------------------------------------
(* Types, part by part                                                     *)

Levels == {"own", "new", "zero", "full", "nudge"}

GatewayTypes == hw \in Gateway /\ own \in Gateway
SessionTypes == sess \in [Kinds -> Sessions]
StoreTypes == /\ timers \subseteq Kinds \X (0..MaxRetries)
              /\ disk \in [rec : Records, pending : {"none", "all", "skip"}]
KnownTypes == pref \in {"none", "on", "off"} /\ cached \in BOOLEAN /\ kept \in BOOLEAN
CountTypes == /\ mishaps \subseteq Happens
              /\ commands \in 0..MaxCommands /\ reserves \in 0..MaxReserves
              /\ restarts \in 0..MaxRestarts /\ failures \in 0..MaxFailures

\* Where a handler of each kind can be, and that it has what its request needs.
Placed(o) ==
  /\ o.kind \in {"free", "startup"} => o.at = ""
  /\ o.kind = "reserve" => o.at = "reserve" /\ o.goal.reserve = "new"
  /\ o.kind \in Kinds /\ o.at # "look" => o.goal = ForceGoal(o.kind)
  /\ o.kind = "charge" =>
       o.at \in {"look", "baseline", "mode", "grid", "reserve", "tariff", "pulse", "pulsing"}
  /\ o.kind = "discharge" =>
       o.at \in {"look", "baseline", "rule", "grid", "mode", "tariff", "pulse", "pulsing"}
  /\ o.kind = "restore" =>
       /\ o.at \in {"handoff", "tariff", "mode", "rule", "grid", "pulse", "pulsing", "note"}
       /\ o.at = "mode" => o.goal.mode # "none"
       /\ o.at = "rule" => o.goal.rule # "none"
       /\ o.at = "grid" => o.goal.grid # "none"
       /\ o.at \in {"pulse", "pulsing"} => o.goal.reserve # "none"

HandlerTypes ==
  /\ op \in [Slots -> Handlers]
  /\ \A s \in Slots : Placed(op[s])

Types == GatewayTypes /\ SessionTypes /\ StoreTypes /\ KnownTypes /\ CountTypes
         /\ HandlerTypes

LEMMA TypesGiveTypeOK == Types => TypeOK
  BY DEF Types, TypeOK, GatewayTypes, SessionTypes, StoreTypes, KnownTypes, CountTypes,
     HandlerTypes

-----------------------------------------------------------------------------
(* The operators                                                           *)

LEMMA KindsAre == Kinds = {"charge", "discharge"}
  BY DEF Kinds

\* The values nothing is in.
LEMMA Blanks ==
  /\ Blank \in Settings /\ NoSession \in Sessions /\ NoRecord \in Records
  /\ Free \in Handlers /\ Placed(Free)
  /\ \A k \in Kinds : ForceGoal(k) \in Settings
  <1>1. Blank \in Settings
    BY DEF Blank, Settings
  <1>2. 0 \in 0..MaxRetries
    BY BoundsAreNaturals
  <1>3. NoSession \in Sessions
    BY <1>1 DEF NoSession, Sessions
  <1>4. NoRecord \in Records
    BY <1>1 DEF NoRecord, Records
  <1>5. Free \in Handlers
    BY <1>1, <1>2 DEF Free, Handlers, Stages
  <1>6. Placed(Free)
    BY DEF Placed, Free, Kinds
  <1>7. \A k \in Kinds : ForceGoal(k) \in Settings
    BY DEF ForceGoal, Settings
  <1> QED
    BY <1>1, <1>3, <1>4, <1>5, <1>6, <1>7

\* A restore takes the first place that has a value.
LEMMA SettingIsPlaced ==
  ASSUME NEW ss \in [Kinds -> Sessions], NEW f \in {"mode", "reserve", "grid", "rule"}
  PROVE  /\ Setting(ss, f) \in {ss[k].sites[f] : k \in Kinds}
                               \cup {ss[k].saved[f] : k \in Kinds} \cup {"none"}
         /\ Setting(ss, f) = "none" =>
              \A k \in Kinds : ss[k].sites[f] = "none" /\ ss[k].saved[f] = "none"
  <1> DEFINE places == <<ss["discharge"].sites[f], ss["charge"].sites[f],
                         ss["discharge"].saved[f], ss["charge"].saved[f]>>
  <1> DEFINE given == {i \in 1..4 : places[i] # "none"}
  <1>1. /\ places[1] = ss["discharge"].sites[f] /\ places[2] = ss["charge"].sites[f]
        /\ places[3] = ss["discharge"].saved[f] /\ places[4] = ss["charge"].saved[f]
    OBVIOUS
  <1>2. Setting(ss, f) = IF given = {} THEN "none" ELSE places[Min(given)]
    BY DEF Setting
  <1> HIDE DEF places
  <1>3. CASE given = {}
    <2>1. places[1] = "none" /\ places[2] = "none" /\ places[3] = "none" /\ places[4] = "none"
      BY <1>3
    <2> QED
      BY <1>1, <1>2, <1>3, <2>1 DEF Kinds
  <1>4. CASE given # {}
    <2>1. \E x \in given : \A y \in given : x =< y
      <3>1. CASE 1 \in given
        BY <3>1
      <3>2. CASE 1 \notin given /\ 2 \in given
        BY <3>2
      <3>3. CASE 1 \notin given /\ 2 \notin given /\ 3 \in given
        BY <3>3
      <3>4. CASE 1 \notin given /\ 2 \notin given /\ 3 \notin given
        BY <1>4, <3>4
      <3> QED
        BY <3>1, <3>2, <3>3, <3>4
    <2>2. Min(given) \in given
      BY <2>1 DEF Min
    <2>3. Min(given) \in 1..4 /\ places[Min(given)] # "none"
      BY <2>2
    <2>4. Setting(ss, f) = places[Min(given)]
      BY <1>2, <1>4
    <2> QED
      BY <1>1, <2>3, <2>4 DEF Kinds
  <1> QED
    BY <1>3, <1>4

-----------------------------------------------------------------------------
(* Mishaps are few                                                         *)

LEMMA FourAreFinite ==
  ASSUME NEW a, NEW b, NEW c, NEW d
  PROVE  IsFiniteSet({a, b, c, d})
  <1>1. IsFiniteSet({})
    BY FS_EmptySet
  <1>2. IsFiniteSet({} \cup {a})
    BY <1>1, FS_AddElement
  <1>3. IsFiniteSet(({} \cup {a}) \cup {b})
    BY <1>2, FS_AddElement
  <1>4. IsFiniteSet((({} \cup {a}) \cup {b}) \cup {c})
    BY <1>3, FS_AddElement
  <1>5. IsFiniteSet(((({} \cup {a}) \cup {b}) \cup {c}) \cup {d})
    BY <1>4, FS_AddElement
  <1>6. {a, b, c, d} = ((({} \cup {a}) \cup {b}) \cup {c}) \cup {d}
    OBVIOUS
  <1> QED
    BY <1>5, <1>6

LEMMA MishapsAreFinite == IsFiniteSet(Mishaps)
  <1> DEFINE A == {"overlap", "overtaken", "crash", "restarted"}
  <1> DEFINE B == {"switched", "unread", "raised", "gave_up"}
  <1> DEFINE C == {"idle", "low_soc", "optimizer", "reserve"}
  <1> DEFINE D == {"reserve_refused", "overwritten", "looked_late", "forgotten"}
  <1>1. IsFiniteSet(A) /\ IsFiniteSet(B) /\ IsFiniteSet(C) /\ IsFiniteSet(D)
    BY FourAreFinite
  <1>2. Mishaps = ((A \cup B) \cup C) \cup D
    BY DEF Mishaps
  <1> HIDE DEF A, B, C, D
  <1>3. IsFiniteSet(A \cup B)
    BY <1>1, FS_Union
  <1>4. IsFiniteSet((A \cup B) \cup C)
    BY <1>1, <1>3, FS_Union
  <1>5. IsFiniteSet(((A \cup B) \cup C) \cup D)
    BY <1>1, <1>4, FS_Union
  <1> QED
    BY <1>2, <1>5

\* A failure that is allowed keeps the count within its bound.
LEMMA FewIsBounded ==
  ASSUME NEW ms \in SUBSET Happens, NEW n \in Nat, Few(ms, n)
  PROVE  n \in 0..MaxFailures
  <1>1. IsFiniteSet(ms \ {"reserve"})
    BY MishapsAreFinite, HappensAreMishaps, FS_Subset
  <1>2. Cardinality(ms \ {"reserve"}) \in Nat
    BY <1>1, FS_CardinalityType
  <1> QED
    BY <1>2, BoundsAreNaturals DEF Few

-----------------------------------------------------------------------------
(* Handlers                                                                *)

LEMMA SettingsAre ==
  ASSUME NEW g \in Settings
  PROVE  /\ g.mode \in {"none", "auto", "self"} /\ g.grid \in {"none", "on", "off"}
         /\ g.reserve \in {"none", "own", "new", "zero", "full", "nudge"}
         /\ g.rule \in {"none", "ok", "never"}
  BY DEF Settings

LEMMA HandlersAre ==
  ASSUME NEW o \in Handlers
  PROVE  /\ o.kind \in {"free", "restore", "reserve", "startup"} \cup Kinds
         /\ o.at \in Stages /\ o.cur \in BOOLEAN /\ o.res \in BOOLEAN
         /\ o.source \in {"user", "optimizer"} /\ o.skip \in BOOLEAN /\ o.opt \in BOOLEAN
         /\ o.was \in SUBSET Kinds /\ o.retry \in 0..MaxRetries /\ o.failed \in BOOLEAN
         /\ o.goal \in Settings /\ o.base \in Settings
         /\ o.after \in {"", "drop"} \cup Kinds
  BY DEF Handlers

\* Where a handler is does not depend on anything but its kind, request and goal.
LEMMA PlacedAlike ==
  ASSUME NEW o, NEW p, p.kind = o.kind, p.at = o.at, p.goal = o.goal, Placed(o)
  PROVE  Placed(p)
  BY DEF Placed

LEMMA SupersededTyped ==
  ASSUME HandlerTypes
  PROVE  /\ Superseded \in [Slots -> Handlers]
         /\ \A t \in Slots : Placed(Superseded[t])
         /\ \A t \in Slots : Superseded[t] = [op[t] EXCEPT !.cur = FALSE]
  <1>1. ASSUME NEW t \in Slots
        PROVE  /\ [op[t] EXCEPT !.cur = FALSE] \in Handlers
               /\ Placed([op[t] EXCEPT !.cur = FALSE])
    <2>1. op[t] \in Handlers /\ Placed(op[t])
      BY DEF HandlerTypes
    <2> DEFINE p == [op[t] EXCEPT !.cur = FALSE]
    <2>2. p \in Handlers /\ p.kind = op[t].kind /\ p.at = op[t].at /\ p.goal = op[t].goal
      BY <2>1 DEF Handlers
    <2> HIDE DEF p
    <2>3. Placed(p)
      BY <2>1, <2>2, PlacedAlike
    <2> QED
      BY <2>2, <2>3 DEF p
  <1>2. \A t \in Slots : Superseded[t] = [op[t] EXCEPT !.cur = FALSE]
    BY DEF Superseded
  <1>3. Superseded \in [Slots -> Handlers]
    BY <1>1 DEF Superseded
  <1> QED
    BY <1>1, <1>2, <1>3

LEMMA PutTyped ==
  ASSUME HandlerTypes, NEW s \in Slots, NEW o \in Handlers, Placed(o),
         op' = [op EXCEPT ![s] = o] \/ op' = [Superseded EXCEPT ![s] = o]
  PROVE  HandlerTypes'
  <1>1. CASE op' = [op EXCEPT ![s] = o]
    BY <1>1 DEF HandlerTypes, Placed
  <1>2. CASE op' = [Superseded EXCEPT ![s] = o]
    <2>1. op' \in [Slots -> Handlers]
      BY <1>2, SupersededTyped
    <2>2. ASSUME NEW t \in Slots
          PROVE  Placed(op'[t])
      <3>1. CASE t = s
        <4>1. op'[t] = o
          BY <1>2, <3>1, SupersededTyped
        <4> QED
          BY <4>1
      <3>2. CASE t # s
        <4>1. op'[t] = Superseded[t]
          BY <1>2, <3>2, SupersededTyped
        <4> QED
          BY <4>1, SupersededTyped
      <3> QED
        BY <3>1, <3>2
    <2>3. (\A t \in Slots : Placed(op[t]))'
      BY <2>2 DEF Placed
    <2> QED
      BY <2>1, <2>3 DEF HandlerTypes
  <1> QED
    BY <1>1, <1>2

LEMMA GoTyped ==
  ASSUME Types, NEW s \in Slots, NEW o, NEW at, Go(s, o, at),
         [o EXCEPT !.at = at] \in Handlers, Placed([o EXCEPT !.at = at])
  PROVE  HandlerTypes' /\ SessionTypes' /\ StoreTypes' /\ kept' = kept
  <1>1. HandlerTypes /\ SessionTypes /\ StoreTypes
    BY DEF Types
  <1>2. HandlerTypes'
    BY <1>1, PutTyped DEF Go
  <1>3. SessionTypes' /\ StoreTypes' /\ kept' = kept
    BY <1>1 DEF Go, SessionTypes, StoreTypes
  <1> QED
    BY <1>2, <1>3

Disks == [rec : Records, pending : {"none", "all", "skip"}]
Timers == SUBSET (Kinds \X (0..MaxRetries))

LEMMA LeaveTyped ==
  ASSUME Types, NEW s \in Slots, NEW d \in Disks, NEW t \in Timers, Leave(s, d, t)
  PROVE  HandlerTypes' /\ StoreTypes'
  <1>1. HandlerTypes /\ Free \in Handlers /\ Placed(Free)
    BY Blanks DEF Types
  <1>2. HandlerTypes'
    BY <1>1, PutTyped DEF Leave
  <1>3. disk' \in Disks
    BY Blanks DEF Leave, Disks
  <1>4. timers' \in Timers
    <2>1. CASE op[s].after \in Kinds
      <3>1. timers' = t \cup {<<op[s].after, 0>>}
        BY <2>1 DEF Leave
      <3>2. <<op[s].after, 0>> \in Kinds \X (0..MaxRetries)
        BY <2>1, BoundsAreNaturals
      <3> QED
        BY <3>1, <3>2 DEF Timers
    <2>2. CASE op[s].after \notin Kinds
      BY <2>2 DEF Leave
    <2> QED
      BY <2>1, <2>2
  <1>5. StoreTypes'
    BY <1>3, <1>4 DEF StoreTypes, Disks, Timers
  <1> QED
    BY <1>2, <1>5

LEMMA EndTyped ==
  ASSUME Types, NEW s \in Slots, End(s)
  PROVE  HandlerTypes' /\ SessionTypes' /\ StoreTypes' /\ kept' = kept
  <1>1. disk \in Disks /\ timers \in Timers /\ SessionTypes
    BY DEF Types, StoreTypes, Disks, Timers
  <1>2. Leave(s, disk, timers) /\ sess' = sess /\ kept' = kept
    BY DEF End
  <1>3. HandlerTypes' /\ StoreTypes'
    BY <1>1, <1>2, LeaveTyped
  <1> QED
    BY <1>1, <1>2, <1>3 DEF SessionTypes

-----------------------------------------------------------------------------
(* Records and goals                                                       *)

LEMMA RecordTyped ==
  ASSUME NEW ss \in [Kinds -> Sessions]
  PROVE  Record(ss) \in Records
  <1>1. ss["charge"] \in Sessions /\ ss["discharge"] \in Sessions
    BY DEF Kinds
  <1>2. \A k \in Kinds : [kind |-> k, source |-> ss[k].source, skip |-> ss[k].skip,
                          saved |-> ss[k].saved] \in Records
    BY DEF Records, Sessions
  <1>3. CASE Active(ss) = {}
    BY <1>3, Blanks DEF Record
  <1>4. CASE Active(ss) # {}
    <2> DEFINE k == IF ss["charge"].active THEN "charge" ELSE "discharge"
    <2>1. k \in Kinds
      BY DEF Kinds
    <2>2. Record(ss) = [kind |-> k, source |-> ss[k].source, skip |-> ss[k].skip,
                        saved |-> ss[k].saved]
      BY <1>4 DEF Record
    <2> HIDE DEF k
    <2> QED
      BY <1>2, <2>1, <2>2
  <1> QED
    BY <1>3, <1>4

LEMMA SettingTyped ==
  ASSUME NEW ss \in [Kinds -> Sessions]
  PROVE  /\ Setting(ss, "mode") \in {"none", "auto", "self"}
         /\ Setting(ss, "grid") \in {"none", "on", "off"}
         /\ Setting(ss, "reserve") \in {"none", "own", "new", "zero", "full", "nudge"}
         /\ Setting(ss, "rule") \in {"none", "ok", "never"}
  <1>1. ASSUME NEW k \in Kinds
        PROVE  ss[k].sites \in Settings /\ ss[k].saved \in Settings
    BY DEF Sessions
  <1>2. \A k \in Kinds : /\ ss[k].sites.mode \in {"none", "auto", "self"}
                         /\ ss[k].saved.mode \in {"none", "auto", "self"}
    BY <1>1, SettingsAre
  <1>3. \A k \in Kinds : /\ ss[k].sites.grid \in {"none", "on", "off"}
                         /\ ss[k].saved.grid \in {"none", "on", "off"}
    BY <1>1, SettingsAre
  <1>4. \A k \in Kinds :
          /\ ss[k].sites.reserve \in {"none", "own", "new", "zero", "full", "nudge"}
          /\ ss[k].saved.reserve \in {"none", "own", "new", "zero", "full", "nudge"}
    BY <1>1, SettingsAre
  <1>5. \A k \in Kinds : /\ ss[k].sites.rule \in {"none", "ok", "never"}
                         /\ ss[k].saved.rule \in {"none", "ok", "never"}
    BY <1>1, SettingsAre
  <1>6. Setting(ss, "mode") \in {ss[k].sites.mode : k \in Kinds}
                                \cup {ss[k].saved.mode : k \in Kinds} \cup {"none"}
    BY SettingIsPlaced
  <1>7. Setting(ss, "grid") \in {ss[k].sites.grid : k \in Kinds}
                                \cup {ss[k].saved.grid : k \in Kinds} \cup {"none"}
    BY SettingIsPlaced
  <1>8. Setting(ss, "reserve") \in {ss[k].sites.reserve : k \in Kinds}
                                   \cup {ss[k].saved.reserve : k \in Kinds} \cup {"none"}
    BY SettingIsPlaced
  <1>9. Setting(ss, "rule") \in {ss[k].sites.rule : k \in Kinds}
                                \cup {ss[k].saved.rule : k \in Kinds} \cup {"none"}
    BY SettingIsPlaced
  <1> QED
    BY <1>2, <1>3, <1>4, <1>5, <1>6, <1>7, <1>8, <1>9

LEMMA ModeGoalTyped ==
  ASSUME NEW ss \in [Kinds -> Sessions], NEW o
  PROVE  ModeGoal(o, ss) \in {"auto", "self"}
  BY SettingTyped DEF ModeGoal, OrElse

LEMMA GoalTyped ==
  ASSUME SessionTypes, NEW o, o.goal \in Settings, NEW low \in BOOLEAN
  PROVE  /\ Goal(o, low) \in Settings
         /\ Goal(o, low).mode = o.goal.mode /\ Goal(o, low).grid = o.goal.grid
         /\ Goal(o, low).reserve = IF low THEN "none" ELSE Setting(sess, "reserve")
         /\ Goal(o, low).rule =
              IF Setting(sess, "rule") = "ok" THEN "none" ELSE Setting(sess, "rule")
  <1>1. /\ Setting(sess, "reserve") \in {"none", "own", "new", "zero", "full", "nudge"}
        /\ Setting(sess, "rule") \in {"none", "ok", "never"}
    BY SettingTyped DEF SessionTypes
  <1> QED
    BY <1>1 DEF Goal, Settings

-----------------------------------------------------------------------------
(* Requests                                                                *)

LEMMA LandedTyped ==
  ASSUME GatewayTypes, NEW o \in Handlers, Placed(o), o.kind # "free"
  PROVE  Landed(o) \in Gateway /\ Missed(o) \subseteq Gateway
  <1>1. /\ hw \in Gateway /\ o.goal \in Settings
        /\ o.kind \in {"restore", "reserve", "startup", "charge", "discharge"}
    BY HandlersAre DEF GatewayTypes, Kinds
  <1> DEFINE g == o.goal
  <1>2. /\ g.mode \in {"none", "auto", "self"} /\ g.grid \in {"none", "on", "off"}
        /\ g.rule \in {"none", "ok", "never"}
        /\ g.reserve \in {"none", "own", "new", "zero", "full", "nudge"}
    BY <1>1, SettingsAre
  <1>10. /\ [hw EXCEPT !.grid = g.grid] \in Gateway \/ g.grid = "none"
         /\ [hw EXCEPT !.reserve = "nudge"] \in Gateway
    BY <1>1, <1>2 DEF Gateway
  <1>11. Missed(o) \subseteq Gateway
    BY <1>1, <1>10 DEF Missed
  <1>3. CASE o.at = "handoff"
    BY <1>1, <1>3, <1>11 DEF Landed, Gateway
  <1>4. CASE o.at = "mode"
    <2>1. g.mode # "none"
      BY <1>1, <1>4 DEF Placed, Kinds, ForceGoal
    <2> QED
      BY <1>1, <1>2, <1>4, <1>11, <2>1 DEF Landed, Gateway
  <1>5. CASE o.at = "grid"
    <2>1. g.grid # "none"
      BY <1>1, <1>5 DEF Placed, Kinds, ForceGoal
    <2> QED
      BY <1>1, <1>5, <1>10, <1>11, <2>1 DEF Landed
  <1>6. CASE o.at = "rule"
    <2>1. g.rule # "none"
      BY <1>1, <1>6 DEF Placed, Kinds, ForceGoal
    <2> QED
      BY <1>1, <1>2, <1>6, <1>11, <2>1 DEF Landed, Gateway
  <1>7. CASE o.at \in {"reserve", "pulsing"}
    <2>1. g.reserve # "none"
      <3>1. CASE o.kind \in {"charge", "discharge"}
        <4>1. o.goal = ForceGoal(o.kind)
          BY <1>7, <3>1 DEF Placed, Kinds
        <4> QED
          BY <3>1, <4>1 DEF ForceGoal
      <3>2. CASE o.kind \in {"restore", "reserve", "startup"}
        BY <1>7, <3>2 DEF Placed
      <3> QED
        BY <1>1, <3>1, <3>2
    <2> QED
      BY <1>1, <1>2, <1>7, <1>11, <2>1 DEF Landed, Gateway
  <1>8. CASE o.at = "tariff"
    <2>1. o.kind \in {"restore", "charge", "discharge"}
      BY <1>1, <1>8 DEF Placed, Kinds
    <2> QED
      BY <1>1, <1>8, <1>11, <2>1 DEF Landed, Gateway, Kinds
  <1>9. CASE o.at \notin {"handoff", "mode", "grid", "rule", "reserve", "pulsing", "tariff"}
    BY <1>1, <1>9, <1>11 DEF Landed
  <1> QED
    BY <1>3, <1>4, <1>5, <1>6, <1>7, <1>8, <1>9

LEMMA AnswerTyped ==
  ASSUME Types, NEW s \in Slots, NEW a \in Answers, op[s].kind # "free", Answer(s, a)
  PROVE  hw' \in Gateway /\ failures' \in 0..MaxFailures
  <1>1. GatewayTypes /\ op[s] \in Handlers /\ Placed(op[s])
    BY DEF Types, HandlerTypes
  <1>2. hw' \in Gateway
    BY <1>1, LandedTyped DEF Answer
  <1>3. failures \in 0..MaxFailures /\ mishaps \subseteq Happens
    BY DEF Types, CountTypes
  <1>4. CASE a = "ok"
    <2>1. failures' = failures + 0
      BY <1>4 DEF Answer
    <2> QED
      BY <1>2, <1>3, <2>1, BoundsAreNaturals
  <1>5. CASE a # "ok"
    <2>1. Few(mishaps, failures + 1) /\ failures' = failures + 1
      BY <1>5 DEF Answer
    <2>2. failures + 1 \in Nat /\ mishaps \in SUBSET Happens
      BY <1>3
    <2>3. failures + 1 \in 0..MaxFailures
      BY <2>1, <2>2, FewIsBounded
    <2> QED
      BY <1>2, <1>3, <2>1, <2>3, BoundsAreNaturals
  <1> QED
    BY <1>2, <1>4, <1>5

LEMMA FailureTyped ==
  ASSUME Types, Few(mishaps, failures + 1)
  PROVE  failures + 1 \in 0..MaxFailures
  <1>1. failures + 1 \in Nat /\ mishaps \in SUBSET Happens
    BY DEF Types, CountTypes
  <1> QED
    BY <1>1, FewIsBounded

-----------------------------------------------------------------------------
(* Restores and commands begin                                             *)

LEMMA StartRestoreTyped ==
  ASSUME Types, NEW s \in Slots, NEW source \in {"user", "optimizer"},
         NEW retry \in 0..MaxRetries, NEW after \in {"", "drop"} \cup Kinds,
         NEW keep \in BOOLEAN, NEW ss \in [Kinds -> Sessions],
         StartRestore(s, source, retry, after, keep, ss)
  PROVE  HandlerTypes' /\ SessionTypes' /\ timers' \in Timers
  <1> DEFINE o == [Free EXCEPT !.kind = "restore", !.cur = TRUE, !.res = TRUE,
                     !.skip = keep \/ \E k \in Kinds : ss[k].skip,
                     !.opt = source = "optimizer" \/ \E k \in Kinds : ss[k].source = "optimizer",
                     !.was = Active(ss), !.retry = retry, !.after = after]
  <1> DEFINE n == IF NothingToRestore(ss) THEN Free
                  ELSE IF o.was # {} THEN [o EXCEPT !.at = "handoff"]
                  ELSE IF cached THEN [o EXCEPT !.at = "tariff"]
                  ELSE [o EXCEPT !.at = "mode", !.goal.mode = ModeGoal(o, ss)]
  <1>1. /\ sess' = ss /\ timers' = {} /\ op' = [Superseded EXCEPT ![s] = n]
    BY DEF StartRestore
  <1>2. Active(ss) \in SUBSET Kinds
    BY DEF Active
  <1>3. o \in Handlers /\ o.kind = "restore" /\ o.goal = Blank
    BY <1>2, Blanks DEF Handlers, Free, Stages
  <1>4. ModeGoal(o, ss) \in {"auto", "self"}
    BY ModeGoalTyped
  <1>5. n \in Handlers /\ Placed(n)
    <2> HIDE DEF o
    <2>1. CASE n = Free
      BY <2>1, Blanks
    <2>2. CASE n = [o EXCEPT !.at = "handoff"]
      BY <1>3, <2>2 DEF Handlers, Stages, Placed, Kinds
    <2>3. CASE n = [o EXCEPT !.at = "tariff"]
      BY <1>3, <2>3 DEF Handlers, Stages, Placed, Kinds
    <2>4. CASE n = [o EXCEPT !.at = "mode", !.goal.mode = ModeGoal(o, ss)]
      <3> DEFINE m == ModeGoal(o, ss)
      <3> HIDE DEF m
      <3>1. n = [o EXCEPT !.at = "mode", !.goal.mode = m] /\ m \in {"auto", "self"}
        BY <1>4, <2>4 DEF m
      <3>2. n \in Handlers /\ n.kind = "restore" /\ n.at = "mode"
        <4>1. o.goal \in Settings /\ [o.goal EXCEPT !.mode = m] \in Settings
          BY <1>3, <3>1, Blanks DEF Settings
        <4>2. n = [o EXCEPT !.at = "mode", !.goal = [o.goal EXCEPT !.mode = m]]
          BY <1>3, <3>1 DEF Handlers
        <4> QED
          BY <1>3, <4>1, <4>2 DEF Handlers, Stages
      <3>3. n.goal.mode = m
        BY <1>3, <3>1 DEF Handlers, Settings
      <3> QED
        BY <3>1, <3>2, <3>3 DEF Placed, Kinds
    <2> QED
      BY <2>1, <2>2, <2>3, <2>4
  <1> HIDE DEF n, o
  <1>6. HandlerTypes'
    BY <1>1, <1>5, PutTyped DEF Types
  <1>7. SessionTypes'
    BY <1>1 DEF SessionTypes
  <1> QED
    BY <1>1, <1>6, <1>7 DEF Timers

LEMMA InheritedTyped ==
  ASSUME SessionTypes, NEW k \in Kinds
  PROVE  Inherited(k) \in [Kinds -> Sessions]
  <1>1. /\ sess[k] \in Sessions /\ Other(k) \in Kinds /\ Other(k) # k
        /\ sess[Other(k)] \in Sessions /\ sess \in [Kinds -> Sessions]
    BY DEF SessionTypes, Kinds, Other
  <1> DEFINE b == [sess[Other(k)].saved EXCEPT !.rule =
                     IF k = "charge" THEN "none" ELSE sess[k].saved.rule]
  <1>2. b \in Settings
    <2>1. sess[Other(k)].saved \in Settings /\ sess[k].saved \in Settings
      BY <1>1 DEF Sessions
    <2> QED
      BY <2>1 DEF Settings
  <1>3. CASE ~sess[Other(k)].active
    BY <1>1, <1>3 DEF Inherited
  <1>4. CASE sess[Other(k)].active
    <2>1. Inherited(k) = [sess EXCEPT ![k].saved = b, ![Other(k)].active = FALSE,
                            ![Other(k)].saved = Blank]
      BY <1>4 DEF Inherited
    <2> HIDE DEF b
    <2> DEFINE x == [sess[k] EXCEPT !.saved = b]
    <2> DEFINE y == [sess[Other(k)] EXCEPT !.active = FALSE, !.saved = Blank]
    <2>2. x \in Sessions /\ y \in Sessions
      BY <1>1, <1>2, Blanks DEF Sessions
    <2>3. Inherited(k) = [sess EXCEPT ![k] = x, ![Other(k)] = y]
      BY <1>1, <2>1
    <2> HIDE DEF x, y
    <2> QED
      BY <1>1, <2>2, <2>3
  <1> QED
    BY <1>3, <1>4

LEMMA FirstPlaced ==
  ASSUME NEW k \in Kinds
  PROVE  First(k) \in IF k = "charge" THEN {"baseline", "mode"} ELSE {"baseline", "grid"}
  BY DEF First

LEMMA BeginTyped ==
  ASSUME Types, NEW s \in Slots, NEW k \in Kinds, NEW source \in {"user", "optimizer"},
         NEW after \in {""} \cup Kinds, Begin(s, k, source, after)
  PROVE  HandlerTypes' /\ SessionTypes' /\ StoreTypes' /\ kept' = FALSE
         /\ mishaps' \subseteq Happens
  <1> DEFINE o == [Free EXCEPT !.kind = k, !.cur = TRUE, !.res = TRUE, !.source = source,
                     !.goal = ForceGoal(k), !.after = after, !.at = First(k)]
  <1>1. /\ op' = [Superseded EXCEPT ![s] = o] /\ timers' = {} /\ disk' = disk
        /\ sess' = [Inherited(k) EXCEPT ![k].active = TRUE, ![k].source = source,
                      ![k].skip = FALSE]
        /\ kept' = FALSE
    BY DEF Begin
  <1>2. First(k) \in Stages /\ ForceGoal(k) \in Settings
    BY FirstPlaced, Blanks DEF Stages
  <1>3. o \in Handlers
    BY <1>2, Blanks DEF Handlers, Free
  <1>4. o.kind = k /\ o.at = First(k) /\ o.goal = ForceGoal(k)
    BY DEF Free
  <1>5. Placed(o)
    <2> HIDE DEF o
    <2>1. k \in {"charge", "discharge"}
      BY DEF Kinds
    <2> QED
      BY <1>4, <2>1, FirstPlaced DEF Placed, Kinds
  <1> HIDE DEF o
  <1>6. HandlerTypes'
    BY <1>1, <1>3, <1>5, PutTyped DEF Types
  <1>7. Inherited(k) \in [Kinds -> Sessions]
    BY InheritedTyped DEF Types
  <1>8. SessionTypes'
    <2> DEFINE i == Inherited(k)
    <2> HIDE DEF i
    <2>1. i[k] \in Sessions /\ i \in [Kinds -> Sessions]
      BY <1>7 DEF i
    <2>2. sess' = [i EXCEPT ![k].active = TRUE, ![k].source = source, ![k].skip = FALSE]
      BY <1>1 DEF i
    <2> QED
      BY <2>1, <2>2 DEF SessionTypes, Sessions
  <1>9. StoreTypes'
    BY <1>1 DEF Types, StoreTypes
  <1>10. mishaps' \subseteq Happens
    BY DEF Begin, Mishap, Types, CountTypes
  <1> QED
    BY <1>1, <1>6, <1>8, <1>9, <1>10

LEMMA MishapTyped ==
  ASSUME CountTypes, NEW ms, Mishap(ms)
  PROVE  mishaps' \subseteq Happens
  BY DEF CountTypes, Mishap

LEMMA CleanUpTyped ==
  ASSUME Types, NEW s \in Slots, op[s].kind \in Kinds, NEW keep \in BOOLEAN,
         NEW flag \in BOOLEAN, NEW ms, CleanUp(s, keep, flag, ms)
  PROVE  HandlerTypes' /\ SessionTypes' /\ StoreTypes' /\ kept' \in BOOLEAN
         /\ mishaps' \subseteq Happens
  <1> DEFINE k == op[s].kind
  <1> DEFINE ss == [sess EXCEPT ![k].skip = flag, ![k].active = TRUE,
                      ![k].source = op[s].source]
  <1>1. /\ StartRestore(s, "user", 0, op[s].after, flag, ss)
        /\ disk' = Recorded(ss) /\ kept' = keep /\ Mishap(Overlaps(s) \cup ms)
    BY DEF CleanUp
  <1>2. op[s] \in Handlers /\ sess \in [Kinds -> Sessions] /\ k \in Kinds
    BY DEF Types, HandlerTypes, SessionTypes
  <1>3. op[s].after \in {"", "drop"} \cup Kinds /\ op[s].source \in {"user", "optimizer"}
    BY <1>2, HandlersAre
  <1>4. ss \in [Kinds -> Sessions]
    <2>1. sess[k] \in Sessions
      BY <1>2
    <2> HIDE DEF k
    <2> QED
      BY <1>2, <1>3, <2>1 DEF Sessions
  <1> HIDE DEF ss, k
  <1>9. 0 \in 0..MaxRetries /\ StartRestore(s, "user", 0, op[s].after, flag, ss)
    BY <1>1, BoundsAreNaturals
  <1>5. HandlerTypes' /\ SessionTypes' /\ timers' \in Timers
    BY <1>3, <1>4, <1>9, StartRestoreTyped
  <1>6. disk' \in Disks
    <2>1. Record(ss) \in Records /\ disk \in Disks
      BY <1>4, RecordTyped DEF Types, StoreTypes, Disks
    <2> QED
      BY <1>1, <2>1 DEF Recorded, Disks
  <1>7. StoreTypes'
    BY <1>5, <1>6 DEF StoreTypes, Disks, Timers
  <1>8. mishaps' \subseteq Happens
    BY <1>1, MishapTyped DEF Types
  <1> QED
    BY <1>1, <1>5, <1>7, <1>8

-----------------------------------------------------------------------------
(* How a restore goes on                                                   *)

LEMMA ClearedTyped == SessionTypes => Cleared \in [Kinds -> Sessions]
  <1> SUFFICES ASSUME SessionTypes PROVE Cleared \in [Kinds -> Sessions]
    OBVIOUS
  <1>1. sess["charge"].source \in {"user", "optimizer"}
    BY DEF SessionTypes, Kinds, Sessions
  <1>2. ASSUME NEW k \in Kinds
        PROVE  [NoSession EXCEPT !.source = IF k = "charge" THEN sess[k].source ELSE "user"]
                 \in Sessions
    BY <1>1, Blanks DEF Sessions, NoSession
  <1> QED
    BY <1>2 DEF Cleared

LEMMA FinishTyped ==
  ASSUME Types, NEW s \in Slots, NEW o \in Handlers, o.kind = "restore", Finish(s, o)
  PROVE  HandlerTypes' /\ SessionTypes' /\ StoreTypes' /\ kept' = kept
  <1>1. CASE o.failed
    <2> DEFINE n == [o EXCEPT !.at = "note"]
    <2>1. n \in Handlers /\ n.kind = "restore" /\ n.at = "note"
      BY DEF Handlers, Stages
    <2>2. Placed(n)
      BY <2>1 DEF Placed, Kinds
    <2>3. Go(s, o, "note")
      BY <1>1 DEF Finish
    <2> QED
      BY <2>1, <2>2, <2>3, GoTyped
  <1>2. CASE ~o.failed
    <2>1. /\ sess' = Cleared /\ kept' = kept
          /\ Leave(s, [rec |-> Record(Cleared), pending |-> "none"], timers)
      BY <1>2 DEF Finish
    <2>2. Cleared \in [Kinds -> Sessions]
      BY ClearedTyped DEF Types
    <2>3. [rec |-> Record(Cleared), pending |-> "none"] \in Disks
      BY <2>2, RecordTyped DEF Disks
    <2>4. timers \in Timers
      BY DEF Types, StoreTypes, Timers
    <2>5. HandlerTypes' /\ StoreTypes'
      BY <2>1, <2>3, <2>4, LeaveTyped
    <2> QED
      BY <2>1, <2>2, <2>5 DEF SessionTypes
  <1> QED
    BY <1>1, <1>2 DEF Handlers

LEMMA AfterGridTyped ==
  ASSUME Types, NEW s \in Slots, NEW o \in Handlers, o.kind = "restore", AfterGrid(s, o)
  PROVE  HandlerTypes' /\ SessionTypes' /\ StoreTypes' /\ kept' = kept
  <1>1. CASE o.goal.reserve # "none" /\ ~o.skip
    <2> DEFINE n == [o EXCEPT !.at = "pulse"]
    <2>1. n \in Handlers /\ n.kind = "restore" /\ n.at = "pulse" /\ n.goal = o.goal
      BY DEF Handlers, Stages
    <2>2. Placed(n)
      BY <1>1, <2>1 DEF Placed, Kinds
    <2>3. Go(s, o, "pulse")
      BY <1>1 DEF AfterGrid
    <2> QED
      BY <2>1, <2>2, <2>3, GoTyped
  <1>2. CASE ~(o.goal.reserve # "none" /\ ~o.skip)
    BY <1>2, FinishTyped DEF AfterGrid
  <1> QED
    BY <1>1, <1>2

LEMMA AfterRuleTyped ==
  ASSUME Types, NEW s \in Slots, NEW o \in Handlers, o.kind = "restore", AfterRule(s, o)
  PROVE  HandlerTypes' /\ SessionTypes' /\ StoreTypes' /\ kept' = kept
  <1> DEFINE g == OrElse(Setting(sess, "grid"), pref)
  <1>1. g \in {"none", "on", "off"}
    <2>1. Setting(sess, "grid") \in {"none", "on", "off"} /\ pref \in {"none", "on", "off"}
      BY SettingTyped DEF Types, SessionTypes, KnownTypes
    <2> QED
      BY <2>1 DEF OrElse
  <1>2. CASE g = "none"
    BY <1>2, AfterGridTyped DEF AfterRule
  <1>3. CASE g # "none"
    <2>1. Go(s, [o EXCEPT !.goal.grid = g], "grid")
      BY <1>3 DEF AfterRule
    <2> HIDE DEF g
    <2> DEFINE p == [o EXCEPT !.goal.grid = g]
    <2> DEFINE n == [p EXCEPT !.at = "grid"]
    <2>2. p \in Handlers /\ p.kind = "restore" /\ p.goal.grid = g
      <3>1. o.goal \in Settings
        BY DEF Handlers
      <3>2. [o.goal EXCEPT !.grid = g] \in Settings /\ [o.goal EXCEPT !.grid = g].grid = g
        BY <1>1, <3>1 DEF Settings
      <3>3. p = [o EXCEPT !.goal = [o.goal EXCEPT !.grid = g]]
        BY DEF Handlers
      <3> QED
        BY <3>2, <3>3 DEF Handlers
    <2> HIDE DEF p
    <2>3. n \in Handlers /\ n.kind = "restore" /\ n.at = "grid" /\ n.goal.grid = g
      BY <2>2 DEF Handlers, Stages
    <2>4. Placed(n)
      BY <1>3, <2>3 DEF Placed, Kinds
    <2>5. Go(s, p, "grid")
      BY <2>1 DEF p
    <2> QED
      BY <2>3, <2>4, <2>5, GoTyped
  <1> QED
    BY <1>2, <1>3

LEMMA AfterModeTyped ==
  ASSUME Types, NEW s \in Slots, NEW o \in Handlers, o.kind = "restore", AfterMode(s, o)
  PROVE  HandlerTypes' /\ SessionTypes' /\ StoreTypes' /\ kept' = kept
  <1>1. CASE o.goal.rule # "none"
    <2> DEFINE n == [o EXCEPT !.at = "rule"]
    <2>1. n \in Handlers /\ n.kind = "restore" /\ n.at = "rule" /\ n.goal = o.goal
      BY DEF Handlers, Stages
    <2>2. Placed(n)
      BY <1>1, <2>1 DEF Placed, Kinds
    <2>3. Go(s, o, "rule")
      BY <1>1 DEF AfterMode
    <2> QED
      BY <2>1, <2>2, <2>3, GoTyped
  <1>2. CASE o.goal.rule = "none" /\ o.cur
    BY <1>2, AfterRuleTyped DEF AfterMode
  <1>3. CASE o.goal.rule = "none" /\ ~o.cur
    BY <1>3, EndTyped DEF AfterMode
  <1> QED
    BY <1>1, <1>2, <1>3

-----------------------------------------------------------------------------
(* Every step                                                              *)

\* The parts a step of one handler can touch.
LEMMA RestoreAnswerTyped ==
  ASSUME Types, NEW s \in Slots, RestoreAnswer(s)
  PROVE  Types'
  <1> DEFINE o == op[s]
  <1>1. o.kind = "restore" /\ o \in Handlers /\ o.goal \in Settings /\ Placed(o)
    BY DEF RestoreAnswer, Types, HandlerTypes, Handlers
  <1>2. PICK a \in Answers :
          LET p == [o EXCEPT !.failed = @ \/ a # "ok"] IN
          /\ Answer(s, a)
          /\ \/ /\ o.at \in {"handoff", "tariff"} /\ o.cur
                /\ IF o.at = "handoff" /\ cached
                     THEN Go(s, p, "tariff")
                     ELSE Go(s, [p EXCEPT !.goal.mode = ModeGoal(o, sess)], "mode")
                /\ UNCHANGED mishaps
             \/ o.at \in {"handoff", "tariff"} /\ ~o.cur /\ End(s) /\ UNCHANGED mishaps
             \/ /\ o.at = "mode"
                /\ \E low \in BOOLEAN :
                     /\ low => "discharge" \in o.was
                     /\ Chance(If(low, "low_soc")) /\ AfterMode(s, [p EXCEPT !.goal = Goal(p, low)])
             \/ /\ o.at = "rule" /\ a # "lost" /\ UNCHANGED mishaps
                /\ IF o.cur THEN AfterRule(s, p) ELSE End(s)
             \/ /\ o.at = "grid" /\ UNCHANGED mishaps
                /\ IF o.cur THEN AfterGrid(s, p) ELSE End(s)
    BY DEF RestoreAnswer
  <1> DEFINE p == [o EXCEPT !.failed = @ \/ a # "ok"]
  <1>3. /\ p \in Handlers /\ p.kind = "restore" /\ p.goal = o.goal /\ p.at = o.at
        /\ p.cur = o.cur
    BY <1>1 DEF Handlers
  <1>4. SessionTypes /\ kept \in BOOLEAN /\ mishaps \subseteq Happens
    BY DEF Types, KnownTypes, CountTypes
  <1>5. hw' \in Gateway /\ failures' \in 0..MaxFailures
    BY <1>1, <1>2, AnswerTyped
  <1>6. own' = own /\ known' = known /\ counts' = counts
    BY DEF RestoreAnswer
  <1>7. SessionTypes' /\ StoreTypes' /\ HandlerTypes' /\ kept' = kept
        /\ mishaps' \subseteq Happens
    <2> HIDE DEF p, o
    <2>1. CASE o.at \in {"handoff", "tariff"} /\ o.cur /\ o.at = "handoff" /\ cached
      <3>1. Go(s, p, "tariff") /\ mishaps' = mishaps
        BY <1>2, <2>1 DEF p, o
      <3> DEFINE n == [p EXCEPT !.at = "tariff"]
      <3>2. n \in Handlers /\ n.kind = "restore" /\ n.at = "tariff"
        BY <1>3 DEF Handlers, Stages
      <3>3. Placed(n)
        BY <3>2 DEF Placed, Kinds
      <3> QED
        BY <1>4, <3>1, <3>2, <3>3, GoTyped
    <2>2. CASE o.at \in {"handoff", "tariff"} /\ o.cur /\ ~(o.at = "handoff" /\ cached)
      <3> DEFINE m == ModeGoal(o, sess)
      <3> HIDE DEF m
      <3> DEFINE q == [p EXCEPT !.goal.mode = m]
      <3> DEFINE n == [q EXCEPT !.at = "mode"]
      <3>1. Go(s, q, "mode") /\ mishaps' = mishaps
        BY <1>2, <2>2 DEF p, o, m
      <3>2. m \in {"auto", "self"}
        BY <1>4, ModeGoalTyped DEF m, SessionTypes
      <3>3. p.goal \in Settings /\ [p.goal EXCEPT !.mode = m] \in Settings
        BY <1>1, <1>3, <3>2 DEF Settings
      <3>4. q = [p EXCEPT !.goal = [p.goal EXCEPT !.mode = m]] /\ [p.goal EXCEPT !.mode = m].mode = m
        BY <1>3, <3>3 DEF Handlers, Settings
      <3>5. n \in Handlers /\ n.kind = "restore" /\ n.at = "mode" /\ n.goal.mode = m
        BY <1>3, <3>3, <3>4 DEF Handlers, Stages
      <3>6. Placed(n)
        BY <3>2, <3>5 DEF Placed, Kinds
      <3> QED
        BY <1>4, <3>1, <3>5, <3>6, GoTyped
    <2>3. CASE o.at \in {"handoff", "tariff"} /\ ~o.cur
      <3>1. End(s) /\ mishaps' = mishaps
        BY <1>2, <2>3 DEF p, o
      <3> QED
        BY <1>4, <3>1, EndTyped
    <2>4. CASE o.at = "mode"
      <3>1. PICK low \in BOOLEAN :
              Chance(If(low, "low_soc")) /\ AfterMode(s, [p EXCEPT !.goal = Goal(p, low)])
        BY <1>2, <2>4 DEF p, o
      <3> DEFINE g == Goal(p, low)
      <3> DEFINE q == [p EXCEPT !.goal = g]
      <3>2. g \in Settings
        BY <1>1, <1>3, <1>4, GoalTyped
      <3> HIDE DEF g
      <3>3. q \in Handlers /\ q.kind = "restore"
        BY <1>3, <3>2 DEF Handlers
      <3>4. AfterMode(s, q)
        BY <3>1 DEF g
      <3>5. mishaps' \subseteq Happens
        BY <1>4, <3>1 DEF Chance, Mishap
      <3> HIDE DEF q
      <3> QED
        BY <3>3, <3>4, <3>5, AfterModeTyped
    <2>5. CASE o.at = "rule"
      <3>1. mishaps' = mishaps /\ IF o.cur THEN AfterRule(s, p) ELSE End(s)
        BY <1>2, <2>5 DEF p, o
      <3> QED
        BY <1>3, <1>4, <3>1, AfterRuleTyped, EndTyped
    <2>6. CASE o.at = "grid"
      <3>1. mishaps' = mishaps /\ IF o.cur THEN AfterGrid(s, p) ELSE End(s)
        BY <1>2, <2>6 DEF p, o
      <3> QED
        BY <1>3, <1>4, <3>1, AfterGridTyped, EndTyped
    <2> QED
      BY <1>2, <2>1, <2>2, <2>3, <2>4, <2>5, <2>6 DEF o
  <1> QED
    BY <1>5, <1>6, <1>7 DEF Types, GatewayTypes, KnownTypes, CountTypes, known, counts

LEMMA NoteAnswerTyped ==
  ASSUME Types, NEW s \in Slots, NoteAnswer(s)
  PROVE  Types'
  <1> DEFINE o == op[s]
  <1> DEFINE k == IF "charge" \in o.was \/ sess["charge"].active THEN "charge" ELSE "discharge"
  <1> DEFINE noted == [disk EXCEPT !.pending = IF o.skip THEN "skip" ELSE "all"]
  <1>1. k \in Kinds /\ o \in Handlers /\ o.retry \in 0..MaxRetries
    BY DEF Types, HandlerTypes, Handlers, Kinds
  <1>2. noted \in Disks
    BY DEF Types, StoreTypes, Disks
  <1>3. [noted EXCEPT !.rec = Record(sess)] \in Disks
    <2>1. Record(sess) \in Records
      BY RecordTyped DEF Types, SessionTypes
    <2> QED
      BY <1>2, <2>1 DEF Disks
  <1>4. timers \in Timers
    BY DEF Types, StoreTypes, Timers
  <1>5. Retries(o) => Armed(k, o.retry + 1) \in Timers
    <2>1. SUFFICES ASSUME Retries(o) PROVE Armed(k, o.retry + 1) \in Timers
      OBVIOUS
    <2>2. o.retry + 1 \in 0..MaxRetries
      BY <1>1, <2>1, BoundsAreNaturals DEF Retries
    <2>3. <<k, o.retry + 1>> \in Kinds \X (0..MaxRetries)
      BY <1>1, <2>2
    <2> HIDE DEF k, o
    <2> QED
      BY <1>4, <2>3 DEF Armed, Timers
  <1>6. /\ IF Retries(o)
             THEN Leave(s, [noted EXCEPT !.rec = Record(sess)], Armed(k, o.retry + 1))
             ELSE Leave(s, noted, timers)
        /\ mishaps' \subseteq Happens
        /\ UNCHANGED <<hw, own, sess, known, kept, counts, failures>>
    BY DEF NoteAnswer, Types, CountTypes, Mishap
  <1> HIDE DEF noted, k, o
  <1>7. HandlerTypes' /\ StoreTypes'
    BY <1>2, <1>3, <1>4, <1>5, <1>6, LeaveTyped
  <1> QED
    BY <1>6, <1>7
       DEF Types, GatewayTypes, SessionTypes, KnownTypes, CountTypes, known, counts

LEMMA SlotIsFree ==
  ASSUME HasSlot
  PROVE  Slot \in Slots /\ op[Slot].kind = "free"
  BY DEF HasSlot, Slot

LEMMA ForceCommandTyped ==
  ASSUME Types, NEW k \in Kinds, NEW source \in Sources, ForceCommand(k, source)
  PROVE  Types'
  <1>1. /\ commands < MaxCommands /\ commands' = commands + 1 /\ HasSlot
        /\ UNCHANGED <<hw, own, known, reserves, restarts, failures>>
        /\ IF sess[k].active \/ sess[Other(k)].active
             THEN Begin(Slot, k, source, "")
             ELSE /\ Go(Slot, [Free EXCEPT !.kind = k, !.source = source], "look")
                  /\ mishaps' \subseteq Happens
    BY DEF ForceCommand, Mishap, Types, CountTypes
  <1>2. source \in {"user", "optimizer"} /\ Slot \in Slots
    BY <1>1, ParametersAreKnown, SlotIsFree
  <1>3. commands' \in 0..MaxCommands
    <2>1. commands \in 0..MaxCommands /\ MaxCommands \in Nat
      BY BoundsAreNaturals DEF Types, CountTypes
    <2>2. commands < MaxCommands /\ commands' = commands + 1
      BY <1>1
    <2> HIDE <1>1
    <2> QED
      BY <2>1, <2>2
  <1>4. SessionTypes' /\ StoreTypes' /\ HandlerTypes' /\ kept' \in BOOLEAN
        /\ mishaps' \subseteq Happens
    <2>1. CASE sess[k].active \/ sess[Other(k)].active
      BY <1>1, <1>2, <2>1, BeginTyped
    <2>2. CASE ~(sess[k].active \/ sess[Other(k)].active)
      <3> DEFINE p == [Free EXCEPT !.kind = k, !.source = source]
      <3> DEFINE n == [p EXCEPT !.at = "look"]
      <3>1. n \in Handlers /\ n.kind = k /\ n.at = "look"
        BY <1>2, Blanks DEF Handlers, Stages, Free
      <3>2. Placed(n)
        BY <3>1 DEF Placed, Kinds
      <3>3. Go(Slot, p, "look")
        BY <1>1, <2>2
      <3> HIDE DEF p
      <3> QED
        BY <1>1, <1>2, <2>2, <3>1, <3>2, <3>3, GoTyped DEF Types, KnownTypes
    <2> QED
      BY <2>1, <2>2
  <1> QED
    BY <1>1, <1>3, <1>4 DEF Types, GatewayTypes, KnownTypes, CountTypes, known

LEMMA LookAnswerTyped ==
  ASSUME Types, NEW s \in Slots, op[s].kind \in Kinds, LookAnswer(s)
  PROVE  Types'
  <1>1. op[s] \in Handlers /\ op[s].source \in {"user", "optimizer"}
    BY DEF Types, HandlerTypes, Handlers
  <1>2. UNCHANGED <<hw, own, cached, counts, failures>>
    BY DEF LookAnswer
  <1>3. CASE pref' = hw.grid /\ Begin(s, op[s].kind, op[s].source, "")
    <2>1. HandlerTypes' /\ SessionTypes' /\ StoreTypes' /\ kept' \in BOOLEAN
          /\ mishaps' \subseteq Happens
      BY <1>1, <1>3, BeginTyped
    <2>2. pref' \in {"none", "on", "off"}
      BY <1>3 DEF Types, GatewayTypes, Gateway
    <2> QED
      BY <1>2, <2>1, <2>2 DEF Types, GatewayTypes, KnownTypes, CountTypes, counts
  <1>4. CASE pref' = pref /\ End(s) /\ UNCHANGED mishaps
    <2>1. HandlerTypes' /\ SessionTypes' /\ StoreTypes' /\ kept' = kept
      BY <1>4, EndTyped
    <2> QED
      BY <1>2, <1>4, <2>1 DEF Types, GatewayTypes, KnownTypes, CountTypes, counts
  <1> QED
    BY <1>3, <1>4 DEF LookAnswer

LEMMA ReadTyped ==
  ASSUME GatewayTypes, NEW k
  PROVE  Read(k) \in Settings
  BY DEF GatewayTypes, Gateway, Read, Settings

LEMMA SaveTyped ==
  ASSUME SessionTypes, NEW k \in Kinds, NEW b \in Settings
  PROVE  Save(sess, k, b) \in [Kinds -> Sessions]
  <1>1. sess[k] \in Sessions
    BY DEF SessionTypes
  <1> QED
    BY <1>1 DEF SessionTypes, Save, Sessions

LEMMA BaselineAnswerTyped ==
  ASSUME Types, NEW s \in Slots, op[s].kind \in Kinds, BaselineAnswer(s)
  PROVE  Types'
  <1> DEFINE k == op[s].kind
  <1> DEFINE Based(b) ==
        IF k = "charge"
          THEN /\ op' = [op EXCEPT ![s].at = "mode"] /\ sess' = Save(s, k, b)
               /\ UNCHANGED <<timers, disk, kept>>
          ELSE Go(s, [op[s] EXCEPT !.base = b], "rule")
  <1>1. /\ \/ /\ pref' = hw.grid /\ cached' = (cached \/ hw.tariff = "own")
              /\ Based(Read(k)) /\ UNCHANGED <<mishaps, failures>>
           \/ Based(Blank) /\ Chance({"unread"}) /\ UNCHANGED <<known, failures>>
           \/ /\ Few(mishaps, failures + 1) /\ failures' = failures + 1
              /\ sess' = [sess EXCEPT ![k].active = FALSE]
              /\ Leave(s, disk, timers) /\ UNCHANGED <<known, mishaps, kept>>
        /\ UNCHANGED <<hw, own, counts>>
        /\ op[s].at = "baseline"
    BY DEF BaselineAnswer
  <1>2. op[s] \in Handlers /\ Placed(op[s]) /\ SessionTypes /\ StoreTypes /\ HandlerTypes
        /\ GatewayTypes /\ KnownTypes /\ CountTypes
    BY DEF Types, HandlerTypes
  <1>3. op[s].goal = ForceGoal(k)
    BY <1>1, <1>2 DEF Placed
  <1>4. ASSUME NEW b \in Settings, Based(b)
        PROVE  SessionTypes' /\ StoreTypes' /\ HandlerTypes' /\ kept' = kept
    <2>1. CASE k = "charge"
      <3> DEFINE n == [op[s] EXCEPT !.at = "mode"]
      <3>1. n \in Handlers /\ n.kind = "charge" /\ n.at = "mode" /\ n.goal = ForceGoal("charge")
        BY <1>2, <1>3, <2>1 DEF Handlers, Stages
      <3>2. Placed(n)
        BY <3>1 DEF Placed, Kinds
      <3>3. op' = [op EXCEPT ![s] = n] /\ sess' = Save(s, k, b)
            /\ UNCHANGED <<timers, disk, kept>>
        BY <1>4, <2>1
      <3>4. HandlerTypes'
        BY <1>2, <3>1, <3>2, <3>3, PutTyped
      <3>5. Save(s, k, b) \in [Kinds -> Sessions]
        <4>1. sess[k] \in Sessions /\ sess \in [Kinds -> Sessions]
          BY <1>2 DEF SessionTypes
        <4> HIDE DEF k
        <4> QED
          BY <4>1 DEF Save, Sessions
      <3> QED
        BY <1>2, <3>3, <3>4, <3>5 DEF SessionTypes, StoreTypes
    <2>2. CASE k # "charge"
      <3> DEFINE p == [op[s] EXCEPT !.base = b]
      <3> DEFINE n == [p EXCEPT !.at = "rule"]
      <3>1. k = "discharge"
        BY <2>2 DEF Kinds
      <3>2. n \in Handlers /\ n.kind = "discharge" /\ n.at = "rule"
            /\ n.goal = ForceGoal("discharge")
        BY <1>2, <1>3, <3>1 DEF Handlers, Stages
      <3>3. Placed(n)
        BY <3>2 DEF Placed, Kinds
      <3>4. Go(s, p, "rule")
        BY <1>4, <2>2
      <3> QED
        BY <3>2, <3>3, <3>4, GoTyped
    <2> QED
      BY <2>1, <2>2
  <1> HIDE DEF Based
  <1>5. CASE /\ pref' = hw.grid /\ cached' = (cached \/ hw.tariff = "own")
             /\ Based(Read(k)) /\ UNCHANGED <<mishaps, failures>>
    <2>1. SessionTypes' /\ StoreTypes' /\ HandlerTypes' /\ kept' = kept
      BY <1>2, <1>4, <1>5, ReadTyped
    <2>2. KnownTypes'
      BY <1>2, <1>5, <2>1 DEF KnownTypes, GatewayTypes, Gateway
    <2> QED
      BY <1>1, <1>2, <1>5, <2>1, <2>2 DEF Types, GatewayTypes, CountTypes, counts
  <1>6. CASE Based(Blank) /\ Chance({"unread"}) /\ UNCHANGED <<known, failures>>
    <2>1. SessionTypes' /\ StoreTypes' /\ HandlerTypes' /\ kept' = kept
      BY <1>4, <1>6, Blanks
    <2>2. mishaps' \subseteq Happens
      BY <1>2, <1>6 DEF Chance, Mishap, CountTypes
    <2> QED
      BY <1>1, <1>2, <1>6, <2>1, <2>2
         DEF Types, GatewayTypes, KnownTypes, CountTypes, counts, known
  <1>7. CASE /\ Few(mishaps, failures + 1) /\ failures' = failures + 1
             /\ sess' = [sess EXCEPT ![k].active = FALSE]
             /\ Leave(s, disk, timers) /\ UNCHANGED <<known, mishaps, kept>>
    <2>1. disk \in Disks /\ timers \in Timers
      BY <1>2 DEF StoreTypes, Disks, Timers
    <2>2. HandlerTypes' /\ StoreTypes'
      BY <1>7, <2>1, LeaveTyped
    <2>3. SessionTypes'
      BY <1>2, <1>7 DEF SessionTypes, Sessions
    <2>4. failures' \in 0..MaxFailures
      BY <1>7, FailureTyped
    <2> QED
      BY <1>1, <1>2, <1>7, <2>2, <2>3, <2>4
         DEF Types, GatewayTypes, KnownTypes, CountTypes, counts, known
  <1> QED
    BY <1>1, <1>5, <1>6, <1>7

\* A force command goes on to its next request.
LEMMA ForceGoesTyped ==
  ASSUME Types, NEW s \in Slots, op[s].kind \in Kinds, op[s].at # "look", NEW at,
         \/ op[s].kind = "charge" /\ at \in {"grid", "reserve", "tariff", "pulse", "pulsing"}
         \/ op[s].kind = "discharge" /\ at \in {"mode", "tariff", "pulse", "pulsing"},
         Go(s, op[s], at)
  PROVE  HandlerTypes' /\ SessionTypes' /\ StoreTypes' /\ kept' = kept
  <1> DEFINE n == [op[s] EXCEPT !.at = at]
  <1>1. op[s] \in Handlers /\ Placed(op[s])
    BY DEF Types, HandlerTypes
  <1>2. n \in Handlers /\ n.kind = op[s].kind /\ n.at = at /\ n.goal = op[s].goal
    BY <1>1 DEF Handlers, Stages
  <1>3. op[s].goal = ForceGoal(op[s].kind)
    BY <1>1 DEF Placed
  <1>4. Placed(n)
    <2> HIDE DEF n
    <2>1. n.kind \in {"charge", "discharge"} /\ n.goal = ForceGoal(n.kind)
      BY <1>2, <1>3 DEF Kinds
    <2> QED
      BY <1>2, <2>1 DEF Placed, Kinds
  <1> QED
    BY <1>2, <1>4, GoTyped

LEMMA ChargeAnswerTyped ==
  ASSUME Types, NEW s \in Slots, ChargeAnswer(s)
  PROVE  Types'
  <1>1. op[s].kind = "charge" /\ op[s].kind \in Kinds
    BY DEF ChargeAnswer, Kinds
  <1>2. PICK a \in Answers :
       /\ Answer(s, a)
       /\ \/ op[s].at = "mode" /\ a = "ok" /\ GoOn(s, "grid")
          \/ op[s].at = "mode" /\ a # "ok" /\ Cleanup(s, FALSE)
          \/ op[s].at = "grid" /\ a = "ok" /\ Go(s, op[s], "reserve") /\ UNCHANGED mishaps
          \/ op[s].at = "grid" /\ a # "ok" /\ Fails(s)
          \/ op[s].at = "reserve" /\ ~Locked
               /\ LET over == If(~op[s].res /\ a # "refused", "overwritten") IN
                  IF a = "ok" THEN Go(s, op[s], "tariff") /\ Mishap(over)
                              ELSE CleanUp(s, FALSE, FALSE, over)
          \/ op[s].at = "tariff"
               /\ IF Sent(a) THEN Go(s, op[s], "pulse") /\ UNCHANGED mishaps
                             ELSE Cleanup(s, FALSE)
    BY DEF ChargeAnswer
  <1>3. hw' \in Gateway /\ failures' \in 0..MaxFailures
    BY <1>1, <1>2, AnswerTyped
  <1>4. own' = own /\ known' = known /\ counts' = counts
    BY DEF ChargeAnswer
  <1>5. kept \in BOOLEAN /\ mishaps \subseteq Happens /\ CountTypes
    BY DEF Types, KnownTypes, CountTypes
  <1> DEFINE Good == SessionTypes' /\ StoreTypes' /\ HandlerTypes' /\ kept' \in BOOLEAN
                     /\ mishaps' \subseteq Happens
  <1>6. ASSUME NEW over, CleanUp(s, FALSE, FALSE, over) PROVE Good
    BY <1>1, <1>6, CleanUpTyped
  <1>7. ASSUME NEW at \in {"grid", "reserve", "tariff", "pulse"}, op[s].at # "look",
               Go(s, op[s], at), mishaps' \subseteq Happens
        PROVE  Good
    BY <1>1, <1>5, <1>7, ForceGoesTyped
  <1>8. ASSUME End(s), UNCHANGED mishaps PROVE Good
    BY <1>5, <1>8, EndTyped
  <1>9. Good
    <2>1. CASE op[s].at = "mode" /\ a = "ok" /\ GoOn(s, "grid")
      BY <1>5, <1>7, <1>8, <2>1 DEF GoOn
    <2>2. CASE op[s].at = "mode" /\ a # "ok" /\ Cleanup(s, FALSE)
      BY <1>6, <2>2 DEF Cleanup
    <2>3. CASE op[s].at = "grid" /\ a = "ok" /\ Go(s, op[s], "reserve") /\ UNCHANGED mishaps
      BY <1>5, <1>7, <2>3
    <2>4. CASE op[s].at = "grid" /\ a # "ok" /\ Fails(s)
      BY <1>6, <1>8, <2>4 DEF Fails, Cleanup
    <2>5. CASE op[s].at = "reserve" /\ ~Locked
               /\ LET over == If(~op[s].res /\ a # "refused", "overwritten") IN
                  IF a = "ok" THEN Go(s, op[s], "tariff") /\ Mishap(over)
                              ELSE CleanUp(s, FALSE, FALSE, over)
      <3> DEFINE over == If(~op[s].res /\ a # "refused", "overwritten")
      <3> HIDE DEF over
      <3>1. IF a = "ok" THEN Go(s, op[s], "tariff") /\ Mishap(over)
                        ELSE CleanUp(s, FALSE, FALSE, over)
        BY <2>5 DEF over
      <3>2. CASE a = "ok"
        BY <1>5, <1>7, <2>5, <3>1, <3>2, MishapTyped
      <3>3. CASE a # "ok"
        BY <1>6, <3>1, <3>3
      <3> QED
        BY <3>2, <3>3
    <2>6. CASE op[s].at = "tariff"
               /\ IF Sent(a) THEN Go(s, op[s], "pulse") /\ UNCHANGED mishaps
                             ELSE Cleanup(s, FALSE)
      BY <1>5, <1>6, <1>7, <2>6 DEF Cleanup
    <2> QED
      BY <1>2, <2>1, <2>2, <2>3, <2>4, <2>5, <2>6
  <1> QED
    BY <1>3, <1>4, <1>9 DEF Types, GatewayTypes, KnownTypes, CountTypes, known, counts

LEMMA DischargeAnswerTyped ==
  ASSUME Types, NEW s \in Slots, DischargeAnswer(s)
  PROVE  Types'
  <1>1. op[s].kind = "discharge" /\ op[s].kind \in Kinds
    BY DEF DischargeAnswer, Kinds
  <1>2. PICK a \in Answers :
       /\ Answer(s, a)
       /\ \/ /\ op[s].at = "rule" /\ a # "lost"
             /\ sess' = Save(s, "discharge", op[s].base)
             /\ IF op[s].cur
                  THEN op' = [op EXCEPT ![s].at = "grid"] /\ UNCHANGED <<timers, disk>>
                  ELSE Leave(s, disk, timers)
             /\ UNCHANGED <<kept, mishaps>>
          \/ op[s].at = "grid" /\ a = "ok" /\ Go(s, op[s], "mode") /\ UNCHANGED mishaps
          \/ op[s].at = "grid" /\ a # "ok" /\ Fails(s)
          \/ op[s].at = "mode" /\ Go(s, op[s], "tariff") /\ UNCHANGED mishaps
          \/ op[s].at = "tariff"
               /\ IF Sent(a) THEN Go(s, op[s], "pulse") /\ UNCHANGED mishaps
                             ELSE Cleanup(s, FALSE)
    BY DEF DischargeAnswer
  <1>3. hw' \in Gateway /\ failures' \in 0..MaxFailures
    BY <1>1, <1>2, AnswerTyped
  <1>4. own' = own /\ known' = known /\ counts' = counts
    BY DEF DischargeAnswer
  <1>5. kept \in BOOLEAN /\ mishaps \subseteq Happens /\ HandlerTypes /\ StoreTypes
    BY DEF Types, KnownTypes, CountTypes
  <1> DEFINE Good == SessionTypes' /\ StoreTypes' /\ HandlerTypes' /\ kept' \in BOOLEAN
                     /\ mishaps' \subseteq Happens
  <1>6. ASSUME CleanUp(s, FALSE, FALSE, {}) PROVE Good
    BY <1>1, <1>6, CleanUpTyped
  <1>7. ASSUME NEW at \in {"mode", "tariff", "pulse"}, op[s].at # "look",
               Go(s, op[s], at), UNCHANGED mishaps
        PROVE  Good
    BY <1>1, <1>5, <1>7, ForceGoesTyped
  <1>8. ASSUME End(s), UNCHANGED mishaps PROVE Good
    BY <1>5, <1>8, EndTyped
  <1>9. Good
    <2>1. CASE /\ op[s].at = "rule" /\ a # "lost"
               /\ sess' = Save(s, "discharge", op[s].base)
               /\ IF op[s].cur
                    THEN op' = [op EXCEPT ![s].at = "grid"] /\ UNCHANGED <<timers, disk>>
                    ELSE Leave(s, disk, timers)
               /\ UNCHANGED <<kept, mishaps>>
      <3>1. op[s] \in Handlers /\ Placed(op[s]) /\ op[s].base \in Settings
        BY <1>5 DEF HandlerTypes, Handlers
      <3>2. SessionTypes'
        <4>1. SessionTypes /\ "discharge" \in Kinds
          BY DEF Types, Kinds
        <4>2. Save(sess, "discharge", op[s].base) \in [Kinds -> Sessions]
          BY <3>1, <4>1, SaveTyped
        <4>3. Save(sess, "discharge", op[s].base) = Save(s, "discharge", op[s].base)
          BY DEF Save
        <4> QED
          BY <2>1, <4>2, <4>3 DEF SessionTypes
      <3>3. HandlerTypes' /\ StoreTypes'
        <4>1. CASE op[s].cur
          <5> DEFINE n == [op[s] EXCEPT !.at = "grid"]
          <5>1. n \in Handlers /\ n.kind = "discharge" /\ n.at = "grid" /\ n.goal = op[s].goal
            BY <1>1, <3>1 DEF Handlers, Stages
          <5>2. op[s].goal = ForceGoal("discharge")
            BY <1>1, <2>1, <3>1 DEF Placed
          <5>3. Placed(n)
            BY <5>1, <5>2 DEF Placed, Kinds
          <5>4. op' = [op EXCEPT ![s] = n] /\ UNCHANGED <<timers, disk>>
            BY <2>1, <4>1
          <5>5. HandlerTypes'
            BY <1>5, <5>1, <5>3, <5>4, PutTyped
          <5> QED
            BY <1>5, <5>4, <5>5 DEF StoreTypes
        <4>2. CASE ~op[s].cur
          <5>1. disk \in Disks /\ timers \in Timers
            BY <1>5 DEF StoreTypes, Disks, Timers
          <5> QED
            BY <2>1, <4>2, <5>1, LeaveTyped
        <4> QED
          BY <4>1, <4>2
      <3> QED
        BY <1>5, <2>1, <3>2, <3>3
    <2>2. CASE op[s].at = "grid" /\ a = "ok" /\ Go(s, op[s], "mode") /\ UNCHANGED mishaps
      BY <1>7, <2>2
    <2>3. CASE op[s].at = "grid" /\ a # "ok" /\ Fails(s)
      BY <1>6, <1>8, <2>3 DEF Fails, Cleanup
    <2>4. CASE op[s].at = "mode" /\ Go(s, op[s], "tariff") /\ UNCHANGED mishaps
      BY <1>7, <2>4
    <2>5. CASE op[s].at = "tariff"
               /\ IF Sent(a) THEN Go(s, op[s], "pulse") /\ UNCHANGED mishaps
                             ELSE Cleanup(s, FALSE)
      BY <1>6, <1>7, <2>5 DEF Cleanup
    <2> QED
      BY <1>2, <2>1, <2>2, <2>3, <2>4, <2>5
  <1> QED
    BY <1>3, <1>4, <1>9 DEF Types, GatewayTypes, KnownTypes, CountTypes, known, counts

LEMMA RuleRaisesTyped ==
  ASSUME Types, NEW s \in Slots, op[s].kind \in Kinds \cup {"restore"}, RuleRaises(s)
  PROVE  Types'
  <1>1. /\ op[s].at = "rule" /\ hw' \in {hw, Landed(op[s])}
        /\ IF op[s].kind = "restore" THEN End(s) /\ Mishap({"raised"})
                                     ELSE CleanUp(s, FALSE, FALSE, {"raised"})
        /\ UNCHANGED <<own, known, counts, failures>>
    BY DEF RuleRaises
  <1>2. GatewayTypes /\ CountTypes /\ KnownTypes /\ op[s] \in Handlers /\ Placed(op[s])
        /\ op[s].kind # "free"
    BY DEF Types, HandlerTypes, Kinds
  <1>3. hw' \in Gateway
    BY <1>1, <1>2, LandedTyped DEF GatewayTypes
  <1>4. SessionTypes' /\ StoreTypes' /\ HandlerTypes' /\ kept' \in BOOLEAN
        /\ mishaps' \subseteq Happens
    <2>1. CASE op[s].kind = "restore"
      BY <1>1, <1>2, <2>1, EndTyped, MishapTyped DEF KnownTypes
    <2>2. CASE op[s].kind # "restore"
      BY <1>1, <2>2, CleanUpTyped
    <2> QED
      BY <2>1, <2>2
  <1> QED
    BY <1>1, <1>2, <1>3, <1>4 DEF Types, GatewayTypes, KnownTypes, CountTypes, known, counts

LEMMA RunningTyped ==
  ASSUME Types, NEW s \in Slots, op[s].kind \in Kinds, Running(s)
  PROVE  SessionTypes' /\ StoreTypes' /\ HandlerTypes' /\ kept' = kept
  <1> DEFINE k == op[s].kind
  <1> DEFINE ss == [sess EXCEPT ![k].active = TRUE, ![k].source = op[s].source]
  <1>1. sess' = ss /\ kept' = kept /\ Leave(s, Recorded(ss), Armed(k, 0))
    BY DEF Running
  <1>2. sess[k] \in Sessions /\ sess \in [Kinds -> Sessions] /\ k \in Kinds
        /\ op[s].source \in {"user", "optimizer"} /\ disk \in Disks /\ timers \in Timers
    BY DEF Types, SessionTypes, HandlerTypes, Handlers, StoreTypes, Disks, Timers
  <1> HIDE DEF k
  <1>3. ss \in [Kinds -> Sessions]
    BY <1>2 DEF Sessions
  <1> HIDE DEF ss
  <1>4. Recorded(ss) \in Disks
    BY <1>2, <1>3, RecordTyped DEF Recorded, Disks
  <1>5. Armed(k, 0) \in Timers
    <2>1. <<k, 0>> \in Kinds \X (0..MaxRetries)
      BY <1>2, BoundsAreNaturals
    <2> QED
      BY <1>2, <2>1 DEF Armed, Timers
  <1>6. HandlerTypes' /\ StoreTypes'
    BY <1>1, <1>4, <1>5, LeaveTyped
  <1> QED
    BY <1>1, <1>3, <1>6 DEF SessionTypes

LEMMA PulseOverTyped ==
  ASSUME Types, NEW s \in Slots, op[s].kind \in Kinds \cup {"restore"}, NEW ok \in BOOLEAN,
         PulseOver(s, ok)
  PROVE  /\ SessionTypes' /\ StoreTypes' /\ HandlerTypes' /\ kept' \in BOOLEAN
         /\ mishaps' \subseteq Happens
  <1> DEFINE o == op[s]
  <1>1. o \in Handlers /\ o.cur \in BOOLEAN /\ o.res \in BOOLEAN /\ o.failed \in BOOLEAN
        /\ kept \in BOOLEAN /\ mishaps \subseteq Happens
    BY DEF Types, HandlerTypes, Handlers, KnownTypes, CountTypes
  <1>2. CASE ~o.cur
    BY <1>1, <1>2, EndTyped DEF PulseOver
  <1>3. CASE o.cur /\ o.kind = "restore"
    <2> DEFINE p == [o EXCEPT !.failed = @ \/ (o.res /\ ~ok)]
    <2>1. p \in Handlers /\ p.kind = "restore"
      BY <1>1, <1>3 DEF Handlers
    <2>2. Finish(s, p) /\ mishaps' = mishaps
      BY <1>3 DEF PulseOver
    <2> HIDE DEF p
    <2> QED
      BY <1>1, <2>1, <2>2, FinishTyped
  <1>4. CASE o.cur /\ o.kind # "restore" /\ o.res /\ ok
    <2>1. Running(s) /\ mishaps' = mishaps /\ op[s].kind \in Kinds
      BY <1>4 DEF PulseOver
    <2> QED
      BY <1>1, <2>1, RunningTyped
  <1>5. CASE o.cur /\ o.kind # "restore" /\ ~(o.res /\ ok)
    <2>1. CleanUp(s, ~o.res, ~o.res, {}) /\ op[s].kind \in Kinds
      BY <1>5 DEF PulseOver, Cleanup
    <2>2. (~o.res) \in BOOLEAN
      <3> DEFINE r == o.res
      <3>1. r \in BOOLEAN
        BY <1>1
      <3> HIDE DEF r
      <3>2. (~r) \in BOOLEAN
        BY <3>1
      <3> QED
        BY <3>2 DEF r
    <2> QED
      BY <2>1, <2>2, CleanUpTyped
  <1> QED
    BY <1>2, <1>3, <1>4, <1>5

\* A handler that waits for its pulse is a force command or a restore.
LEMMA PulsesAre ==
  ASSUME Types, NEW s \in Slots, op[s].at \in {"pulse", "pulsing"}
  PROVE  op[s].kind \in Kinds \cup {"restore"}
  <1>1. op[s] \in Handlers /\ Placed(op[s])
    BY DEF Types, HandlerTypes
  <1> QED
    BY <1>1, HandlersAre DEF Placed

LEMMA PulseBeginsTyped ==
  ASSUME Types, NEW s \in Slots, PulseBegins(s)
  PROVE  Types'
  <1>1. /\ op[s].at = "pulse" /\ Go(s, op[s], "pulsing")
        /\ UNCHANGED <<hw, own, known, counts, failures, mishaps>>
    BY DEF PulseBegins
  <1> DEFINE n == [op[s] EXCEPT !.at = "pulsing"]
  <1>2. op[s] \in Handlers /\ Placed(op[s]) /\ op[s].kind \in Kinds \cup {"restore"}
    BY <1>1, PulsesAre DEF Types, HandlerTypes
  <1>3. n \in Handlers /\ n.kind = op[s].kind /\ n.at = "pulsing" /\ n.goal = op[s].goal
    BY <1>2 DEF Handlers, Stages
  <1>4. Placed(n)
    BY <1>1, <1>2, <1>3 DEF Placed, Kinds
  <1>5. SessionTypes' /\ StoreTypes' /\ HandlerTypes' /\ kept' = kept
    BY <1>1, <1>3, <1>4, GoTyped
  <1> QED
    BY <1>1, <1>5 DEF Types, GatewayTypes, KnownTypes, CountTypes, known, counts

LEMMA PulseSkippedTyped ==
  ASSUME Types, NEW s \in Slots, PulseSkipped(s)
  PROVE  Types'
  <1>1. /\ op[s].at = "pulse" /\ PulseOver(s, FALSE)
        /\ UNCHANGED <<hw, own, known, counts, failures>>
    BY DEF PulseSkipped
  <1>2. SessionTypes' /\ StoreTypes' /\ HandlerTypes' /\ kept' \in BOOLEAN
        /\ mishaps' \subseteq Happens
    BY <1>1, PulsesAre, PulseOverTyped
  <1> QED
    BY <1>1, <1>2 DEF Types, GatewayTypes, KnownTypes, CountTypes, known, counts

LEMMA PulseAnswerTyped ==
  ASSUME Types, NEW s \in Slots, PulseAnswer(s)
  PROVE  Types'
  <1>1. op[s].at = "pulsing" /\ UNCHANGED <<own, known, counts>>
    BY DEF PulseAnswer
  <1>2. PICK a \in Answers : Answer(s, a) /\ PulseOver(s, a = "ok")
    BY DEF PulseAnswer
  <1>3. op[s].kind \in Kinds \cup {"restore"} /\ op[s].kind # "free"
    BY <1>1, PulsesAre DEF Kinds
  <1>4. hw' \in Gateway /\ failures' \in 0..MaxFailures
    BY <1>2, <1>3, AnswerTyped
  <1>5. (a = "ok") \in BOOLEAN
    OBVIOUS
  <1>6. SessionTypes' /\ StoreTypes' /\ HandlerTypes' /\ kept' \in BOOLEAN
        /\ mishaps' \subseteq Happens
    BY <1>2, <1>3, <1>5, PulseOverTyped
  <1> QED
    BY <1>1, <1>4, <1>6 DEF Types, GatewayTypes, KnownTypes, CountTypes, known, counts

LEMMA SetReserveTyped ==
  ASSUME Types, SetReserve
  PROVE  Types'
  <1> DEFINE old == [t \in Slots |-> [op[t] EXCEPT !.res = FALSE]]
  <1> DEFINE n == [Free EXCEPT !.kind = "reserve", !.at = "reserve",
                     !.goal = [Blank EXCEPT !.reserve = "new"]]
  <1>1. /\ reserves < MaxReserves /\ reserves' = reserves + 1 /\ HasSlot
        /\ op' = [old EXCEPT ![Slot] = n] /\ mishaps' \subseteq Happens
        /\ UNCHANGED <<hw, own, sess, timers, disk, known, kept, commands, restarts, failures>>
    BY DEF SetReserve, Mishap, Types, CountTypes
  <1>2. Slot \in Slots
    BY <1>1, SlotIsFree
  <1>3. n \in Handlers /\ Placed(n)
    <2>1. [Blank EXCEPT !.reserve = "new"] \in Settings
          /\ [Blank EXCEPT !.reserve = "new"].reserve = "new"
      BY Blanks DEF Settings
    <2>2. n \in Handlers /\ n.kind = "reserve" /\ n.at = "reserve" /\ n.goal.reserve = "new"
      BY <2>1, Blanks DEF Handlers, Stages, Free
    <2> QED
      BY <2>2 DEF Placed, Kinds
  <1> HIDE DEF n
  <1>4. ASSUME NEW t \in Slots
        PROVE  op'[t] \in Handlers /\ Placed(op'[t])
    <2>1. CASE t = Slot
      BY <1>1, <1>2, <1>3, <2>1
    <2>2. CASE t # Slot
      <3> DEFINE p == [op[t] EXCEPT !.res = FALSE]
      <3>1. op[t] \in Handlers /\ Placed(op[t])
        BY DEF Types, HandlerTypes
      <3>2. p \in Handlers /\ p.kind = op[t].kind /\ p.at = op[t].at /\ p.goal = op[t].goal
        BY <3>1 DEF Handlers
      <3>3. op'[t] = p
        BY <1>1, <1>2, <2>2
      <3> HIDE DEF p
      <3>4. Placed(p)
        BY <3>1, <3>2, PlacedAlike
      <3> QED
        BY <3>2, <3>3, <3>4
    <2> QED
      BY <2>1, <2>2
  <1>5. op' \in [Slots -> Handlers]
    BY <1>1, <1>4
  <1>6. HandlerTypes'
    <2>1. (\A t \in Slots : Placed(op[t]))'
      BY <1>4 DEF Placed
    <2> QED
      BY <1>5, <2>1 DEF HandlerTypes
  <1>7. reserves' \in 0..MaxReserves
    <2>1. reserves \in 0..MaxReserves /\ MaxReserves \in Nat
      BY BoundsAreNaturals DEF Types, CountTypes
    <2>2. reserves < MaxReserves /\ reserves' = reserves + 1
      BY <1>1
    <2> HIDE <1>1
    <2> QED
      BY <2>1, <2>2
  <1> QED
    BY <1>1, <1>6, <1>7
       DEF Types, GatewayTypes, SessionTypes, StoreTypes, KnownTypes, CountTypes, known

LEMMA ReserveAnswerTyped ==
  ASSUME Types, NEW s \in Slots, ReserveAnswer(s)
  PROVE  Types'
  <1>1. /\ op[s].kind = "reserve" /\ End(s) /\ UNCHANGED <<known, counts>>
        /\ \/ /\ hw' = Landed(op[s]) /\ own' = [own EXCEPT !.reserve = "new"]
              /\ UNCHANGED <<mishaps, failures>>
           \/ /\ Few(mishaps, failures + 1) /\ failures' = failures + 1
              /\ mishaps' \subseteq Happens /\ UNCHANGED <<hw, own>>
    BY DEF ReserveAnswer, Chance, Mishap, Types, CountTypes
  <1>2. SessionTypes' /\ StoreTypes' /\ HandlerTypes' /\ kept' = kept
    BY <1>1, EndTyped
  <1>3. op[s] \in Handlers /\ Placed(op[s]) /\ op[s].kind # "free" /\ GatewayTypes
    BY <1>1 DEF Types, HandlerTypes
  <1>4. CASE /\ hw' = Landed(op[s]) /\ own' = [own EXCEPT !.reserve = "new"]
             /\ UNCHANGED <<mishaps, failures>>
    <2>1. GatewayTypes'
      BY <1>3, <1>4, LandedTyped DEF GatewayTypes, Gateway
    <2> QED
      BY <1>1, <1>2, <1>4, <2>1 DEF Types, KnownTypes, CountTypes, known, counts
  <1>5. CASE /\ Few(mishaps, failures + 1) /\ failures' = failures + 1
             /\ mishaps' \subseteq Happens /\ UNCHANGED <<hw, own>>
    <2>1. failures' \in 0..MaxFailures
      BY <1>5, FailureTyped
    <2> QED
      BY <1>1, <1>2, <1>5, <2>1 DEF Types, GatewayTypes, KnownTypes, CountTypes, known, counts
  <1> QED
    BY <1>1, <1>4, <1>5

LEMMA RestoreTyped ==
  ASSUME Types, Restore
  PROVE  Types'
  <1>1. /\ commands < MaxCommands /\ commands' = commands + 1 /\ HasSlot
        /\ StartRestore(Slot, "user", 0, "", FALSE, sess) /\ mishaps' \subseteq Happens
        /\ UNCHANGED <<hw, own, disk, known, kept, reserves, restarts, failures>>
    BY DEF Restore, Chance, Mishap, Types, CountTypes
  <1>2. sess \in [Kinds -> Sessions] /\ Slot \in Slots /\ 0 \in 0..MaxRetries
    <2>1. Slot \in Slots
      BY <1>1, SlotIsFree
    <2>2. 0 \in 0..MaxRetries
      BY BoundsAreNaturals
    <2> QED
      BY <2>1, <2>2 DEF Types, SessionTypes
  <1>3. HandlerTypes' /\ SessionTypes' /\ timers' \in Timers
    BY <1>1, <1>2, StartRestoreTyped
  <1>4. commands' \in 0..MaxCommands
    <2>1. commands \in 0..MaxCommands /\ MaxCommands \in Nat
      BY BoundsAreNaturals DEF Types, CountTypes
    <2>2. commands < MaxCommands /\ commands' = commands + 1
      BY <1>1
    <2> HIDE <1>1
    <2> QED
      BY <2>1, <2>2
  <1> QED
    BY <1>1, <1>3, <1>4 DEF Types, GatewayTypes, StoreTypes, KnownTypes, CountTypes, known, Timers

LEMMA FireTyped ==
  ASSUME Types, NEW t \in Kinds \X (0..MaxRetries), Fire(t)
  PROVE  Types'
  <1>1. /\ HasSlot /\ UNCHANGED <<hw, own, disk, known, kept, counts, failures>>
        /\ \/ StartRestore(Slot, "user", t[2], "", FALSE, sess) /\ mishaps' \subseteq Happens
           \/ timers' = timers \ {t} /\ UNCHANGED <<sess, op, mishaps>>
    BY DEF Fire, Chance, Mishap, Types, CountTypes
  <1>2. sess \in [Kinds -> Sessions] /\ Slot \in Slots /\ t[2] \in 0..MaxRetries
        /\ timers \in Timers
    BY <1>1, SlotIsFree DEF Types, SessionTypes, StoreTypes, Timers
  <1>3. HandlerTypes' /\ SessionTypes' /\ timers' \in Timers /\ mishaps' \subseteq Happens
    <2>1. CASE StartRestore(Slot, "user", t[2], "", FALSE, sess) /\ mishaps' \subseteq Happens
      BY <1>2, <2>1, StartRestoreTyped
    <2>2. CASE timers' = timers \ {t} /\ UNCHANGED <<sess, op, mishaps>>
      BY <1>2, <2>2 DEF Types, HandlerTypes, SessionTypes, CountTypes, Timers, Placed
    <2> QED
      BY <1>1, <2>1, <2>2
  <1> QED
    BY <1>1, <1>3
       DEF Types, GatewayTypes, StoreTypes, KnownTypes, CountTypes, known, counts, Timers

LEMMA RestartTyped ==
  ASSUME Types, Restart
  PROVE  Types'
  <1>1. /\ restarts < MaxRestarts /\ restarts' = restarts + 1
        /\ hw' \in Abandoned /\ sess' = Reloaded /\ timers' = {} /\ kept' = (kept /\ Idle)
        /\ op' = [t \in Slots |-> IF t = AnySlot THEN [Free EXCEPT !.kind = "startup"]
                                                  ELSE Free]
        /\ mishaps' \subseteq Happens
        /\ UNCHANGED <<own, disk, known, commands, reserves, failures>>
    BY DEF Restart, Chance, Mishap, Types, CountTypes
  <1>2. hw' \in Gateway
    <2>1. ASSUME NEW t \in Slots
          PROVE  Missed(op[t]) \cup {Landed(op[t])} \subseteq Gateway
      <3>1. op[t] \in Handlers /\ Placed(op[t]) /\ GatewayTypes
        BY DEF Types, HandlerTypes
      <3>2. CASE op[t].kind # "free"
        BY <3>1, <3>2, LandedTyped
      <3>3. CASE op[t].kind = "free"
        <4>1. op[t].at = ""
          BY <3>1, <3>3 DEF Placed
        <4> QED
          BY <3>1, <4>1 DEF Missed, Landed, GatewayTypes
      <3> QED
        BY <3>2, <3>3
    <2> QED
      BY <1>1, <2>1 DEF Abandoned, Types, GatewayTypes
  <1>3. sess' \in [Kinds -> Sessions]
    <2>1. disk.rec \in Records
      BY DEF Types, StoreTypes
    <2>2. disk.rec.source \in {"user", "optimizer"} /\ disk.rec.skip \in BOOLEAN
          /\ disk.rec.saved \in Settings
      BY <2>1 DEF Records
    <2>3. /\ [NoSession EXCEPT !.active = TRUE, !.source = disk.rec.source,
                !.skip = disk.rec.skip, !.saved = disk.rec.saved] \in Sessions
          /\ [NoSession EXCEPT !.skip = disk.rec.skip] \in Sessions
      BY <2>2, Blanks DEF Sessions, NoSession
    <2> QED
      BY <1>1, <2>3 DEF Reloaded
  <1>4. HandlerTypes'
    <2> DEFINE n == [Free EXCEPT !.kind = "startup"]
    <2>1. n \in Handlers /\ n.kind = "startup" /\ n.at = ""
      BY Blanks DEF Handlers, Free
    <2>2. Placed(n)
      BY <2>1 DEF Placed, Kinds
    <2>3. op' = [t \in Slots |-> IF t = AnySlot THEN n ELSE Free]
      BY <1>1
    <2> HIDE DEF n
    <2>4. op' \in [Slots -> Handlers]
      BY <2>1, <2>3, Blanks
    <2>5. \A t \in Slots : op'[t] = n \/ op'[t] = Free
      BY <2>3
    <2>6. \A t \in Slots : Placed(op'[t])
      BY <2>2, <2>5, Blanks
    <2>7. (\A t \in Slots : Placed(op[t]))'
      BY <2>6 DEF Placed
    <2> QED
      BY <2>4, <2>7 DEF HandlerTypes
  <1>5. restarts' \in 0..MaxRestarts
    <2>1. restarts \in 0..MaxRestarts /\ MaxRestarts \in Nat
      BY BoundsAreNaturals DEF Types, CountTypes
    <2>2. restarts < MaxRestarts /\ restarts' = restarts + 1
      BY <1>1
    <2> HIDE <1>1
    <2> QED
      BY <2>1, <2>2
  <1>6. kept' \in BOOLEAN
    BY <1>1
  <1>7. disk' = disk /\ timers' \in Timers
    BY <1>1 DEF Timers
  <1> QED
    BY <1>1, <1>2, <1>3, <1>4, <1>5, <1>6, <1>7
       DEF Types, GatewayTypes, SessionTypes, StoreTypes, KnownTypes, CountTypes, known, Timers

LEMMA StartupTyped ==
  ASSUME Types, NEW s \in Slots, Startup(s)
  PROVE  Types'
  <1> DEFINE rec == disk.rec
  <1>1. /\ IF rec.kind = "none"
             THEN /\ IF disk.pending = "none" THEN End(s)
                     ELSE /\ StartRestore(s, "user", 0, "", disk.pending = "skip", sess)
                          /\ UNCHANGED <<disk, kept>>
                  /\ UNCHANGED mishaps
             ELSE \/ /\ StartRestore(s, rec.source, 0, "drop", FALSE, sess)
                     /\ UNCHANGED <<disk, kept, mishaps>>
                  \/ rec.source = "user" /\ Begin(s, rec.kind, "user", rec.kind)
        /\ UNCHANGED <<hw, own, known, counts, failures>>
    BY DEF Startup
  <1>2. /\ sess \in [Kinds -> Sessions] /\ kept \in BOOLEAN /\ mishaps \subseteq Happens
        /\ rec.kind \in {"none"} \cup Kinds /\ rec.source \in {"user", "optimizer"}
        /\ disk \in Disks /\ timers \in Timers
    BY DEF Types, SessionTypes, KnownTypes, CountTypes, StoreTypes, Disks, Records, Timers
  <1>3. 0 \in 0..MaxRetries
    BY BoundsAreNaturals
  <1>4. ASSUME NEW source \in {"user", "optimizer"}, NEW after \in {"", "drop"},
               NEW keep \in BOOLEAN, StartRestore(s, source, 0, after, keep, sess),
               UNCHANGED <<disk, kept, mishaps>>
        PROVE  SessionTypes' /\ StoreTypes' /\ HandlerTypes' /\ kept' \in BOOLEAN
               /\ mishaps' \subseteq Happens
    <2>1. after \in {"", "drop"} \cup Kinds
      OBVIOUS
    <2>2. HandlerTypes' /\ SessionTypes' /\ timers' \in Timers
      BY <1>2, <1>3, <1>4, <2>1, StartRestoreTyped
    <2> QED
      BY <1>2, <1>4, <2>2 DEF StoreTypes, Disks, Timers
  <1>5. SessionTypes' /\ StoreTypes' /\ HandlerTypes' /\ kept' \in BOOLEAN
        /\ mishaps' \subseteq Happens
    <2>1. CASE rec.kind = "none" /\ disk.pending = "none"
      <3>1. End(s) /\ mishaps' = mishaps
        BY <1>1, <2>1
      <3> QED
        BY <1>2, <3>1, EndTyped
    <2>2. CASE rec.kind = "none" /\ disk.pending # "none"
      <3>1. StartRestore(s, "user", 0, "", disk.pending = "skip", sess)
            /\ UNCHANGED <<disk, kept, mishaps>>
        BY <1>1, <2>2
      <3>2. (disk.pending = "skip") \in BOOLEAN
        OBVIOUS
      <3> QED
        BY <1>4, <3>1, <3>2
    <2>3. CASE rec.kind # "none" /\ StartRestore(s, rec.source, 0, "drop", FALSE, sess)
                /\ UNCHANGED <<disk, kept, mishaps>>
      BY <1>2, <1>4, <2>3
    <2>4. CASE rec.kind # "none" /\ Begin(s, rec.kind, "user", rec.kind)
      <3>1. rec.kind \in Kinds /\ rec.kind \in {""} \cup Kinds
        BY <1>2, <2>4
      <3> QED
        BY <2>4, <3>1, BeginTyped
    <2> QED
      BY <1>1, <2>1, <2>2, <2>3, <2>4
  <1> QED
    BY <1>1, <1>5 DEF Types, GatewayTypes, KnownTypes, CountTypes, known, counts

LEMMA InitTyped == Init => Types
  <1> SUFFICES ASSUME Init PROVE Types
    OBVIOUS
  <1>1. PICK o \in Owns :
          own = [tariff |-> "own", reserve |-> "own", mode |-> o.mode,
                 grid |-> o.grid, rule |-> o.rule]
    BY DEF Init
  <1>2. GatewayTypes
    <2>1. o.mode \in {"auto", "self"} /\ o.grid \in {"on", "off"} /\ o.rule \in {"ok", "never"}
      BY ParametersAreKnown
    <2> QED
      BY <1>1, <2>1 DEF Init, GatewayTypes, Gateway
  <1>3. SessionTypes
    BY Blanks DEF Init, SessionTypes
  <1>4. StoreTypes
    BY Blanks DEF Init, StoreTypes
  <1>5. KnownTypes
    BY ParametersAreKnown DEF Init, KnownTypes
  <1>6. CountTypes
    BY BoundsAreNaturals DEF Init, CountTypes
  <1>7. HandlerTypes
    <2>1. op = [s \in Slots |-> Free] /\ Free \in Handlers /\ Placed(Free)
      BY Blanks DEF Init
    <2>2. op \in [Slots -> Handlers] /\ \A s \in Slots : op[s] = Free
      BY <2>1
    <2>3. \A s \in Slots : Placed(op[s])
      BY <2>1, <2>2
    <2> QED
      BY <2>2, <2>3 DEF HandlerTypes
  <1> QED
    BY <1>2, <1>3, <1>4, <1>5, <1>6, <1>7 DEF Types

\* The kind of handler an answer is for.
LEMMA LooksAre ==
  ASSUME Types, NEW s \in Slots
  PROVE  /\ op[s].at \in {"look", "baseline"} => op[s].kind \in Kinds
         /\ op[s].at = "rule" => op[s].kind \in Kinds \cup {"restore"}
         /\ op[s].at = "note" => op[s].kind = "restore"
  <1>1. op[s] \in Handlers /\ Placed(op[s])
    BY DEF Types, HandlerTypes
  <1> QED
    BY <1>1, HandlersAre DEF Placed, Kinds

\* Every step keeps the types.
LEMMA TypeStep == Types /\ [Next]_vars => Types'
  <1> SUFFICES ASSUME Types, [Next]_vars PROVE Types'
    OBVIOUS
  <1>1. CASE UNCHANGED vars
    <2>1. UNCHANGED <<hw, own, sess, timers, disk, pref, cached, op, kept,
                      mishaps, commands, reserves, restarts, failures>>
      BY <1>1 DEF vars
    <2> QED
      BY <2>1 DEF Types, GatewayTypes, SessionTypes, StoreTypes, KnownTypes, CountTypes,
                  HandlerTypes, Placed
  <1>2. ASSUME NEW s \in Slots, Answered(s)
        PROVE  Types'
    <2>1. CASE LookAnswer(s)
      <3>1. op[s].kind \in Kinds
        BY <2>1, LooksAre DEF LookAnswer
      <3> QED
        BY <2>1, <3>1, LookAnswerTyped
    <2>2. CASE BaselineAnswer(s)
      <3>1. op[s].kind \in Kinds
        BY <2>2, LooksAre DEF BaselineAnswer
      <3> QED
        BY <2>2, <3>1, BaselineAnswerTyped
    <2>3. CASE RuleRaises(s)
      <3>1. op[s].kind \in Kinds \cup {"restore"}
        BY <2>3, LooksAre DEF RuleRaises
      <3> QED
        BY <2>3, <3>1, RuleRaisesTyped
    <2>4. CASE ChargeAnswer(s)
      BY <2>4, ChargeAnswerTyped
    <2>5. CASE DischargeAnswer(s)
      BY <2>5, DischargeAnswerTyped
    <2>6. CASE RestoreAnswer(s)
      BY <2>6, RestoreAnswerTyped
    <2>7. CASE NoteAnswer(s)
      BY <2>7, NoteAnswerTyped
    <2>8. CASE PulseBegins(s)
      BY <2>8, PulseBeginsTyped
    <2>9. CASE PulseSkipped(s)
      BY <2>9, PulseSkippedTyped
    <2>10. CASE PulseAnswer(s)
      BY <2>10, PulseAnswerTyped
    <2>11. CASE ReserveAnswer(s)
      BY <2>11, ReserveAnswerTyped
    <2>12. CASE Startup(s)
      BY <2>12, StartupTyped
    <2> QED
      BY <1>2, <2>1, <2>2, <2>3, <2>4, <2>5, <2>6, <2>7, <2>8, <2>9, <2>10, <2>11, <2>12
         DEF Answered
  <1>3. ASSUME NEW k \in Kinds, NEW source \in Sources, ForceCommand(k, source)
        PROVE  Types'
    BY <1>3, ForceCommandTyped
  <1>4. ASSUME NEW t \in Kinds \X (0..MaxRetries), Fire(t)
        PROVE  Types'
    BY <1>4, FireTyped
  <1>5. CASE Restore
    BY <1>5, RestoreTyped
  <1>6. CASE SetReserve
    BY <1>6, SetReserveTyped
  <1>7. CASE Restart
    BY <1>7, RestartTyped
  <1> QED
    BY <1>1, <1>2, <1>3, <1>4, <1>5, <1>6, <1>7 DEF Next

\* Every variable keeps its type, and every handler is at a request of its kind
\* and has what that request needs.
THEOREM TypeCorrect == Spec => []TypeOK
  <1>1. Spec => []Types
    BY InitTyped, TypeStep, PTL DEF Spec
  <1> QED
    BY <1>1, TypesGiveTypeOK, PTL

-----------------------------------------------------------------------------
(* Who is in flight                                                        *)

Forcing(s)   == op[s].kind \in Kinds /\ op[s].at # "look"
Restoring(s) == op[s].kind = "restore"

\* Only the newest command is current, and one write of the reserve is in flight.
OneCurrent ==
  /\ \A s \in Slots : op[s].cur => Forcing(s) \/ Restoring(s)
  /\ \A s, t \in Slots : op[s].cur /\ op[t].cur => s = t
OnePulse ==
  \A s, t \in Slots : op[s].at = "pulsing" /\ op[t].at = "pulsing" => s = t

\* Only the start-up code waits for a handler, and only for one it has begun.
Afters ==
  \A s \in Slots : /\ op[s].after = "drop" => Restoring(s)
                   /\ ~Forcing(s) /\ ~Restoring(s) => op[s].after = ""

\* The start-up code runs alone, with the session it has read.
StartsAlone ==
  \A s \in Slots : op[s].kind = "startup" =>
    /\ \A t \in Slots \ {s} : op[t].kind = "free"
    /\ sess = Reloaded /\ ~Never({"restarted", "crash"})

Shape == OneCurrent /\ OnePulse /\ Afters /\ StartsAlone

-----------------------------------------------------------------------------
(* What needs a mishap does not come without it                            *)

SpareNone(o) == o.kind # "reserve" /\ ~o.skip /\ (o.cur => o.res)
UsersOwn(o)  == o.source = "user" /\ ~o.opt

Unmarked(o) == /\ Never({"reserve"}) => SpareNone(o)
               /\ Never({"optimizer"}) => UsersOwn(o)
Unflagged(ss, d) ==
  /\ Never({"reserve"}) => ~d.rec.skip /\ d.pending # "skip" /\ \A k \in Kinds : ~ss[k].skip
  /\ Never({"optimizer"}) => d.rec.source = "user" /\ \A k \in Kinds : ss[k].source = "user"

Flags ==
  /\ Unflagged(sess, disk)
  /\ \A s \in Slots : Unmarked(op[s])
  /\ Never({"reserve"}) => own.reserve = "own"

-----------------------------------------------------------------------------
(* Without overlaps                                                        *)

\* A force command that has not written anything yet.
Fresh(s) == op[s].at = "baseline" \/ (op[s].kind = "discharge" /\ op[s].at = "rule")

\* A force command writes alone, but for restores that it has superseded.
ForcesAlone ==
  /\ \A s \in Slots : Forcing(s) => op[s].cur /\ sess[op[s].kind].active
  /\ \A s \in Slots : Fresh(s) => \A k \in Kinds : sess[k].sites = Blank /\ sess[k].saved = Blank
  /\ \A s \in Slots : Restoring(s) =>
       /\ op[s].cur => op[s].was = Active(sess)
       /\ op[s].at = "handoff" => op[s].was # {}
       /\ ~op[s].cur => "overtaken" \in mishaps

\* One session is active; it alone has saved settings, and a charge has no export rule.
OneSession ==
  /\ ~(sess["charge"].active /\ sess["discharge"].active)
  /\ \A k \in Kinds : ~sess[k].active => sess[k].saved = Blank
  /\ Active(sess) = {} => \A k \in Kinds : sess[k].sites = Blank
  /\ sess["charge"].saved.rule = "none" /\ sess["charge"].sites.rule = "none"
  /\ disk.rec.kind = "charge" => disk.rec.saved.rule = "none"

Lane == ForcesAlone /\ OneSession

-----------------------------------------------------------------------------
(* In plain behaviours                                                     *)

Fields == {"mode", "reserve", "grid", "rule"}
Users(f) == {"none"} \cup Usual[f]

\* No session has written anything.
Before == Active(sess) = {} \/ \E s \in Slots : Fresh(s)

\* What is saved, known and about to be written back is the user's.
Kept ==
  /\ \A f \in Fields :
       /\ \A k \in Kinds : sess[k].saved[f] \in Users(f) /\ sess[k].sites[f] \in Users(f)
       /\ disk.rec.saved[f] \in Users(f)
       /\ \A s \in Slots : Restoring(s) => op[s].goal[f] \in Users(f)
       /\ \A s \in Slots : Forcing(s) /\ op[s].at = "rule" => op[s].base[f] \in Usual[f]
  /\ pref \in Users("grid")
  /\ (\E s \in Slots : Forcing(s) /\ op[s].at = "rule") => cached

\* What a session saves, and what it has known.
Saves == \A k \in Kinds : sess[k].active => \A f \in {"mode", "reserve", "grid"} :
                                              sess[k].saved[f] # "none"
RuleKnown == \/ hw.rule \in Usual.rule
             \/ sess["discharge"].saved.rule # "none"
             \/ sess["discharge"].sites.rule # "none"

\* Before a session writes, the gateway is the user's; from then on all that it
\* overwrites is saved.
Covered ==
  /\ Before => /\ hw.tariff = "own" /\ \A f \in Fields : hw[f] \in Usual[f]
               /\ \A s \in Slots : Restoring(s) /\ op[s].at = "pulsing"
                                     => ~Never({"low_soc", "reserve"})
  /\ ~Before => cached /\ Saves /\ RuleKnown
  /\ hw.rule \in {"ok"} \cup Usual.rule
  /\ Never({"restarted"}) /\ sess["discharge"].saved.rule # "none"
       => sess["discharge"].sites.rule # "none"
  /\ Never({"switched"}) /\ sess["discharge"].sites.rule # "none"
       => sess["discharge"].saved.rule # "none"

\* What a restore has restored when it is at o.
Restored(o) ==
  /\ o.was = {} => "idle" \in mishaps /\ o.goal.reserve = "none"
  /\ ~o.failed =>
       /\ o.at \in {"mode", "rule", "grid", "pulse", "pulsing"} => hw.tariff = "own"
       /\ o.at \in {"rule", "grid", "pulse", "pulsing"} => hw.mode \in Usual.mode
       /\ o.at \in {"grid", "pulse", "pulsing"} => hw.rule \in Usual.rule
       /\ o.at \in {"pulse", "pulsing"} => hw.grid \in Usual.grid
  /\ o.at \in {"rule", "grid"} /\ o.goal.reserve = "none" /\ o.was # {} => ~Never({"low_soc"})
Progress == \A s \in Slots : Restoring(s) /\ op[s].cur => Restored(op[s])

\* The record is the session.
RecordIs(ss, r) ==
  IF Active(ss) = {} THEN r.kind = "none"
  ELSE r.kind \in Active(ss) /\ r.saved = ss[r.kind].saved
Recording ==
  Never({"overtaken", "switched"}) =>
    /\ (\A s \in Slots : ~Forcing(s)) => RecordIs(sess, disk.rec)
    /\ (\E s \in Slots : Fresh(s)) => disk.rec.kind = "none"
    /\ Before /\ disk.pending # "none" => "idle" \in mishaps

Good == Kept /\ Covered /\ Progress /\ Recording

Inv == /\ Types /\ Shape /\ Flags
       /\ Never({"overlap"}) => Lane
       /\ Plain => Good

-----------------------------------------------------------------------------
(* Steps of one handler                                                    *)

\* The other handlers stay; or they are superseded.
Only(s)   == \A t \in Slots \ {s} : op'[t] = op[t]
Newest(s) == \A t \in Slots \ {s} : op'[t] = [op[t] EXCEPT !.cur = FALSE]

\* What a handler is but for being current.
LEMMA CurrentOnly ==
  ASSUME Types, NEW t \in Slots
  PROVE  LET p == [op[t] EXCEPT !.cur = FALSE] IN
         /\ ~p.cur /\ p.kind = op[t].kind /\ p.at = op[t].at /\ p.after = op[t].after
         /\ p.res = op[t].res /\ p.source = op[t].source /\ p.skip = op[t].skip
         /\ p.opt = op[t].opt /\ p.was = op[t].was /\ p.goal = op[t].goal
         /\ p.base = op[t].base /\ p.failed = op[t].failed
  BY DEF Types, HandlerTypes, Handlers

\* Whoever acts, the start-up code is not left waiting.
LEMMA StartIsOver ==
  ASSUME Types, Shape, NEW s \in Slots, op[s].kind # "free" \/ HasSlot,
         op'[s].kind # "startup", \A t \in Slots \ {s} : op'[t].kind = op[t].kind
  PROVE  StartsAlone'
  <1>1. \A t \in Slots \ {s} : op[t].kind # "startup"
    BY DEF Shape, StartsAlone, HasSlot
  <1>2. \A t \in Slots : op'[t].kind # "startup"
    BY <1>1
  <1> QED
    BY <1>2 DEF StartsAlone

LEMMA ShapeOnly ==
  ASSUME Types, Shape, NEW s \in Slots, Only(s), op[s].kind # "free" \/ HasSlot,
         op'[s].kind # "startup",
         op'[s].cur => op[s].cur /\ (Forcing(s) \/ Restoring(s))',
         op'[s].at = "pulsing" => op[s].at = "pulsing" \/ ~Locked,
         op'[s].after = "drop" => Restoring(s)',
         (~Forcing(s) /\ ~Restoring(s) => op[s].after = "")'
  PROVE  Shape'
  <1>1. OneCurrent'
    BY DEF Shape, OneCurrent, Only, Forcing, Restoring
  <1>2. OnePulse'
    BY DEF Shape, OnePulse, Only, Locked
  <1>3. Afters'
    BY DEF Shape, Afters, Only, Forcing, Restoring
  <1>4. StartsAlone'
    BY StartIsOver DEF Only
  <1> QED
    BY <1>1, <1>2, <1>3, <1>4 DEF Shape

LEMMA ShapeNewest ==
  ASSUME Types, Shape, NEW s \in Slots, Newest(s), op[s].kind # "free" \/ HasSlot,
         op'[s].kind # "startup",
         op'[s].cur => (Forcing(s) \/ Restoring(s))',
         op'[s].at # "pulsing",
         op'[s].after = "drop" => Restoring(s)',
         (~Forcing(s) /\ ~Restoring(s) => op[s].after = "")'
  PROVE  Shape'
  <1>1. \A t \in Slots \ {s} :
          /\ ~op'[t].cur /\ op'[t].kind = op[t].kind /\ op'[t].at = op[t].at
          /\ op'[t].after = op[t].after
    BY CurrentOnly DEF Newest
  <1>2. OneCurrent'
    BY <1>1 DEF Shape, OneCurrent, Forcing, Restoring
  <1>3. OnePulse'
    BY <1>1 DEF Shape, OnePulse
  <1>4. Afters'
    BY <1>1 DEF Shape, Afters, Forcing, Restoring
  <1>5. StartsAlone'
    BY <1>1, StartIsOver
  <1> QED
    BY <1>2, <1>3, <1>4, <1>5 DEF Shape

LEMMA FlagsOnly ==
  ASSUME Types, Flags, NEW s \in Slots, Only(s) \/ Newest(s), mishaps \subseteq mishaps',
         Unflagged(sess, disk)', Unmarked(op[s])',
         own'.reserve = own.reserve \/ ~Never({"reserve"})'
  PROVE  Flags'
  <1>1. Never({"reserve"})' => Never({"reserve"})
    BY DEF Never
  <1>2. Never({"optimizer"})' => Never({"optimizer"})
    BY DEF Never
  <1>3. ASSUME NEW t \in Slots \ {s} PROVE Unmarked(op[t])'
    <2>1. Unmarked(op[t])
      BY DEF Flags
    <2>2. CASE op'[t] = op[t]
      BY <1>1, <1>2, <2>1, <2>2 DEF Unmarked, SpareNone, UsersOwn
    <2>3. CASE op'[t] = [op[t] EXCEPT !.cur = FALSE]
      BY <1>1, <1>2, <2>1, <2>3, CurrentOnly DEF Unmarked, SpareNone, UsersOwn
    <2> QED
      BY <2>2, <2>3 DEF Only, Newest
  <1>4. (\A t \in Slots : Unmarked(op[t]))'
    BY <1>3
  <1>5. (Never({"reserve"}) => own.reserve = "own")'
    BY <1>1 DEF Flags
  <1> QED
    BY <1>4, <1>5 DEF Flags

\* Nothing is flagged by a step that leaves sessions and disk alone.
LEMMA StillUnflagged ==
  ASSUME Flags, sess' = sess, disk' = disk, mishaps \subseteq mishaps'
  PROVE  Unflagged(sess, disk)'
  BY DEF Flags, Unflagged, Never

-----------------------------------------------------------------------------
(* Steps without overlaps                                                  *)

LEMMA FreeIs ==
  /\ Free.kind = "free" /\ Free.at = "" /\ ~Free.cur /\ ~Free.res /\ Free.source = "user"
  /\ ~Free.skip /\ ~Free.opt /\ Free.was = {} /\ Free.after = "" /\ ~Free.failed
  /\ Free.goal = Blank /\ Free.base = Blank
  BY DEF Free

LEMMA FreshForces ==
  ASSUME Types, NEW s \in Slots, Fresh(s)
  PROVE  Forcing(s) /\ op[s].at \in {"baseline", "rule"}
  <1>1. op[s] \in Handlers /\ Placed(op[s])
    BY DEF Types, HandlerTypes
  <1> QED
    BY <1>1, HandlersAre DEF Fresh, Forcing, Placed, Kinds

\* A force command that writes is the only current handler.
LEMMA ForceIsAlone ==
  ASSUME Types, Shape, Lane, NEW s \in Slots, Forcing(s)
  PROVE  /\ op[s].cur /\ sess[op[s].kind].active /\ op[s].kind \in Kinds
         /\ \A t \in Slots \ {s} : ~Forcing(t) /\ ~op[t].cur /\ ~Fresh(t)
         /\ ~Fresh(s) => ~Before
  <1>1. op[s].cur /\ sess[op[s].kind].active /\ op[s].kind \in Kinds
    BY DEF Lane, ForcesAlone, Forcing
  <1>2. ASSUME NEW t \in Slots \ {s} PROVE ~op[t].cur
    BY <1>1 DEF Shape, OneCurrent
  <1>3. \A t \in Slots \ {s} : ~Forcing(t)
    BY <1>2 DEF Lane, ForcesAlone
  <1>4. \A t \in Slots \ {s} : ~Fresh(t)
    BY <1>3, FreshForces
  <1>5. Active(sess) # {}
    BY <1>1 DEF Active
  <1>6. ~Fresh(s) => ~Before
    BY <1>4, <1>5 DEF Before
  <1> QED
    BY <1>1, <1>2, <1>3, <1>4, <1>6

\* The newest restore knows the session it ends, and nobody forces.
LEMMA RestoreIsAlone ==
  ASSUME Types, Shape, Lane, NEW s \in Slots, Restoring(s), op[s].cur
  PROVE  /\ op[s].was = Active(sess)
         /\ \A t \in Slots : ~Forcing(t) /\ ~Fresh(t)
         /\ \A t \in Slots \ {s} : ~op[t].cur
         /\ Before <=> op[s].was = {}
  <1>1. op[s].was = Active(sess)
    BY DEF Lane, ForcesAlone
  <1>2. \A t \in Slots \ {s} : ~op[t].cur
    BY DEF Shape, OneCurrent
  <1>3. ~Forcing(s)
    BY DEF Forcing, Restoring, Kinds
  <1>4. \A t \in Slots : ~Forcing(t)
    BY <1>2, <1>3 DEF Lane, ForcesAlone
  <1>5. \A t \in Slots : ~Fresh(t)
    BY <1>4, FreshForces
  <1> QED
    BY <1>1, <1>2, <1>4, <1>5 DEF Before

\* Sessions that differ in their flags only.
Alike(ss, tt) ==
  \A k \in Kinds : ss[k].active = tt[k].active /\ ss[k].saved = tt[k].saved
                   /\ ss[k].sites = tt[k].sites

LEMMA AlikeActive ==
  ASSUME NEW ss, NEW tt, Alike(ss, tt)
  PROVE  Active(ss) = Active(tt)
  BY DEF Alike, Active

LEMMA RecordedRule ==
  ASSUME NEW ss \in [Kinds -> Sessions], ss["charge"].saved.rule = "none"
  PROVE  Record(ss).kind = "charge" => Record(ss).saved.rule = "none"
  BY DEF Record, NoRecord

\* A record is of an active session, and of what it has saved.
LEMMA RecordIsOf ==
  ASSUME NEW ss \in [Kinds -> Sessions]
  PROVE  RecordIs(ss, Record(ss))
  <1>1. CASE Active(ss) = {}
    BY <1>1 DEF RecordIs, Record, NoRecord
  <1>2. CASE Active(ss) # {}
    <2> DEFINE k == IF ss["charge"].active THEN "charge" ELSE "discharge"
    <2>1. k \in Active(ss)
      BY <1>2 DEF Active, Kinds
    <2>2. Record(ss) = [kind |-> k, source |-> ss[k].source, skip |-> ss[k].skip,
                        saved |-> ss[k].saved]
      BY <1>2 DEF Record
    <2> HIDE DEF k
    <2>3. Record(ss).kind = k /\ Record(ss).saved = ss[k].saved
      BY <2>2
    <2> QED
      BY <1>2, <2>1, <2>3 DEF RecordIs
  <1> QED
    BY <1>1, <1>2

LEMMA OneSessionStays ==
  ASSUME OneSession, Alike(sess', sess), disk'.rec.kind = "charge" => disk'.rec.saved.rule = "none"
  PROVE  OneSession'
  <1>1. Active(sess') = Active(sess)
    BY AlikeActive
  <1> QED
    BY <1>1 DEF OneSession, Alike, Kinds

\* A handler goes on or ends, and the sessions stay.
LEMMA LaneOnly ==
  ASSUME Types, Shape, Lane, NEW s \in Slots, Only(s), Alike(sess', sess),
         disk'.rec.kind = "charge" => disk'.rec.saved.rule = "none",
         mishaps \subseteq mishaps',
         Forcing(s)' => Forcing(s) /\ op'[s].kind = op[s].kind /\ op'[s].cur = op[s].cur,
         Fresh(s)' => Fresh(s),
         Restoring(s)' => /\ Restoring(s) /\ op'[s].cur = op[s].cur /\ op'[s].was = op[s].was
                          /\ op'[s].at = "handoff" => op[s].at = "handoff"
  PROVE  Lane'
  <1>1. Active(sess') = Active(sess)
    BY AlikeActive
  <1>2. OneSession'
    BY OneSessionStays DEF Lane
  <1>3. ASSUME NEW t \in Slots, Forcing(t)' PROVE op'[t].cur /\ sess'[op'[t].kind].active
    <2>1. Forcing(t) /\ op'[t].kind = op[t].kind /\ op'[t].cur = op[t].cur
      BY <1>3 DEF Only, Forcing
    <2> QED
      BY <2>1 DEF Lane, ForcesAlone, Alike, Forcing
  <1>4. ASSUME NEW t \in Slots, Fresh(t)'
        PROVE  \A k \in Kinds : sess'[k].sites = Blank /\ sess'[k].saved = Blank
    <2>1. Fresh(t)
      BY <1>4 DEF Only, Fresh
    <2> QED
      BY <2>1 DEF Lane, ForcesAlone, Alike
  <1>5. ASSUME NEW t \in Slots, Restoring(t)'
        PROVE  /\ op'[t].cur => op'[t].was = Active(sess')
               /\ op'[t].at = "handoff" => op'[t].was # {}
               /\ ~op'[t].cur => "overtaken" \in mishaps'
    <2>1. /\ Restoring(t) /\ op'[t].cur = op[t].cur /\ op'[t].was = op[t].was
          /\ op'[t].at = "handoff" => op[t].at = "handoff"
      BY <1>5 DEF Only, Restoring
    <2> QED
      BY <1>1, <2>1 DEF Lane, ForcesAlone
  <1>6. ForcesAlone'
    BY <1>3, <1>4, <1>5 DEF ForcesAlone
  <1> QED
    BY <1>2, <1>6 DEF Lane

\* A force command that writes alone saves the settings.
LEMMA LaneSaves ==
  ASSUME Types, Shape, Lane, NEW s \in Slots, Only(s), Forcing(s),
         NEW b \in Settings, sess' = Save(s, op[s].kind, b), disk' = disk,
         op[s].kind = "charge" => b.rule = "none", mishaps \subseteq mishaps',
         ~Fresh(s)',
         Forcing(s)' => op'[s].kind = op[s].kind /\ op'[s].cur = op[s].cur,
         ~Restoring(s)'
  PROVE  Lane'
  <1> DEFINE k == op[s].kind
  <1>1. op[s].cur /\ sess[k].active /\ k \in Kinds
        /\ \A t \in Slots \ {s} : ~Forcing(t) /\ ~op[t].cur /\ ~Fresh(t)
    BY ForceIsAlone
  <1>2. /\ sess \in [Kinds -> Sessions] /\ sess[k] \in Sessions
        /\ sess' = [sess EXCEPT ![k].saved = b, ![k].sites = b]
    BY <1>1 DEF Types, SessionTypes, Save
  <1> HIDE DEF k
  <1>3. /\ \A j \in Kinds : sess'[j].active = sess[j].active
        /\ \A j \in Kinds \ {k} : sess'[j] = sess[j]
        /\ sess'[k].saved = b /\ sess'[k].sites = b
    BY <1>1, <1>2 DEF Sessions
  <1>4. Active(sess') = Active(sess) /\ Active(sess) # {}
    BY <1>1, <1>3 DEF Active
  <1>5. OneSession'
    <2>1. k = "charge" => b.rule = "none"
      BY DEF k
    <2> QED
      BY <1>1, <1>3, <1>4, <2>1 DEF Lane, OneSession, Kinds
  <1>6. ASSUME NEW t \in Slots, Forcing(t)' PROVE op'[t].cur /\ sess'[op'[t].kind].active
    <2>1. t = s
      BY <1>1, <1>6 DEF Only, Forcing
    <2>2. op'[s].kind = k /\ op'[s].cur = op[s].cur
      BY <1>6, <2>1 DEF k
    <2> QED
      BY <1>1, <1>3, <2>1, <2>2
  <1>7. \A t \in Slots : ~Fresh(t)'
    BY <1>1 DEF Only, Fresh
  <1>8. ASSUME NEW t \in Slots, Restoring(t)'
        PROVE  /\ op'[t].cur => op'[t].was = Active(sess')
               /\ op'[t].at = "handoff" => op'[t].was # {}
               /\ ~op'[t].cur => "overtaken" \in mishaps'
    <2>1. t # s /\ op'[t] = op[t] /\ Restoring(t)
      BY <1>8 DEF Only, Restoring
    <2> QED
      BY <1>1, <2>1 DEF Lane, ForcesAlone
  <1>9. ForcesAlone'
    BY <1>6, <1>7, <1>8 DEF ForcesAlone
  <1> QED
    BY <1>5, <1>9 DEF Lane

\* A session whose settings could not be asked for is dropped.
LEMMA LaneLapses ==
  ASSUME Types, Shape, Lane, NEW s \in Slots, Only(s), Fresh(s), op'[s] = Free,
         sess' = [sess EXCEPT ![op[s].kind].active = FALSE], disk'.rec = disk.rec,
         mishaps \subseteq mishaps'
  PROVE  Lane' /\ Active(sess') = {}
  <1> DEFINE k == op[s].kind
  <1>0. Forcing(s)
    BY FreshForces
  <1>1. op[s].cur /\ sess[k].active /\ k \in Kinds
        /\ \A t \in Slots \ {s} : ~Forcing(t) /\ ~op[t].cur /\ ~Fresh(t)
    BY <1>0, ForceIsAlone
  <1>2. sess \in [Kinds -> Sessions] /\ sess[k] \in Sessions
        /\ sess' = [sess EXCEPT ![k].active = FALSE]
    BY <1>1 DEF Types, SessionTypes
  <1> HIDE DEF k
  <1>3. /\ \A j \in Kinds : sess'[j].saved = sess[j].saved /\ sess'[j].sites = sess[j].sites
        /\ \A j \in Kinds \ {k} : sess'[j] = sess[j]
        /\ ~sess'[k].active
    BY <1>1, <1>2 DEF Sessions
  <1>4. \A j \in Kinds : sess[j].saved = Blank /\ sess[j].sites = Blank
    BY DEF Lane, ForcesAlone
  <1>5. Active(sess') = {}
    BY <1>1, <1>3 DEF Lane, OneSession, Active, Kinds
  <1>6. OneSession'
    BY <1>3, <1>4, <1>5 DEF Lane, OneSession, Kinds, Active
  <1>7. ~Forcing(s)' /\ ~Fresh(s)' /\ ~Restoring(s)'
    <2>1. op'[s].kind = "free" /\ op'[s].at = ""
      BY FreeIs
    <2> QED
      BY <2>1 DEF Forcing, Fresh, Restoring, Kinds
  <1>8. \A t \in Slots : ~Forcing(t)' /\ ~Fresh(t)'
    BY <1>1, <1>7 DEF Only, Forcing, Fresh
  <1>9. ASSUME NEW t \in Slots, Restoring(t)'
        PROVE  /\ ~op'[t].cur
               /\ op'[t].at = "handoff" => op'[t].was # {}
               /\ ~op'[t].cur => "overtaken" \in mishaps'
    <2>1. t # s /\ op'[t] = op[t] /\ Restoring(t)
      BY <1>7, <1>9 DEF Only, Restoring
    <2> QED
      BY <1>1, <2>1 DEF Lane, ForcesAlone
  <1>10. ForcesAlone'
    BY <1>8, <1>9 DEF ForcesAlone
  <1> QED
    BY <1>5, <1>6, <1>10 DEF Lane

\* The newest restore ends the sessions.
LEMMA LaneFinishes ==
  ASSUME Types, Shape, Lane, NEW s \in Slots, Only(s), Restoring(s), op[s].cur,
         op'[s] = Free, sess' = Cleared, disk'.rec.kind = "none", mishaps \subseteq mishaps'
  PROVE  Lane' /\ Active(sess') = {}
  <1>1. /\ \A t \in Slots : ~Forcing(t) /\ ~Fresh(t)
        /\ \A t \in Slots \ {s} : ~op[t].cur
    BY RestoreIsAlone
  <1>2. \A k \in Kinds : ~sess'[k].active /\ sess'[k].saved = Blank /\ sess'[k].sites = Blank
    BY DEF Cleared, NoSession
  <1>3. Active(sess') = {}
    BY <1>2 DEF Active
  <1>4. OneSession'
    BY <1>2, <1>3 DEF OneSession, Kinds, Blank
  <1>5. ~Forcing(s)' /\ ~Fresh(s)' /\ ~Restoring(s)'
    <2>1. op'[s].kind = "free" /\ op'[s].at = ""
      BY FreeIs
    <2> QED
      BY <2>1 DEF Forcing, Fresh, Restoring, Kinds
  <1>6. \A t \in Slots : ~Forcing(t)' /\ ~Fresh(t)'
    BY <1>1, <1>5 DEF Only, Forcing, Fresh
  <1>7. ASSUME NEW t \in Slots, Restoring(t)'
        PROVE  /\ ~op'[t].cur
               /\ op'[t].at = "handoff" => op'[t].was # {}
               /\ ~op'[t].cur => "overtaken" \in mishaps'
    <2>1. t # s /\ op'[t] = op[t] /\ Restoring(t)
      BY <1>5, <1>7 DEF Only, Restoring
    <2> QED
      BY <1>1, <2>1 DEF Lane, ForcesAlone
  <1>8. ForcesAlone'
    BY <1>6, <1>7 DEF ForcesAlone
  <1> QED
    BY <1>3, <1>4, <1>8 DEF Lane

-----------------------------------------------------------------------------
(* What a command and a restore begin with                                 *)

LEMMA BeginIs ==
  ASSUME Types, NEW s \in Slots, NEW k \in Kinds, NEW source, NEW after,
         Begin(s, k, source, after)
  PROVE  /\ Newest(s) /\ disk' = disk /\ timers' = {} /\ kept' = FALSE
         /\ op'[s].kind = k /\ op'[s].cur /\ op'[s].res /\ op'[s].source = source
         /\ ~op'[s].skip /\ ~op'[s].opt /\ op'[s].at = First(k) /\ op'[s].after = after
         /\ sess'[k].active /\ sess'[k].source = source /\ ~sess'[k].skip
         /\ ~sess'[Other(k)].active /\ sess'[Other(k)].source = sess[Other(k)].source
         /\ sess'[Other(k)].skip = sess[Other(k)].skip
         /\ \A j \in Kinds : sess'[j].sites = sess[j].sites
         /\ sess[Other(k)].active =>
              /\ sess'[Other(k)].saved = Blank
              /\ sess'[k].saved = [sess[Other(k)].saved EXCEPT !.rule =
                                     IF k = "charge" THEN "none" ELSE sess[k].saved.rule]
         /\ ~sess[Other(k)].active => \A j \in Kinds : sess'[j].saved = sess[j].saved
  <1> DEFINE o == [Free EXCEPT !.kind = k, !.cur = TRUE, !.res = TRUE, !.source = source,
                     !.goal = ForceGoal(k), !.after = after, !.at = First(k)]
  <1>1. /\ op' = [Superseded EXCEPT ![s] = o] /\ timers' = {} /\ disk' = disk
        /\ sess' = [Inherited(k) EXCEPT ![k].active = TRUE, ![k].source = source,
                      ![k].skip = FALSE]
        /\ kept' = FALSE
    BY DEF Begin
  <1>2. /\ o.kind = k /\ o.cur /\ o.res /\ o.source = source /\ ~o.skip /\ ~o.opt
        /\ o.at = First(k) /\ o.after = after
    BY DEF Free
  <1> HIDE DEF o
  <1>3. op'[s] = o /\ Newest(s)
    BY <1>1, SupersededTyped DEF Types, Newest
  <1>4. /\ Inherited(k) \in [Kinds -> Sessions] /\ sess \in [Kinds -> Sessions]
        /\ Other(k) \in Kinds /\ Other(k) # k /\ \A j \in Kinds : j = k \/ j = Other(k)
    BY InheritedTyped DEF Types, SessionTypes, Other, Kinds
  <1>5. Inherited(k)[k] \in Sessions /\ Inherited(k)[Other(k)] \in Sessions
    BY <1>4
  <1>6. /\ sess'[Other(k)] = Inherited(k)[Other(k)]
        /\ sess'[k] = [Inherited(k)[k] EXCEPT !.active = TRUE, !.source = source, !.skip = FALSE]
    BY <1>1, <1>4
  <1>7. /\ sess'[k].active /\ sess'[k].source = source /\ ~sess'[k].skip
        /\ sess'[k].saved = Inherited(k)[k].saved /\ sess'[k].sites = Inherited(k)[k].sites
    BY <1>5, <1>6 DEF Sessions
  <1>8. CASE ~sess[Other(k)].active
    <2>1. Inherited(k) = sess
      BY <1>8 DEF Inherited
    <2> QED
      BY <1>1, <1>2, <1>3, <1>4, <1>6, <1>7, <1>8, <2>1
  <1>9. CASE sess[Other(k)].active
    <2> DEFINE b == [sess[Other(k)].saved EXCEPT !.rule =
                       IF k = "charge" THEN "none" ELSE sess[k].saved.rule]
    <2>1. Inherited(k) = [sess EXCEPT ![k].saved = b, ![Other(k)].active = FALSE,
                            ![Other(k)].saved = Blank]
      BY <1>9 DEF Inherited
    <2> HIDE DEF b
    <2>2. sess[k] \in Sessions /\ sess[Other(k)] \in Sessions
      BY <1>4
    <2>3. /\ Inherited(k)[k] = [sess[k] EXCEPT !.saved = b]
          /\ Inherited(k)[Other(k)] = [sess[Other(k)] EXCEPT !.active = FALSE, !.saved = Blank]
      BY <1>4, <2>1
    <2>4. /\ Inherited(k)[k].saved = b /\ Inherited(k)[k].sites = sess[k].sites
          /\ ~Inherited(k)[Other(k)].active /\ Inherited(k)[Other(k)].saved = Blank
          /\ Inherited(k)[Other(k)].sites = sess[Other(k)].sites
          /\ Inherited(k)[Other(k)].source = sess[Other(k)].source
          /\ Inherited(k)[Other(k)].skip = sess[Other(k)].skip
      BY <2>2, <2>3 DEF Sessions
    <2>5. sess'[k].saved = [sess[Other(k)].saved EXCEPT !.rule =
                              IF k = "charge" THEN "none" ELSE sess[k].saved.rule]
      BY <1>7, <2>4 DEF b
    <2>6. \A j \in Kinds : sess'[j].sites = sess[j].sites
      BY <1>4, <1>6, <1>7, <2>4
    <2> QED
      BY <1>1, <1>2, <1>3, <1>6, <1>7, <1>9, <2>4, <2>5, <2>6
  <1> QED
    BY <1>8, <1>9

\* A restore that has just begun.
Started(s, source, retry, after, keep, ss) ==
  LET o == op'[s] IN
  /\ o.kind = "restore" /\ o.cur /\ o.res /\ ~o.failed /\ o.source = "user"
  /\ o.skip = (keep \/ \E k \in Kinds : ss[k].skip)
  /\ o.opt = (source = "optimizer" \/ \E k \in Kinds : ss[k].source = "optimizer")
  /\ o.was = Active(ss) /\ o.retry = retry /\ o.after = after
  /\ \A f \in {"reserve", "grid", "rule"} : o.goal[f] = "none"
  /\ \/ Active(ss) # {} /\ o.at = "handoff" /\ o.goal.mode = "none"
     \/ Active(ss) = {} /\ cached /\ o.at = "tariff" /\ o.goal.mode = "none"
     \/ Active(ss) = {} /\ ~cached /\ o.at = "mode" /\ o.goal.mode = ModeGoal(o, ss)

LEMMA StartIs ==
  ASSUME Types, NEW s \in Slots, NEW source, NEW retry, NEW after, NEW keep, NEW ss,
         StartRestore(s, source, retry, after, keep, ss)
  PROVE  /\ Newest(s) /\ sess' = ss /\ timers' = {}
         /\ \/ NothingToRestore(ss) /\ op'[s] = Free
            \/ ~NothingToRestore(ss) /\ Started(s, source, retry, after, keep, ss)
  <1> DEFINE kp == keep \/ \E k \in Kinds : ss[k].skip
  <1> DEFINE op2 == source = "optimizer" \/ \E k \in Kinds : ss[k].source = "optimizer"
  <1> DEFINE act == Active(ss)
  <1> DEFINE o == [Free EXCEPT !.kind = "restore", !.cur = TRUE, !.res = TRUE,
                     !.skip = kp, !.opt = op2, !.was = act, !.retry = retry, !.after = after]
  <1> DEFINE n == IF NothingToRestore(ss) THEN Free
                  ELSE IF o.was # {} THEN [o EXCEPT !.at = "handoff"]
                  ELSE IF cached THEN [o EXCEPT !.at = "tariff"]
                  ELSE [o EXCEPT !.at = "mode", !.goal.mode = ModeGoal(o, ss)]
  <1>1. /\ sess' = ss /\ timers' = {} /\ op' = [Superseded EXCEPT ![s] = n]
    BY DEF StartRestore
  <1> HIDE DEF kp, op2, act
  <1>2. o.was = act /\ o.opt = op2
    BY DEF Free
  <1>3. \A at : LET p == [o EXCEPT !.at = at] IN
          /\ p.kind = "restore" /\ p.cur /\ p.res /\ ~p.failed /\ p.source = "user"
          /\ p.skip = kp /\ p.opt = op2 /\ p.was = act /\ p.retry = retry /\ p.after = after
          /\ p.goal = Blank /\ p.at = at
    BY DEF Free
  <1>13. \A m : LET p == [o EXCEPT !.at = "mode", !.goal.mode = m] IN
          /\ p.kind = "restore" /\ p.cur /\ p.res /\ ~p.failed /\ p.source = "user"
          /\ p.skip = kp /\ p.opt = op2 /\ p.was = act /\ p.retry = retry /\ p.after = after
          /\ p.goal = [Blank EXCEPT !.mode = m] /\ p.at = "mode"
    BY DEF Free
  <1> HIDE DEF o
  <1>4. op'[s] = n /\ Newest(s)
    BY <1>1, SupersededTyped DEF Types, Newest
  <1>5. CASE NothingToRestore(ss)
    BY <1>1, <1>4, <1>5
  <1>6. CASE ~NothingToRestore(ss)
    <2> DEFINE m == IF op2 THEN "self" ELSE OrElse(Setting(ss, "mode"), "auto")
    <2>1. ModeGoal(o, ss) = m
      BY <1>2 DEF ModeGoal
    <2> HIDE DEF m
    <2>2. /\ op'[s].kind = "restore" /\ op'[s].cur /\ op'[s].res /\ ~op'[s].failed
          /\ op'[s].source = "user"
          /\ op'[s].skip = kp /\ op'[s].opt = op2 /\ op'[s].was = act /\ op'[s].retry = retry
          /\ op'[s].after = after
          /\ \/ act # {} /\ op'[s].at = "handoff" /\ op'[s].goal = Blank
             \/ act = {} /\ cached /\ op'[s].at = "tariff" /\ op'[s].goal = Blank
             \/ act = {} /\ ~cached /\ op'[s].at = "mode" /\ op'[s].goal = [Blank EXCEPT !.mode = m]
      <3>1. CASE act # {}
        <4>1. op'[s] = [o EXCEPT !.at = "handoff"]
          BY <1>2, <1>4, <1>6, <3>1
        <4> QED
          BY <1>3, <3>1, <4>1
      <3>2. CASE act = {} /\ cached
        <4>1. op'[s] = [o EXCEPT !.at = "tariff"]
          BY <1>2, <1>4, <1>6, <3>2
        <4> QED
          BY <1>3, <3>2, <4>1
      <3>3. CASE act = {} /\ ~cached
        <4>1. op'[s] = [o EXCEPT !.at = "mode", !.goal.mode = m]
          BY <1>2, <1>4, <1>6, <2>1, <3>3
        <4> QED
          BY <1>13, <3>3, <4>1
      <3> QED
        BY <3>1, <3>2, <3>3
    <2>3. ModeGoal(op'[s], ss) = m
      BY <2>2 DEF ModeGoal, m
    <2>4. \A f \in {"reserve", "grid", "rule"} : op'[s].goal[f] = "none"
      BY <2>2 DEF Blank
    <2>5. op'[s].at \in {"handoff", "tariff"} => op'[s].goal.mode = "none"
      BY <2>2 DEF Blank
    <2>6. op'[s].at = "mode" => op'[s].goal.mode = m
      BY <2>2 DEF Blank
    <2> QED
      BY <1>1, <1>4, <1>6, <2>2, <2>3, <2>4, <2>5, <2>6 DEF Started, kp, op2, act
  <1> QED
    BY <1>5, <1>6

\* What a step that supersedes the others finds.
LEMMA OverlapsAre ==
  ASSUME Types, NEW s \in Slots, NEW ms, Mishap(Overlaps(s) \cup ms)
  PROVE  \A t \in Slots \ {s} : /\ Never({"overlap"})' => ~Forcing(t)
                                /\ Restoring(t) => "overtaken" \in mishaps'
  <1> DEFINE others == {t \in Slots \ {s} : Writing(t)}
  <1>1. mishaps' = mishaps \cup (Overlaps(s) \cup ms)
    BY DEF Mishap
  <1>2. Overlaps(s) = If(\E t \in others : op[t].kind # "restore", "overlap")
                        \cup If(\E t \in others : op[t].kind = "restore", "overtaken")
    BY DEF Overlaps
  <1>3. ASSUME NEW t \in Slots \ {s}, Forcing(t) PROVE "overlap" \in mishaps'
    <2>1. t \in others /\ op[t].kind # "restore"
      BY <1>3 DEF Forcing, Writing, Kinds
    <2> QED
      BY <1>1, <1>2, <2>1 DEF If
  <1>4. ASSUME NEW t \in Slots \ {s}, Restoring(t) PROVE "overtaken" \in mishaps'
    <2>1. op[t].at # "look"
      BY <1>4 DEF Types, HandlerTypes, Placed, Restoring
    <2>2. t \in others /\ op[t].kind = "restore"
      BY <1>4, <2>1 DEF Restoring, Writing
    <2> QED
      BY <1>1, <1>2, <2>2 DEF If
  <1> QED
    BY <1>3, <1>4 DEF Never

-----------------------------------------------------------------------------
(* A command or a restore begins without an overlap                        *)

\* What the handler in s supersedes.
Supersedes(s) ==
  \A t \in Slots \ {s} : ~Forcing(t) /\ (Restoring(t) => "overtaken" \in mishaps')

LEMMA LaneNewest ==
  ASSUME Types, Shape, Lane, NEW s \in Slots, Newest(s), Supersedes(s),
         OneSession', mishaps \subseteq mishaps',
         Forcing(s)' => op'[s].cur /\ sess'[op'[s].kind].active,
         Fresh(s)' => \A k \in Kinds : sess'[k].sites = Blank /\ sess'[k].saved = Blank,
         Restoring(s)' => /\ op'[s].cur /\ op'[s].was = Active(sess')
                          /\ op'[s].at = "handoff" => op'[s].was # {}
  PROVE  Lane'
  <1>1. \A t \in Slots \ {s} :
          /\ ~op'[t].cur /\ op'[t].kind = op[t].kind /\ op'[t].at = op[t].at
          /\ op'[t].was = op[t].was
    BY CurrentOnly DEF Newest
  <1>2. \A t \in Slots \ {s} : ~Forcing(t) /\ ~Fresh(t)
    BY FreshForces DEF Supersedes
  <1>3. \A t \in Slots \ {s} : ~Forcing(t)' /\ ~Fresh(t)'
    BY <1>1, <1>2 DEF Forcing, Fresh
  <1>4. ASSUME NEW t \in Slots \ {s}, Restoring(t)'
        PROVE  /\ ~op'[t].cur /\ "overtaken" \in mishaps'
               /\ op'[t].at = "handoff" => op'[t].was # {}
    BY <1>1, <1>4 DEF Restoring, Supersedes, Lane, ForcesAlone
  <1>5. ForcesAlone'
    BY <1>3, <1>4 DEF ForcesAlone
  <1> QED
    BY <1>5 DEF Lane

LEMMA LaneBegins ==
  ASSUME Types, Shape, Lane, NEW s \in Slots, NEW k \in Kinds, NEW source, NEW after,
         Begin(s, k, source, after), Supersedes(s), mishaps \subseteq mishaps'
  PROVE  Lane'
  <1> DEFINE j == Other(k)
  <1>0. j \in Kinds /\ j # k /\ \A i \in Kinds : i = k \/ i = j
    BY DEF Other, Kinds
  <1>1. /\ Newest(s) /\ disk' = disk
        /\ op'[s].kind = k /\ op'[s].cur /\ op'[s].at = First(k)
        /\ sess'[k].active /\ ~sess'[j].active
        /\ \A i \in Kinds : sess'[i].sites = sess[i].sites
        /\ sess[j].active =>
             /\ sess'[j].saved = Blank
             /\ sess'[k].saved = [sess[j].saved EXCEPT !.rule =
                                    IF k = "charge" THEN "none" ELSE sess[k].saved.rule]
        /\ ~sess[j].active => \A i \in Kinds : sess'[i].saved = sess[i].saved
    BY BeginIs, ZenonT(60)
  <1> HIDE DEF j
  <1>2. OneSession'
    <2>1. sess'[j].saved = Blank
      BY <1>0, <1>1 DEF Lane, OneSession
    <2>2. k = "charge" => sess'["charge"].saved.rule = "none"
      <3>1. CASE sess[j].active
        <4>1. sess[j].saved \in Settings
          BY <1>0 DEF Types, SessionTypes, Sessions
        <4>2. k = "charge" => sess'[k].saved.rule = "none"
          BY <1>1, <3>1, <4>1 DEF Settings
        <4> QED
          BY <4>2
      <3>2. CASE ~sess[j].active
        BY <1>1, <3>2 DEF Lane, OneSession, Kinds
      <3> QED
        BY <3>1, <3>2
    <2>3. sess'["charge"].saved.rule = "none"
      <3>1. CASE k = "charge"
        BY <2>2, <3>1
      <3>2. CASE j = "charge"
        BY <2>1, <3>2 DEF Blank
      <3> QED
        BY <1>0, <3>1, <3>2 DEF Kinds
    <2>4. sess'["charge"].sites.rule = "none"
      BY <1>1 DEF Lane, OneSession, Kinds
    <2>5. Active(sess') # {}
      BY <1>1 DEF Active
    <2>6. ~(sess'["charge"].active /\ sess'["discharge"].active)
      BY <1>0, <1>1 DEF Kinds
    <2>7. \A i \in Kinds : ~sess'[i].active => sess'[i].saved = Blank
      BY <1>0, <1>1, <2>1
    <2>8. (disk.rec.kind = "charge" => disk.rec.saved.rule = "none")'
      BY <1>1 DEF Lane, OneSession
    <2> QED
      BY <2>3, <2>4, <2>5, <2>6, <2>7, <2>8 DEF OneSession
  <1>3. Fresh(s)' => \A i \in Kinds : sess'[i].sites = Blank /\ sess'[i].saved = Blank
    <2>1. SUFFICES ASSUME Fresh(s)'
                   PROVE  \A i \in Kinds : sess'[i].sites = Blank /\ sess'[i].saved = Blank
      OBVIOUS
    <2>2. First(k) = "baseline"
      BY <1>1, <2>1, FirstPlaced DEF Fresh
    <2>3. Active(sess) = {}
      BY <2>2 DEF First
    <2>4. \A i \in Kinds : ~sess[i].active
      BY <2>3 DEF Active
    <2> QED
      BY <1>0, <1>1, <2>3, <2>4 DEF Lane, OneSession
  <1>4. Forcing(s)' => op'[s].cur /\ sess'[op'[s].kind].active
    BY <1>1
  <1>5. ~Restoring(s)'
    BY <1>1 DEF Restoring, Kinds
  <1> QED
    BY <1>1, <1>2, <1>3, <1>4, <1>5, LaneNewest

LEMMA LaneStarts ==
  ASSUME Types, Shape, Lane, NEW s \in Slots, NEW source, NEW retry, NEW after, NEW keep,
         NEW ss \in [Kinds -> Sessions],
         StartRestore(s, source, retry, after, keep, ss), Alike(ss, sess), Supersedes(s),
         disk'.rec.kind = "charge" => disk'.rec.saved.rule = "none",
         mishaps \subseteq mishaps'
  PROVE  Lane'
  <1>1. /\ Newest(s) /\ sess' = ss
        /\ \/ op'[s] = Free
           \/ Started(s, source, retry, after, keep, ss)
    BY StartIs
  <1>2. OneSession'
    BY <1>1, OneSessionStays DEF Lane
  <1>3. CASE op'[s] = Free
    <2>1. op'[s].kind = "free" /\ op'[s].at = ""
      BY <1>3, FreeIs
    <2>2. ~Forcing(s)' /\ ~Fresh(s)' /\ ~Restoring(s)'
      BY <2>1 DEF Forcing, Fresh, Restoring, Kinds
    <2> QED
      BY <1>1, <1>2, <2>2, LaneNewest
  <1>4. CASE Started(s, source, retry, after, keep, ss)
    <2>1. /\ op'[s].kind = "restore" /\ op'[s].cur /\ op'[s].was = Active(sess')
          /\ op'[s].at \in {"handoff", "tariff", "mode"}
          /\ op'[s].at = "handoff" => op'[s].was # {}
      BY <1>1, <1>4 DEF Started
    <2>2. ~Forcing(s)' /\ ~Fresh(s)'
      BY <2>1 DEF Forcing, Fresh, Kinds
    <2> QED
      BY <1>1, <1>2, <2>1, <2>2, LaneNewest
  <1> QED
    BY <1>1, <1>3, <1>4

\* Home Assistant starts with what the disk says.
LEMMA LaneRestarts ==
  ASSUME Types, Lane, Restart
  PROVE  Lane'
  <1>1. /\ sess' = Reloaded /\ disk' = disk
        /\ op' = [t \in Slots |-> IF t = AnySlot THEN [Free EXCEPT !.kind = "startup"]
                                                  ELSE Free]
    BY DEF Restart
  <1>2. \A t \in Slots : op'[t].kind \in {"free", "startup"} /\ op'[t].at = ""
    BY <1>1 DEF Free
  <1>3. ForcesAlone'
    BY <1>2 DEF ForcesAlone, Forcing, Fresh, Restoring, Kinds
  <1>4. \A k \in Kinds :
          /\ sess'[k].active <=> disk.rec.kind = k
          /\ sess'[k].sites = Blank
          /\ sess'[k].saved = IF disk.rec.kind = k THEN disk.rec.saved ELSE Blank
    BY <1>1 DEF Reloaded, NoSession
  <1>5. OneSession'
    <2>1. "charge" \in Kinds /\ "discharge" \in Kinds
      BY DEF Kinds
    <2>2. Blank.rule = "none"
      BY DEF Blank
    <2>3. sess'["charge"].saved.rule = "none"
      BY <1>4, <2>1, <2>2 DEF Lane, OneSession
    <2>4. sess'["charge"].sites.rule = "none"
      BY <1>4, <2>1, <2>2
    <2>5. ~(sess'["charge"].active /\ sess'["discharge"].active)
      BY <1>4, <2>1
    <2>6. (disk.rec.kind = "charge" => disk.rec.saved.rule = "none")'
      BY <1>1 DEF Lane, OneSession
    <2> QED
      BY <1>4, <2>3, <2>4, <2>5, <2>6 DEF OneSession
  <1> QED
    BY <1>3, <1>5 DEF Lane

-----------------------------------------------------------------------------
(* What is the user's                                                      *)

LEMMA UsualIs ==
  ASSUME Types
  PROVE  /\ own.mode \in Usual.mode /\ Usual.mode \subseteq {"auto", "self"}
         /\ Usual.grid = {own.grid} /\ Usual.rule = {own.rule}
         /\ Never({"low_soc", "reserve"}) => Usual.reserve = {own.reserve}
         /\ ~Never({"low_soc", "reserve"}) => Usual.reserve = Levels
         /\ "overtaken" \in mishaps \/ "optimizer" \in mishaps => "self" \in Usual.mode
         /\ "idle" \in mishaps => "auto" \in Usual.mode
         /\ \A f \in Fields : "none" \notin Usual[f]
  BY DEF Types, GatewayTypes, Gateway, Usual, If, Never, Levels, Fields

\* What the user has set only changes with a reserve command.
UsersStay == own' = own \/ (own' = [own EXCEPT !.reserve = "new"] /\ "reserve" \in mishaps)

LEMMA UsualGrows ==
  ASSUME Types, mishaps \subseteq mishaps', UsersStay
  PROVE  \A f \in Fields : Usual[f] \subseteq Usual'[f] /\ Users(f) \subseteq Users(f)'
  <1>1. own \in Gateway
    BY DEF Types, GatewayTypes
  <1>2. Usual.mode \subseteq Usual'.mode
    BY <1>1 DEF Usual, Gateway, If, Never, UsersStay
  <1>3. Usual.grid \subseteq Usual'.grid /\ Usual.rule \subseteq Usual'.rule
    BY <1>1 DEF Usual, Gateway, UsersStay
  <1>4. Usual.reserve \subseteq Usual'.reserve
    <2>1. CASE own' = own
      BY <1>1, <2>1 DEF Usual, Gateway, Never
    <2>2. CASE own' # own
      <3>1. "reserve" \in mishaps'
        BY <2>2 DEF UsersStay
      <3>2. Usual'.reserve = Levels
        BY <3>1 DEF Usual, Never, Levels
      <3> QED
        BY <1>1, <3>2 DEF Usual, Gateway, Levels
    <2> QED
      BY <2>1, <2>2
  <1> QED
    BY <1>2, <1>3, <1>4 DEF Fields, Users

LEMMA StillPlain ==
  ASSUME mishaps \subseteq mishaps'
  PROVE  /\ Plain' => Plain
         /\ \A ms : Never(ms)' => Never(ms)
  BY DEF Plain, Never

-----------------------------------------------------------------------------
(* What is kept                                                            *)

SavedIsUsers(ss) ==
  \A f \in Fields, k \in Kinds : ss[k].saved[f] \in Users(f) /\ ss[k].sites[f] \in Users(f)
RecordIsUsers == \A f \in Fields : disk.rec.saved[f] \in Users(f)

\* A handler has what it writes from the user's settings.
HasUsers(s) ==
  /\ Restoring(s) => \A f \in Fields : op[s].goal[f] \in Users(f)
  /\ Forcing(s) /\ op[s].at = "rule" => cached /\ \A f \in Fields : op[s].base[f] \in Usual[f]

LEMMA KeptParts ==
  Kept <=> /\ SavedIsUsers(sess) /\ RecordIsUsers /\ pref \in Users("grid")
           /\ \A s \in Slots : HasUsers(s)
  <1>1. ASSUME Kept
        PROVE  /\ SavedIsUsers(sess) /\ RecordIsUsers /\ pref \in Users("grid")
               /\ \A s \in Slots : HasUsers(s)
    BY <1>1 DEF Kept, SavedIsUsers, RecordIsUsers, HasUsers
  <1>2. ASSUME SavedIsUsers(sess), RecordIsUsers, pref \in Users("grid"),
               \A s \in Slots : HasUsers(s)
        PROVE  Kept
    BY <1>2 DEF Kept, SavedIsUsers, RecordIsUsers, HasUsers
  <1> QED
    BY <1>1, <1>2

\* The step of one handler keeps what is kept.
LEMMA KeptStays ==
  ASSUME Types, Kept, NEW s \in Slots, Only(s) \/ Newest(s),
         mishaps \subseteq mishaps', UsersStay, cached => cached',
         SavedIsUsers(sess)', RecordIsUsers', pref' \in Users("grid")', HasUsers(s)'
  PROVE  Kept'
  <1>1. \A f \in Fields : Usual[f] \subseteq Usual'[f] /\ Users(f) \subseteq Users(f)'
    BY UsualGrows
  <1>2. ASSUME NEW t \in Slots \ {s} PROVE HasUsers(t)'
    <2>1. HasUsers(t)
      BY KeptParts
    <2>2. /\ op'[t].kind = op[t].kind /\ op'[t].at = op[t].at /\ op'[t].goal = op[t].goal
          /\ op'[t].base = op[t].base
      <3>1. CASE op'[t] = op[t]
        BY <3>1
      <3>2. CASE op'[t] = [op[t] EXCEPT !.cur = FALSE]
        BY <3>2, CurrentOnly
      <3> QED
        BY <3>1, <3>2 DEF Only, Newest
    <2> QED
      BY <1>1, <2>1, <2>2 DEF HasUsers, Restoring, Forcing
  <1>3. (\A t \in Slots : HasUsers(t))'
    BY <1>2
  <1>4. (/\ SavedIsUsers(sess) /\ RecordIsUsers /\ pref \in Users("grid")
         /\ \A t \in Slots : HasUsers(t))'
    BY <1>3
  <1> QED
    BY <1>4 DEF Kept, SavedIsUsers, RecordIsUsers, HasUsers

\* Sessions that differ in their flags are as kept as before.
LEMMA SavedStays ==
  ASSUME Types, Kept, mishaps \subseteq mishaps', UsersStay
  PROVE  /\ Alike(sess', sess) => SavedIsUsers(sess)'
         /\ disk'.rec.saved = disk.rec.saved => RecordIsUsers'
         /\ pref \in Users("grid")'
  <1>1. \A f \in Fields : Usual[f] \subseteq Usual'[f] /\ Users(f) \subseteq Users(f)'
    BY UsualGrows
  <1>2. SavedIsUsers(sess) /\ RecordIsUsers /\ pref \in Users("grid")
    BY KeptParts
  <1>3. Alike(sess', sess) => SavedIsUsers(sess)'
    BY <1>1, <1>2 DEF SavedIsUsers, Alike
  <1>4. disk'.rec.saved = disk.rec.saved => RecordIsUsers'
    BY <1>1, <1>2 DEF RecordIsUsers
  <1>5. pref \in Users("grid")'
    BY <1>1, <1>2 DEF Fields
  <1> QED
    BY <1>3, <1>4, <1>5

\* Nothing saved is the user's as well.
LEMMA BlankIsUsers == \A f \in Fields : Blank[f] \in Users(f) /\ Blank[f] \in Users(f)'
  BY DEF Blank, Fields, Users

\* A record of what is saved is the user's.
LEMMA RecordIsUsersToo ==
  ASSUME NEW ss \in [Kinds -> Sessions], SavedIsUsers(ss)'
  PROVE  \A f \in Fields : Record(ss).saved[f] \in Users(f)'
  <1>1. CASE Active(ss) = {}
    <2>1. Record(ss).saved = Blank
      BY <1>1 DEF Record, NoRecord
    <2> QED
      BY <2>1, BlankIsUsers
  <1>2. CASE Active(ss) # {}
    <2> DEFINE k == IF ss["charge"].active THEN "charge" ELSE "discharge"
    <2>1. k \in Kinds
      BY DEF Kinds
    <2>2. Record(ss) = [kind |-> k, source |-> ss[k].source, skip |-> ss[k].skip,
                        saved |-> ss[k].saved]
      BY <1>2 DEF Record
    <2> HIDE DEF k
    <2>3. Record(ss).saved = ss[k].saved
      BY <2>2
    <2> QED
      BY <2>1, <2>3 DEF SavedIsUsers
  <1> QED
    BY <1>1, <1>2

\* What a restore takes from the sessions is the user's.
LEMMA SettingIsUsers ==
  ASSUME NEW ss \in [Kinds -> Sessions], SavedIsUsers(ss), NEW f \in Fields
  PROVE  Setting(ss, f) \in Users(f)
  <1>1. Setting(ss, f) \in {ss[k].sites[f] : k \in Kinds}
                           \cup {ss[k].saved[f] : k \in Kinds} \cup {"none"}
    BY SettingIsPlaced DEF Fields
  <1>2. "none" \in Users(f)
    BY DEF Users
  <1> QED
    BY <1>1, <1>2 DEF SavedIsUsers

-----------------------------------------------------------------------------
(* Force commands in plain behaviours                                      *)

\* While a session writes or is written, no restore is current and the record may lag.
LEMMA NotBefore ==
  ASSUME Types, Shape, Lane, NEW s \in Slots, Forcing(s), Only(s), Alike(sess', sess) \/
         Active(sess') = Active(sess), (Forcing(s) /\ ~Fresh(s))'
  PROVE  /\ ~Before' /\ Progress' /\ \A t \in Slots : ~Fresh(t)'
         /\ \A t \in Slots : ~(Restoring(t) /\ op[t].cur)'
  <1>1. op[s].cur /\ sess[op[s].kind].active /\ op[s].kind \in Kinds
        /\ \A t \in Slots \ {s} : ~Forcing(t) /\ ~op[t].cur /\ ~Fresh(t)
    BY ForceIsAlone
  <1>2. Active(sess') = Active(sess) /\ Active(sess) # {}
    BY <1>1, AlikeActive DEF Active
  <1>3. \A t \in Slots : ~Fresh(t)'
    BY <1>1 DEF Only, Fresh
  <1>4. ~Before'
    BY <1>2, <1>3 DEF Before
  <1>5. ~Restoring(s)'
    BY DEF Forcing, Restoring, Kinds
  <1>6. \A t \in Slots : ~(Restoring(t) /\ op[t].cur)'
    BY <1>1, <1>5 DEF Only, Restoring
  <1>7. Progress'
    BY <1>6 DEF Progress, Restoring
  <1> QED
    BY <1>3, <1>4, <1>6, <1>7

\* A force command writes its next setting.
LEMMA GoodForces ==
  ASSUME Types, Shape, Lane, Good, NEW s \in Slots, Forcing(s), ~Fresh(s), Only(s),
         (Forcing(s) /\ ~Fresh(s))', op'[s].at # "rule", Alike(sess', sess), disk' = disk,
         hw'.rule = hw.rule, UsersStay, UNCHANGED known, mishaps \subseteq mishaps'
  PROVE  Good'
  <1>1. ~Before' /\ Progress' /\ \A t \in Slots : ~Fresh(t)'
    BY NotBefore
  <1>2. ~Before
    BY ForceIsAlone
  <1>3. pref' = pref /\ cached' = cached
    BY DEF known
  <1>4. Kept'
    <2>1. HasUsers(s)'
      BY DEF HasUsers, Forcing, Restoring, Kinds
    <2> QED
      BY <1>3, <2>1, SavedStays, KeptStays DEF Good
  <1>5. Covered'
    <2>1. \A f \in Fields : Usual[f] \subseteq Usual'[f]
      BY UsualGrows
    <2>2. Usual.rule \subseteq Usual'.rule
      BY <2>1 DEF Fields
    <2>3. Covered /\ cached /\ Saves /\ RuleKnown
      BY <1>2 DEF Good, Covered
    <2>4. Saves' /\ RuleKnown'
      BY <2>2, <2>3 DEF Saves, RuleKnown, Alike, Kinds
    <2>5. hw'.rule \in {"ok"} \cup Usual'.rule
      BY <2>2, <2>3 DEF Covered
    <2>6. /\ sess'["discharge"].saved = sess["discharge"].saved
          /\ sess'["discharge"].sites = sess["discharge"].sites
      BY DEF Alike, Kinds
    <2> QED
      BY <1>1, <1>3, <2>3, <2>4, <2>5, <2>6, StillPlain DEF Covered
  <1>6. Recording'
    BY <1>1 DEF Recording
  <1> QED
    BY <1>1, <1>4, <1>5, <1>6 DEF Good

\* A force command has read the settings: they are the user's.
LEMMA ReadIsUsers ==
  ASSUME Types, Flags, Covered, Before, NEW k
  PROVE  /\ \A f \in {"mode", "reserve", "grid"} : Read(k)[f] \in Usual[f]
         /\ Read(k).rule \in Users("rule") /\ (k = "discharge" => Read(k).rule \in Usual.rule)
         /\ (k = "charge" => Read(k).rule = "none")
  <1>1. \A f \in Fields : hw[f] \in Usual[f]
    BY DEF Covered
  <1>2. /\ hw.mode \in Usual.mode /\ hw.reserve \in Usual.reserve /\ hw.grid \in Usual.grid
        /\ hw.rule \in Usual.rule
    BY <1>1 DEF Fields
  <1>3. Read(k).mode \in Usual.mode /\ Read(k).grid \in Usual.grid
    BY <1>2 DEF Read
  <1>4. Read(k).reserve \in Usual.reserve
    <2>1. CASE Never({"low_soc", "reserve"})
      <3>1. Usual.reserve = {own.reserve}
        BY <2>1, UsualIs
      <3>2. own.reserve = "own"
        BY <2>1 DEF Flags, Never
      <3> QED
        BY <1>2, <3>1, <3>2 DEF Read
    <2>2. CASE ~Never({"low_soc", "reserve"})
      <3>1. Usual.reserve = Levels
        BY <2>2, UsualIs
      <3> QED
        BY <1>2, <3>1 DEF Read, Levels
    <2> QED
      BY <2>1, <2>2
  <1>5. /\ Read(k).rule \in Users("rule") /\ (k = "discharge" => Read(k).rule \in Usual.rule)
        /\ (k = "charge" => Read(k).rule = "none")
    BY <1>2 DEF Read, Users
  <1> QED
    BY <1>3, <1>4, <1>5

\* A force command saves what it has read, or written over.
LEMMA GoodSaves ==
  ASSUME Types, Shape, Lane, Good, NEW s \in Slots, Forcing(s), Only(s),
         (Forcing(s) /\ ~Fresh(s))', op'[s].at # "rule",
         NEW b \in Settings, sess' = Save(s, op[s].kind, b), disk' = disk,
         \A f \in {"mode", "reserve", "grid"} : b[f] \in Usual[f],
         b.rule \in Users("rule"), b.rule # "none" => op[s].kind = "discharge",
         \/ hw'.rule = hw.rule /\ hw.rule \in Usual.rule
         \/ op[s].kind = "discharge" /\ b.rule # "none" /\ hw'.rule \in {hw.rule, "ok"},
         cached', pref' \in Users("grid"), Fresh(s),
         own' = own, mishaps' = mishaps
  PROVE  Good'
  <1> DEFINE k == op[s].kind
  <1>1. op[s].cur /\ sess[k].active /\ k \in Kinds
    BY ForceIsAlone
  <1>2. /\ sess \in [Kinds -> Sessions] /\ sess[k] \in Sessions
        /\ sess' = [sess EXCEPT ![k].saved = b, ![k].sites = b]
    BY <1>1 DEF Types, SessionTypes, Save
  <1> HIDE DEF k
  <1>3. /\ \A j \in Kinds : sess'[j].active = sess[j].active
        /\ \A j \in Kinds \ {k} : sess'[j] = sess[j]
        /\ sess'[k].saved = b /\ sess'[k].sites = b
    BY <1>1, <1>2 DEF Sessions
  <1>4. Active(sess') = Active(sess)
    BY <1>3 DEF Active
  <1>5. ~Before' /\ Progress' /\ \A t \in Slots : ~Fresh(t)'
    BY <1>4, NotBefore
  <1>6. Usual' = Usual /\ \A ms : Never(ms)' <=> Never(ms)
    BY DEF Usual, Never, If
  <1>7. UsersStay /\ mishaps \subseteq mishaps' /\ \A f \in Fields : Users(f)' = Users(f)
    BY <1>6 DEF UsersStay, Users
  <1>8. Kept'
    <2>1. \A f \in Fields : b[f] \in Users(f)
      BY DEF Fields, Users
    <2>2. SavedIsUsers(sess)'
      <3>1. SavedIsUsers(sess)
        BY KeptParts DEF Good
      <3>2. ASSUME NEW f \in Fields, NEW j \in Kinds
            PROVE  sess'[j].saved[f] \in Users(f) /\ sess'[j].sites[f] \in Users(f)
        BY <1>3, <2>1, <3>1 DEF SavedIsUsers
      <3> QED
        BY <1>7, <3>2 DEF SavedIsUsers
    <2>3. HasUsers(s)'
      BY DEF HasUsers, Forcing, Restoring, Kinds
    <2>4. RecordIsUsers'
      BY <1>7, SavedStays DEF Good
    <2>5. pref' \in Users("grid")'
      BY <1>7 DEF Fields
    <2> QED
      BY <1>7, <2>2, <2>3, <2>4, <2>5, KeptStays DEF Good
  <1>9. Covered'
    <2>1. b.mode # "none" /\ b.reserve # "none" /\ b.grid # "none"
      BY UsualIs DEF Fields
    <2>2. Saves'
      <3>1. \A j \in Kinds : sess'[j].active => j = k
        BY <1>1, <1>3 DEF Lane, OneSession, Kinds
      <3> QED
        BY <1>3, <2>1, <3>1 DEF Saves
    <2>3. k # "discharge" => \A j \in Kinds : sess'[j].saved.rule = "none" /\ sess'[j].sites.rule = "none"
      <3>1. \A j \in Kinds : sess[j].saved = Blank /\ sess[j].sites = Blank
        BY DEF Lane, ForcesAlone
      <3>2. k # "discharge" => b.rule = "none"
        BY DEF k
      <3>3. k # "discharge" => \A j \in Kinds : (sess'[j].saved = b \/ sess'[j].saved = Blank)
                                     /\ (sess'[j].sites = b \/ sess'[j].sites = Blank)
        BY <1>3, <3>1
      <3>4. Blank.rule = "none"
        BY DEF Blank
      <3> QED
        BY <3>2, <3>3, <3>4
    <2>4. k = "discharge" => sess'["discharge"].saved.rule = b.rule /\ sess'["discharge"].sites.rule = b.rule
      BY <1>3
    <2>5. RuleKnown'
      <3>1. CASE hw'.rule = hw.rule /\ hw.rule \in Usual.rule
        BY <1>6, <3>1 DEF RuleKnown
      <3>2. CASE k = "discharge" /\ b.rule # "none"
        BY <2>4, <3>2 DEF RuleKnown
      <3> QED
        BY <3>1, <3>2 DEF k
    <2>6. hw'.rule \in {"ok"} \cup Usual'.rule
      BY <1>6 DEF Good, Covered
    <2>7. sess'["discharge"].saved.rule # "none" <=> sess'["discharge"].sites.rule # "none"
      <3>1. CASE k = "discharge"
        BY <2>4, <3>1
      <3>2. CASE k # "discharge"
        <4>1. "discharge" \in Kinds
          BY DEF Kinds
        <4> QED
          BY <2>3, <3>2, <4>1
      <3> QED
        BY <3>1, <3>2
    <2> QED
      BY <1>5, <2>2, <2>5, <2>6, <2>7 DEF Covered
  <1>10. Recording'
    BY <1>5 DEF Recording
  <1> QED
    BY <1>5, <1>8, <1>9, <1>10 DEF Good

\* A discharge goes on to its first write.
LEMMA GoodReads ==
  ASSUME Types, Shape, Lane, Good, NEW s \in Slots, Fresh(s), Only(s), Fresh(s)', Forcing(s)',
         cached', \A f \in Fields : op'[s].base[f] \in Usual[f],
         sess' = sess, disk' = disk, hw' = hw, pref' \in Users("grid"),
         own' = own, mishaps' = mishaps
  PROVE  Good'
  <1>1. Usual' = Usual /\ \A ms : Never(ms)' <=> Never(ms)
    BY DEF Usual, Never, If
  <1>2. UsersStay /\ mishaps \subseteq mishaps' /\ \A f \in Fields : Users(f)' = Users(f)
    BY <1>1 DEF UsersStay, Users
  <1>3. Forcing(s) /\ \A t \in Slots \ {s} : ~Forcing(t) /\ ~op[t].cur
    BY FreshForces, ForceIsAlone
  <1>4. ~Restoring(s)'
    BY DEF Forcing, Restoring, Kinds
  <1>5. Kept'
    <2>1. HasUsers(s)'
      BY <1>1, <1>4 DEF HasUsers
    <2>2. pref' \in Users("grid")'
      BY <1>2 DEF Fields
    <2>3. SavedIsUsers(sess)' /\ RecordIsUsers'
      BY <1>2, SavedStays DEF Good, Alike
    <2> QED
      BY <1>2, <2>1, <2>2, <2>3, KeptStays DEF Good
  <1>6. Before /\ Before'
    BY DEF Before
  <1>7. Covered'
    <2>1. \A t \in Slots : (Restoring(t) /\ op[t].at = "pulsing")'
                             => Restoring(t) /\ op[t].at = "pulsing"
      BY <1>4 DEF Only, Restoring
    <2> QED
      BY <1>1, <1>6, <2>1 DEF Good, Covered
  <1>8. Progress'
    BY <1>3, <1>4 DEF Progress, Only, Restoring
  <1>9. Recording'
    BY <1>1, <1>6 DEF Good, Recording
  <1> QED
    BY <1>5, <1>7, <1>8, <1>9 DEF Good

\* A session whose settings could not be asked for is dropped.
LEMMA GoodLapses ==
  ASSUME Types, Shape, Lane, Good, NEW s \in Slots, Only(s), Fresh(s), op'[s] = Free,
         sess' = [sess EXCEPT ![op[s].kind].active = FALSE],
         disk' = disk, hw' = hw, UNCHANGED known, own' = own, mishaps' = mishaps
  PROVE  Good'
  <1>1. Usual' = Usual /\ \A ms : Never(ms)' <=> Never(ms)
    BY DEF Usual, Never, If
  <1>2. UsersStay /\ mishaps \subseteq mishaps' /\ \A f \in Fields : Users(f)' = Users(f)
    BY <1>1 DEF UsersStay, Users
  <1>3. Forcing(s) /\ op[s].kind \in Kinds /\ \A t \in Slots \ {s} : ~Forcing(t) /\ ~op[t].cur
    BY FreshForces, ForceIsAlone
  <1>4. pref' = pref /\ cached' = cached /\ op'[s].kind = "free" /\ op'[s].at = ""
    BY FreeIs DEF known
  <1>5. ~Restoring(s)' /\ ~Forcing(s)' /\ ~Fresh(s)'
    BY <1>4 DEF Forcing, Restoring, Fresh, Kinds
  <1>6. \A j \in Kinds : sess'[j].saved = sess[j].saved /\ sess'[j].sites = sess[j].sites
    <2>1. sess \in [Kinds -> Sessions] /\ sess[op[s].kind] \in Sessions
      BY <1>3 DEF Types, SessionTypes
    <2> QED
      BY <2>1 DEF Sessions
  <1>7. Active(sess') = {}
    BY LaneLapses
  <1>8. Kept'
    <2>1. HasUsers(s)'
      BY <1>5 DEF HasUsers
    <2>2. pref' \in Users("grid")'
      BY <1>2, <1>4, SavedStays DEF Good
    <2>3. SavedIsUsers(sess)'
      <3>1. SavedIsUsers(sess)
        BY KeptParts DEF Good
      <3> QED
        BY <1>2, <1>6, <3>1 DEF SavedIsUsers
    <2>4. RecordIsUsers'
      BY <1>2, SavedStays DEF Good
    <2> QED
      BY <1>2, <1>4, <2>1, <2>2, <2>3, <2>4, KeptStays DEF Good
  <1>9. Before /\ Before'
    BY <1>7 DEF Before
  <1>10. Covered'
    <2>1. \A t \in Slots : (Restoring(t) /\ op[t].at = "pulsing")'
                             => Restoring(t) /\ op[t].at = "pulsing"
      BY <1>5 DEF Only, Restoring
    <2>2. "discharge" \in Kinds
      BY DEF Kinds
    <2> QED
      BY <1>1, <1>6, <1>9, <2>1, <2>2 DEF Good, Covered
  <1>11. Progress'
    BY <1>3, <1>5 DEF Progress, Only, Restoring
  <1>12. Recording'
    <2>1. \A t \in Slots : ~Fresh(t)'
      BY <1>3, <1>5, FreshForces DEF Only, Fresh
    <2> QED
      BY <1>1, <1>7, <1>9, <2>1 DEF Good, Recording, RecordIs
  <1> QED
    BY <1>8, <1>10, <1>11, <1>12 DEF Good

\* What a session takes over is the user's.
LEMMA BeginsWithUsers ==
  ASSUME Types, Kept, NEW s \in Slots, NEW k \in Kinds, NEW source, NEW after,
         Begin(s, k, source, after)
  PROVE  \A f \in Fields, j \in Kinds :
           sess'[j].saved[f] \in Users(f) /\ sess'[j].sites[f] \in Users(f)
  <1> DEFINE o == Other(k)
  <1>1. o \in Kinds /\ o # k /\ \A j \in Kinds : j = k \/ j = o
    BY DEF Other, Kinds
  <1>2. /\ \A j \in Kinds : sess'[j].sites = sess[j].sites
        /\ sess[o].active =>
             /\ sess'[o].saved = Blank
             /\ sess'[k].saved = [sess[o].saved EXCEPT !.rule =
                                    IF k = "charge" THEN "none" ELSE sess[k].saved.rule]
        /\ ~sess[o].active => \A j \in Kinds : sess'[j].saved = sess[j].saved
    BY BeginIs, ZenonT(60)
  <1> HIDE DEF o
  <1>3. SavedIsUsers(sess)
    BY KeptParts
  <1>4. ASSUME sess[o].active, NEW f \in Fields
        PROVE  \A j \in Kinds : sess'[j].saved[f] \in Users(f)
    <2>1. sess'[o].saved[f] \in Users(f)
      BY <1>2, <1>4, BlankIsUsers
    <2>2. sess[o].saved \in Settings
      BY <1>1 DEF Types, SessionTypes, Sessions
    <2>3. /\ sess'[k].saved.mode = sess[o].saved.mode /\ sess'[k].saved.grid = sess[o].saved.grid
          /\ sess'[k].saved.reserve = sess[o].saved.reserve
          /\ sess'[k].saved.rule = IF k = "charge" THEN "none" ELSE sess[k].saved.rule
      BY <1>2, <1>4, <2>2 DEF Settings
    <2>4. sess[o].saved[f] \in Users(f) /\ sess[k].saved[f] \in Users(f) /\ "none" \in Users(f)
      BY <1>1, <1>3 DEF SavedIsUsers, Users
    <2>5. sess'[k].saved[f] \in Users(f)
      BY <2>3, <2>4 DEF Fields
    <2> QED
      BY <1>1, <2>1, <2>5
  <1> QED
    BY <1>2, <1>3, <1>4 DEF SavedIsUsers

\* A force command begins.
LEMMA GoodBegins ==
  ASSUME Types, Shape, Lane, Good, Plain', NEW s \in Slots, NEW k \in Kinds, NEW source,
         NEW after, Begin(s, k, source, after), Supersedes(s), ~Forcing(s), ~Restoring(s),
         sess[Other(k)].active => "switched" \in mishaps',
         hw' = hw, cached' = cached, pref' \in Users("grid"), own' = own,
         mishaps \subseteq mishaps'
  PROVE  Good'
  <1> DEFINE o == Other(k)
  <1>1. o \in Kinds /\ o # k /\ \A j \in Kinds : j = k \/ j = o
    BY DEF Other, Kinds
  <1>2. /\ Newest(s) /\ disk' = disk
        /\ op'[s].kind = k /\ op'[s].cur /\ op'[s].at = First(k)
        /\ sess'[k].active /\ ~sess'[o].active
        /\ \A j \in Kinds : sess'[j].sites = sess[j].sites
        /\ sess[o].active =>
             /\ sess'[o].saved = Blank
             /\ sess'[k].saved = [sess[o].saved EXCEPT !.rule =
                                    IF k = "charge" THEN "none" ELSE sess[k].saved.rule]
        /\ ~sess[o].active => \A j \in Kinds : sess'[j].saved = sess[j].saved
    BY BeginIs, ZenonT(60)
  <1> HIDE DEF o
  <1>3. UsersStay /\ \A f \in Fields : Usual[f] \subseteq Usual'[f] /\ Users(f) \subseteq Users(f)'
    BY UsualGrows DEF UsersStay
  <1>4. First(k) \in {"baseline", "mode", "grid"}
        /\ (k = "charge" /\ First(k) = "grid" => FALSE)
    BY FirstPlaced
  <1>5. /\ Forcing(s)' /\ ~Restoring(s)' /\ op'[s].at # "rule" /\ op'[s].at # "pulsing"
        /\ Fresh(s)' <=> First(k) = "baseline"
    BY <1>2, <1>4 DEF Forcing, Restoring, Fresh, Kinds
  <1>6. First(k) = "baseline" <=> Active(sess) = {}
    BY FirstPlaced DEF First
  <1>7. \A t \in Slots \ {s} : /\ ~op'[t].cur /\ op'[t].kind = op[t].kind /\ op'[t].at = op[t].at
                               /\ ~Fresh(t) /\ ~Fresh(t)'
    <2>1. \A t \in Slots \ {s} : /\ ~op'[t].cur /\ op'[t].kind = op[t].kind
                                 /\ op'[t].at = op[t].at
      <3>1. Newest(s)
        BY <1>2
      <3> HIDE <1>2
      <3> QED
        BY <3>1, CurrentOnly DEF Newest
    <2>2. \A t \in Slots \ {s} : ~Fresh(t)
      BY FreshForces DEF Supersedes
    <2> QED
      BY <2>1, <2>2 DEF Fresh
  <1>8. ~Fresh(s)
    BY FreshForces
  <1>9. (Before <=> Active(sess) = {}) /\ (Before' <=> Active(sess) = {})
    <2>1. Active(sess') # {}
      BY <1>2 DEF Active
    <2> QED
      BY <1>5, <1>6, <1>7, <1>8, <2>1 DEF Before
  <1>10. Kept'
    <2>1. HasUsers(s)'
      BY <1>5 DEF HasUsers
    <2>2. SavedIsUsers(sess)'
      <3>1. \A f \in Fields, j \in Kinds :
              sess'[j].saved[f] \in Users(f) /\ sess'[j].sites[f] \in Users(f)
        BY BeginsWithUsers DEF Good
      <3> QED
        BY <1>3, <3>1 DEF SavedIsUsers
    <2>3. RecordIsUsers' /\ pref' \in Users("grid")'
      BY <1>2, <1>3, SavedStays DEF Good, Fields
    <2> QED
      BY <1>2, <1>3, <2>1, <2>2, <2>3, KeptStays DEF Good
  <1>11. Covered'
    <2>1. \A f \in Fields : hw[f] \in Usual[f] => hw'[f] \in Usual'[f]
      BY <1>3
    <2>2. hw.rule \in Usual.rule => hw'.rule \in Usual'.rule
      BY <2>1 DEF Fields
    <2>3. hw'.rule \in {"ok"} \cup Usual'.rule
      BY <2>2 DEF Good, Covered
    <2>4. Before' => /\ hw'.tariff = "own" /\ \A f \in Fields : hw'[f] \in Usual'[f]
                     /\ \A t \in Slots : (Restoring(t) /\ op[t].at = "pulsing")'
                                           => ~Never({"low_soc", "reserve"})'
      <3>1. \A t \in Slots : (Restoring(t) /\ op[t].at = "pulsing")'
                               => Restoring(t) /\ op[t].at = "pulsing"
        BY <1>5, <1>7 DEF Restoring
      <3> QED
        BY <1>9, <2>1, <3>1, StillPlain DEF Good, Covered
    <2> DEFINE d == sess["discharge"]
    <2> DEFINE e == sess'["discharge"]
    <2>5. "discharge" \in Kinds /\ e.sites.rule = d.sites.rule
      BY <1>2 DEF Kinds
    <2>6. \/ e.saved.rule = d.saved.rule
          \/ e.saved.rule = "none" /\ "switched" \in mishaps'
      <3>1. CASE ~sess[o].active
        BY <1>2, <2>5, <3>1
      <3>2. CASE sess[o].active /\ k = "charge"
        <4>1. o = "discharge"
          BY <1>1, <3>2 DEF Kinds
        <4> QED
          BY <1>2, <3>2, <4>1 DEF Blank, o
      <3>3. CASE sess[o].active /\ k = "discharge"
        <4>1. sess[o].saved \in Settings
          BY <1>1 DEF Types, SessionTypes, Sessions
        <4>2. sess'[k].saved.rule = sess[k].saved.rule
          BY <1>2, <3>3, <4>1 DEF Settings
        <4> QED
          BY <3>3, <4>2
      <3> QED
        BY <3>1, <3>2, <3>3 DEF Kinds
    <2>7. Never({"restarted"})' /\ e.saved.rule # "none" => e.sites.rule # "none"
      BY <2>5, <2>6, StillPlain DEF Good, Covered
    <2>8. Never({"switched"})' /\ e.sites.rule # "none" => e.saved.rule # "none"
      <3>1. ASSUME Never({"switched"})' PROVE e.saved.rule = d.saved.rule
        BY <2>6, <3>1 DEF Never
      <3> QED
        BY <2>5, <3>1, StillPlain DEF Good, Covered
    <2>9. ~Before' => cached' /\ Saves' /\ RuleKnown'
      <3>1. SUFFICES ASSUME ~Before' PROVE cached' /\ Saves' /\ RuleKnown'
        OBVIOUS
      <3>2. Active(sess) # {} /\ cached /\ Saves /\ RuleKnown
        BY <1>9, <3>1 DEF Good, Covered
      <3>3. Saves'
        <4>1. \A j \in Kinds : sess'[j].active => j = k
          BY <1>1, <1>2
        <4>2. CASE sess[o].active
          <5>1. sess[o].saved \in Settings
            BY <1>1 DEF Types, SessionTypes, Sessions
          <5>2. \A f \in {"mode", "reserve", "grid"} : sess'[k].saved[f] = sess[o].saved[f]
            BY <1>2, <4>2, <5>1 DEF Settings
          <5> QED
            BY <1>1, <3>2, <4>1, <4>2, <5>2 DEF Saves
        <4>3. CASE ~sess[o].active
          <5>1. sess[k].active
            BY <1>1, <3>2, <4>3 DEF Active
          <5> QED
            BY <1>2, <3>2, <4>1, <4>3, <5>1 DEF Saves
        <4> QED
          BY <4>2, <4>3
      <3>4. RuleKnown'
        <4>1. CASE e.saved.rule = d.saved.rule
          BY <2>2, <2>5, <3>2, <4>1 DEF RuleKnown
        <4>2. CASE "switched" \in mishaps'
          <5>1. Never({"restarted"})
            BY <4>2 DEF Plain, Never
          <5>2. d.saved.rule # "none" => d.sites.rule # "none"
            BY <5>1 DEF Good, Covered
          <5> QED
            BY <2>2, <2>5, <3>2, <5>2 DEF RuleKnown
        <4> QED
          BY <2>6, <4>1, <4>2
      <3> QED
        BY <3>2, <3>3, <3>4
    <2> QED
      BY <2>3, <2>4, <2>7, <2>8, <2>9 DEF Covered
  <1>12. Progress'
    BY <1>5, <1>7 DEF Progress, Restoring
  <1>13. Recording'
    <2>1. SUFFICES ASSUME Never({"overtaken", "switched"})'
                   PROVE  /\ (\E t \in Slots : Fresh(t))' => disk'.rec.kind = "none"
                          /\ Before' /\ disk'.pending # "none" => "idle" \in mishaps'
      BY <1>5 DEF Recording
    <2>2. Never({"overtaken", "switched"})
      BY <2>1, StillPlain
    <2>3. (\E t \in Slots : Fresh(t))' => Active(sess) = {}
      BY <1>5, <1>6, <1>7
    <2>4. RecordIs(sess, disk.rec)
      BY <2>2 DEF Good, Recording, Supersedes
    <2> QED
      BY <1>2, <1>9, <2>2, <2>3, <2>4 DEF Good, Recording, RecordIs
  <1> QED
    BY <1>10, <1>11, <1>12, <1>13 DEF Good

-----------------------------------------------------------------------------
(* Restores in plain behaviours                                            *)

\* A handler that does not force writes the user's settings back; the mode of the
\* newest and the reserve are not the user's at first.
Backs(s) ==
  /\ hw'.tariff \in {hw.tariff, "own"}
  /\ hw'.grid \in {hw.grid} \cup Usual'.grid
  /\ hw'.rule \in {hw.rule} \cup Usual'.rule
  /\ hw'.mode \in {hw.mode} \cup Usual'.mode \/ (~Before /\ op[s].cur)
  /\ hw'.reserve \in {hw.reserve} \cup Usual'.reserve \/ ~Before

LEMMA RestoreBacks ==
  ASSUME Types, Shape, Lane, Good, NEW s \in Slots, Restoring(s), NEW a \in Answers,
         Answer(s, a), own' = own, mishaps \subseteq mishaps'
  PROVE  Backs(s)
  <1> DEFINE o == op[s]
  <1>1. o \in Handlers /\ Placed(o) /\ o.kind = "restore" /\ hw \in Gateway
    BY DEF Types, HandlerTypes, GatewayTypes, Restoring
  <1>2. o.at \in {"handoff", "tariff", "mode", "rule", "grid", "pulse", "pulsing", "note"}
        /\ (o.at = "mode" => o.goal.mode # "none") /\ (o.at = "rule" => o.goal.rule # "none")
        /\ (o.at = "grid" => o.goal.grid # "none")
        /\ (o.at \in {"pulse", "pulsing"} => o.goal.reserve # "none")
    BY <1>1 DEF Placed
  <1>3. /\ \A f \in Fields : Usual[f] \subseteq Usual'[f]
        /\ \A f \in Fields : o.goal[f] \in {"none"} \cup Usual[f]
    <2>1. HasUsers(s)
      BY KeptParts DEF Good
    <2> QED
      BY <2>1, UsualGrows DEF HasUsers, Users, UsersStay
  <1>4. hw' = hw \/ hw' = Landed(o) \/ (hw' = [hw EXCEPT !.reserve = "nudge"] /\ o.at = "pulsing")
    BY DEF Answer, Missed
  <1>5. CASE hw' = hw
    BY <1>5 DEF Backs
  <1>6. CASE hw' = [hw EXCEPT !.reserve = "nudge"] /\ o.at = "pulsing"
    <2>1. hw'.tariff = hw.tariff /\ hw'.grid = hw.grid /\ hw'.rule = hw.rule
          /\ hw'.mode = hw.mode /\ hw'.reserve = "nudge"
      BY <1>1, <1>6 DEF Gateway
    <2>2. Before => "nudge" \in Usual'.reserve
      <3>1. SUFFICES ASSUME Before PROVE "nudge" \in Usual'.reserve
        OBVIOUS
      <3>2. ~Never({"low_soc", "reserve"})
        BY <1>6, <3>1 DEF Good, Covered
      <3>3. "nudge" \in Usual.reserve
        BY <3>2, UsualIs DEF Levels
      <3> QED
        BY <1>3, <3>3 DEF Fields
    <2> QED
      BY <2>1, <2>2 DEF Backs
  <1>7. CASE hw' = Landed(o)
    <2>1. CASE o.at = "handoff"
      <3>1. hw' = [hw EXCEPT !.mode = "self"]
        BY <1>7, <2>1 DEF Landed
      <3>2. hw'.tariff = hw.tariff /\ hw'.grid = hw.grid /\ hw'.rule = hw.rule
            /\ hw'.mode = "self" /\ hw'.reserve = hw.reserve
        BY <1>1, <3>1 DEF Gateway
      <3>3. o.cur => ~Before
        <4>1. o.was # {}
          BY <1>1, <2>1 DEF Lane, ForcesAlone, Restoring
        <4> QED
          BY <4>1, RestoreIsAlone
      <3>4. ~o.cur => "self" \in Usual'.mode
        <4>1. ~o.cur => "overtaken" \in mishaps
          BY DEF Lane, ForcesAlone
        <4>2. ~o.cur => "self" \in Usual.mode
          BY <4>1, UsualIs
        <4> QED
          BY <1>3, <4>2 DEF Fields
      <3> QED
        BY <3>2, <3>3, <3>4 DEF Backs
    <2>2. CASE o.at = "tariff"
      <3>1. hw' = [hw EXCEPT !.tariff = "own"]
        BY <1>1, <1>7, <2>2 DEF Landed
      <3> QED
        BY <1>1, <3>1 DEF Gateway, Backs
    <2>3. CASE o.at = "mode"
      <3>1. hw' = [hw EXCEPT !.mode = o.goal.mode]
        BY <1>7, <2>3 DEF Landed
      <3>2. o.goal.mode \in Usual'.mode
        BY <1>2, <1>3, <2>3 DEF Fields
      <3> HIDE DEF o
      <3> QED
        BY <1>1, <3>1, <3>2 DEF Gateway, Backs
    <2>4. CASE o.at = "rule"
      <3>1. hw' = [hw EXCEPT !.rule = o.goal.rule]
        BY <1>7, <2>4 DEF Landed
      <3>2. o.goal.rule \in Usual'.rule
        BY <1>2, <1>3, <2>4 DEF Fields
      <3> HIDE DEF o
      <3> QED
        BY <1>1, <3>1, <3>2 DEF Gateway, Backs
    <2>5. CASE o.at = "grid"
      <3>1. hw' = [hw EXCEPT !.grid = o.goal.grid]
        BY <1>7, <2>5 DEF Landed
      <3>2. o.goal.grid \in Usual'.grid
        BY <1>2, <1>3, <2>5 DEF Fields
      <3> HIDE DEF o
      <3> QED
        BY <1>1, <3>1, <3>2 DEF Gateway, Backs
    <2>6. CASE o.at = "pulsing"
      <3>1. hw' = [hw EXCEPT !.reserve = o.goal.reserve]
        BY <1>7, <2>6 DEF Landed
      <3>2. o.goal.reserve \in Usual'.reserve
        BY <1>2, <1>3, <2>6 DEF Fields
      <3> HIDE DEF o
      <3> QED
        BY <1>1, <3>1, <3>2 DEF Gateway, Backs
    <2>7. CASE o.at \in {"pulse", "note"}
      <3>1. hw' = hw
        BY <1>7, <2>7 DEF Landed
      <3> QED
        BY <3>1 DEF Backs
    <2> QED
      BY <1>2, <2>1, <2>2, <2>3, <2>4, <2>5, <2>6, <2>7
  <1> QED
    BY <1>4, <1>5, <1>6, <1>7

\* What the newest restore has restored stays restored while a superseded handler
\* or none writes.
LEMMA RestoredStays ==
  ASSUME Types, NEW s \in Slots, NEW t \in Slots \ {s}, op'[t] = op[t], Restored(op[t]),
         Backs(s), ~op[s].cur, mishaps \subseteq mishaps',
         \A f \in Fields : Usual[f] \subseteq Usual'[f]
  PROVE  Restored(op[t])'
  <1>1. /\ Usual.mode \subseteq Usual'.mode /\ Usual.rule \subseteq Usual'.rule
        /\ Usual.grid \subseteq Usual'.grid
    BY DEF Fields
  <1>2. /\ hw'.tariff \in {hw.tariff, "own"}
        /\ hw'.mode \in {hw.mode} \cup Usual'.mode
        /\ hw'.rule \in {hw.rule} \cup Usual'.rule
        /\ hw'.grid \in {hw.grid} \cup Usual'.grid
    BY DEF Backs
  <1> QED
    BY <1>1, <1>2 DEF Restored, Never

\* A handler that does not force goes on or ends.
LEMMA GoodBacks ==
  ASSUME Types, Shape, Lane, Good, NEW s \in Slots, Only(s), ~Forcing(s), Backs(s),
         (~Forcing(s) /\ ~Fresh(s))',
         Restoring(s)' => /\ op'[s].cur = op[s].cur
                          /\ HasUsers(s)'
                          /\ op'[s].cur => Restored(op[s])'
                          /\ op'[s].at = "pulsing" /\ Before => ~Never({"low_soc", "reserve"})',
         Alike(sess', sess), UNCHANGED known, UsersStay, mishaps \subseteq mishaps',
         RecordIsUsers',
         Never({"overtaken", "switched"})' =>
           /\ \/ disk'.rec = disk.rec
              \/ RecordIs(sess', disk'.rec) /\ \A t \in Slots : ~Fresh(t)
           /\ Before /\ disk'.pending # "none" /\ disk.pending = "none" => "idle" \in mishaps'
  PROVE  Good'
  <1>1. \A f \in Fields : Usual[f] \subseteq Usual'[f]
    BY UsualGrows
  <1>2. Active(sess') = Active(sess) /\ pref' = pref /\ cached' = cached
    BY AlikeActive DEF known
  <1>3. ~Fresh(s)
    BY FreshForces
  <1>4. \A t \in Slots : (Fresh(t)' <=> Fresh(t)) /\ (Forcing(t)' <=> Forcing(t))
    BY <1>3 DEF Only, Fresh, Forcing
  <1>5. Before' <=> Before
    BY <1>2, <1>4 DEF Before
  <1>6. Kept'
    <2>1. HasUsers(s)'
      BY DEF HasUsers
    <2> QED
      BY <1>2, <2>1, SavedStays, KeptStays DEF Good
  <1>7. Covered'
    <2>1. ASSUME Before
          PROVE  /\ hw'.tariff = "own" /\ \A f \in Fields : hw'[f] \in Usual'[f]
                 /\ \A t \in Slots : (Restoring(t) /\ op[t].at = "pulsing")'
                                       => ~Never({"low_soc", "reserve"})'
      <3>1. hw.tariff = "own" /\ \A f \in Fields : hw[f] \in Usual'[f]
        BY <1>1, <2>1 DEF Good, Covered
      <3>2. hw'.tariff = "own" /\ \A f \in Fields : hw'[f] \in Usual'[f]
        BY <2>1, <3>1 DEF Backs, Fields
      <3>3. ASSUME NEW t \in Slots, (Restoring(t) /\ op[t].at = "pulsing")'
            PROVE  ~Never({"low_soc", "reserve"})'
        <4>1. CASE t = s
          BY <2>1, <3>3, <4>1
        <4>2. CASE t # s
          <5>1. ~Never({"low_soc", "reserve"})
            BY <2>1, <3>3, <4>2 DEF Only, Restoring, Good, Covered
          <5> QED
            BY <5>1, StillPlain
        <4> QED
          BY <4>1, <4>2
      <3> QED
        BY <3>2, <3>3
    <2>2. Usual.rule \subseteq Usual'.rule
      BY <1>1 DEF Fields
    <2>3. /\ sess'["discharge"].saved = sess["discharge"].saved
          /\ sess'["discharge"].sites = sess["discharge"].sites
      BY DEF Alike, Kinds
    <2>4. ~Before => cached' /\ Saves' /\ RuleKnown'
      <3>1. SUFFICES ASSUME ~Before PROVE cached' /\ Saves' /\ RuleKnown'
        OBVIOUS
      <3>2. cached /\ Saves /\ RuleKnown
        BY <3>1 DEF Good, Covered
      <3> QED
        BY <1>2, <2>2, <2>3, <3>2 DEF Saves, RuleKnown, Alike, Backs
    <2>5. hw'.rule \in {"ok"} \cup Usual'.rule
      BY <2>2 DEF Good, Covered, Backs
    <2> QED
      BY <1>5, <2>1, <2>3, <2>4, <2>5, StillPlain DEF Good, Covered
  <1>8. Progress'
    <2>1. ASSUME NEW t \in Slots, Restoring(t)', op'[t].cur PROVE Restored(op[t])'
      <3>1. CASE t = s
        BY <2>1, <3>1
      <3>2. CASE t # s
        <4>1. op'[t] = op[t] /\ Restoring(t) /\ op[t].cur
          BY <2>1, <3>2 DEF Only, Restoring
        <4>2. Restored(op[t]) /\ ~op[s].cur
          BY <3>2, <4>1 DEF Good, Progress, Shape, OneCurrent
        <4> QED
          BY <1>1, <3>2, <4>1, <4>2, RestoredStays
      <3> QED
        BY <3>1, <3>2
    <2> QED
      BY <2>1 DEF Progress
  <1>9. Recording'
    <2>1. SUFFICES ASSUME Never({"overtaken", "switched"})'
                   PROVE  /\ (\A t \in Slots : ~Forcing(t))' => RecordIs(sess', disk'.rec)
                          /\ (\E t \in Slots : Fresh(t))' => disk'.rec.kind = "none"
                          /\ Before' /\ disk'.pending # "none" => "idle" \in mishaps'
      BY DEF Recording
    <2>2. Never({"overtaken", "switched"})
      BY <2>1, StillPlain
    <2>3. RecordIs(sess, disk.rec) => RecordIs(sess', disk.rec)
      <3>1. \A k \in Active(sess) : sess'[k].saved = sess[k].saved
        BY DEF Alike, Active
      <3> QED
        BY <1>2, <3>1 DEF RecordIs
    <2>4. (\A t \in Slots : ~Forcing(t))' => RecordIs(sess', disk'.rec)
      BY <1>4, <2>1, <2>2, <2>3 DEF Good, Recording
    <2>5. (\E t \in Slots : Fresh(t))' => disk'.rec.kind = "none"
      BY <1>4, <2>1, <2>2 DEF Good, Recording
    <2>6. Before' /\ disk'.pending # "none" => "idle" \in mishaps'
      BY <1>5, <2>1, <2>2 DEF Good, Recording
    <2> QED
      BY <2>4, <2>5, <2>6
  <1> QED
    BY <1>6, <1>7, <1>8, <1>9 DEF Good

\* A record stays one when the sessions differ in their flags only.
LEMMA RecordStays ==
  ASSUME NEW r, RecordIs(sess, r), Alike(sess', sess)
  PROVE  RecordIs(sess', r)
  <1>1. Active(sess') = Active(sess)
    BY AlikeActive
  <1>2. \A k \in Active(sess) : sess'[k].saved = sess[k].saved
    BY DEF Alike, Active
  <1> QED
    BY <1>1, <1>2 DEF RecordIs

\* What a session covers, while sessions differ in their flags only.
LEMMA CoveredStays ==
  ASSUME Types, Covered, Alike(sess', sess), cached' = cached, UsersStay,
         mishaps \subseteq mishaps', Before' <=> Before,
         hw' = hw \/ (~Before /\ hw'.rule = hw.rule),
         \A t \in Slots : (Restoring(t) /\ op[t].at = "pulsing")'
                            => Restoring(t) /\ op[t].at = "pulsing"
  PROVE  Covered'
  <1>1. \A f \in Fields : Usual[f] \subseteq Usual'[f]
    BY UsualGrows
  <1>2. Usual.rule \subseteq Usual'.rule
    BY <1>1 DEF Fields
  <1>3. /\ sess'["discharge"].saved = sess["discharge"].saved
        /\ sess'["discharge"].sites = sess["discharge"].sites
    BY DEF Alike, Kinds
  <1>4. ASSUME Before
        PROVE  /\ hw'.tariff = "own" /\ \A f \in Fields : hw'[f] \in Usual'[f]
               /\ \A t \in Slots : (Restoring(t) /\ op[t].at = "pulsing")'
                                     => ~Never({"low_soc", "reserve"})'
    BY <1>1, <1>4, StillPlain DEF Covered
  <1>5. ASSUME ~Before PROVE cached' /\ Saves' /\ RuleKnown'
    <2>1. cached /\ Saves /\ RuleKnown
      BY <1>5 DEF Covered
    <2>2. Saves'
      BY <2>1 DEF Saves, Alike
    <2>3. RuleKnown'
      BY <1>2, <1>3, <2>1 DEF RuleKnown
    <2> QED
      BY <2>1, <2>2, <2>3
  <1>6. hw'.rule \in {"ok"} \cup Usual'.rule
    BY <1>2 DEF Covered
  <1> QED
    BY <1>3, <1>4, <1>5, <1>6, StillPlain DEF Covered

\* A restore begins.
LEMMA GoodStarts ==
  ASSUME Types, Shape, Lane, Good, NEW s \in Slots, NEW source, NEW retry, NEW after, NEW keep,
         NEW ss \in [Kinds -> Sessions],
         StartRestore(s, source, retry, after, keep, ss), Alike(ss, sess), Supersedes(s),
         ~Restoring(s), ~Fresh(s), Active(ss) = {} => "idle" \in mishaps',
         source = "optimizer" \/ (\E k \in Kinds : ss[k].source = "optimizer")
           => "optimizer" \in mishaps',
         (disk' = disk /\ ~Forcing(s)) \/ disk' = Recorded(ss),
         hw' = hw \/ (Forcing(s) /\ hw'.rule = hw.rule),
         own' = own, UNCHANGED known, mishaps \subseteq mishaps'
  PROVE  Good'
  <1>1. /\ Newest(s) /\ sess' = ss
        /\ \/ op'[s] = Free
           \/ Started(s, source, retry, after, keep, ss)
    BY StartIs
  <1>2. UsersStay /\ cached' = cached /\ pref' = pref
    BY DEF UsersStay, known
  <1>3. \A f \in Fields : Usual[f] \subseteq Usual'[f] /\ Users(f) \subseteq Users(f)'
    BY <1>2, UsualGrows
  <1>4. /\ op'[s].kind \in {"free", "restore"} /\ op'[s].at \in {"", "handoff", "tariff", "mode"}
        /\ op'[s].kind = "restore" => Started(s, source, retry, after, keep, ss)
    BY <1>1, FreeIs DEF Started
  <1>5. ~Forcing(s)' /\ ~Fresh(s)'
    BY <1>4 DEF Forcing, Fresh, Kinds
  <1>6. \A t \in Slots \ {s} : /\ ~op'[t].cur /\ op'[t].kind = op[t].kind /\ op'[t].at = op[t].at
                               /\ ~Fresh(t) /\ ~Fresh(t)'
    <2>1. Newest(s)
      BY <1>1
    <2>2. \A t \in Slots \ {s} : /\ ~op'[t].cur /\ op'[t].kind = op[t].kind
                                 /\ op'[t].at = op[t].at
      BY <2>1, CurrentOnly DEF Newest
    <2>3. \A t \in Slots \ {s} : ~Fresh(t)
      BY FreshForces DEF Supersedes
    <2> QED
      BY <2>2, <2>3 DEF Fresh
  <1>7. Active(ss) = Active(sess) /\ Active(sess') = Active(sess)
    BY <1>1, AlikeActive
  <1>8. (Before <=> Active(sess) = {}) /\ (Before' <=> Active(sess) = {})
    BY <1>5, <1>6, <1>7 DEF Before
  <1>9. Alike(sess', sess)
    BY <1>1
  <1>10. Covered'
    <2>1. Forcing(s) => ~Before
      BY ForceIsAlone
    <2>2. \A t \in Slots : (Restoring(t) /\ op[t].at = "pulsing")'
                             => Restoring(t) /\ op[t].at = "pulsing"
      BY <1>4, <1>6 DEF Restoring
    <2> QED
      BY <1>2, <1>8, <1>9, <2>1, <2>2, CoveredStays DEF Good
  <1>11. Kept'
    <2>1. SavedIsUsers(sess)' /\ pref' \in Users("grid")'
      BY <1>2, <1>9, SavedStays DEF Good
    <2>2. RecordIsUsers'
      <3>1. CASE disk' = disk
        BY <1>2, <3>1, SavedStays DEF Good
      <3>2. CASE disk' = Recorded(ss)
        <4>1. disk'.rec = Record(ss)
          BY <3>2 DEF Recorded, Types, StoreTypes
        <4>2. SavedIsUsers(ss)'
          BY <1>1, <2>1 DEF SavedIsUsers
        <4> QED
          BY <4>1, <4>2, RecordIsUsersToo DEF RecordIsUsers
      <3> QED
        BY <3>1, <3>2
    <2>3. HasUsers(s)'
      <3>1. SUFFICES ASSUME op'[s].kind = "restore"
                     PROVE  \A f \in Fields : op'[s].goal[f] \in Users(f)'
        BY <1>5 DEF HasUsers, Restoring
      <3>2. Started(s, source, retry, after, keep, ss)
        BY <1>4, <3>1
      <3>3. \A f \in Fields : "none" \in Users(f)'
        BY DEF Users
      <3>4. CASE op'[s].goal.mode = "none"
        BY <3>2, <3>3, <3>4 DEF Started, Fields
      <3>5. CASE op'[s].goal.mode # "none"
        <4>1. Active(ss) = {} /\ op'[s].goal.mode = ModeGoal(op'[s], ss)
          BY <3>2, <3>5 DEF Started
        <4>2. \A f \in {"reserve", "grid", "rule"} : op'[s].goal[f] = "none"
          BY <3>2 DEF Started
        <4>3. op'[s].opt => "optimizer" \in mishaps'
          BY <3>2 DEF Started
        <4>4. "idle" \in mishaps'
          BY <4>1
        <4>5. "auto" \in Usual'.mode /\ (op'[s].opt => "self" \in Usual'.mode)
          BY <4>3, <4>4 DEF Usual, If, Never
        <4>6. Setting(ss, "mode") \in Users("mode")'
          <5>1. SavedIsUsers(ss)
            BY KeptParts DEF Good, Alike, SavedIsUsers
          <5>2. Setting(ss, "mode") \in Users("mode")
            BY <5>1, SettingIsUsers DEF Fields
          <5> QED
            BY <1>3, <5>2 DEF Fields
        <4>7. op'[s].goal.mode \in Usual'.mode
          BY <4>1, <4>5, <4>6 DEF ModeGoal, OrElse, Users
        <4> QED
          BY <3>3, <4>2, <4>7 DEF Fields, Users
      <3> QED
        BY <3>4, <3>5
    <2> QED
      BY <1>1, <1>2, <2>1, <2>2, <2>3, KeptStays DEF Good
  <1>12. Progress'
    <2>1. SUFFICES ASSUME op'[s].kind = "restore" PROVE Restored(op[s])'
      BY <1>6 DEF Progress, Restoring
    <2>2. Started(s, source, retry, after, keep, ss)
      BY <1>4, <2>1
    <2>3. op'[s].was = Active(ss) /\ op'[s].goal.reserve = "none"
      BY <2>2 DEF Started
    <2>4. op'[s].at = "mode" => hw'.tariff = "own"
      BY <1>7, <1>8, <1>10, <2>2 DEF Started, Covered
    <2> QED
      BY <1>4, <2>3, <2>4 DEF Restored
  <1>13. Recording'
    <2>1. SUFFICES ASSUME Never({"overtaken", "switched"})'
                   PROVE  /\ RecordIs(sess', disk'.rec)
                          /\ Before' /\ disk'.pending # "none" => "idle" \in mishaps'
      BY <1>5, <1>6 DEF Recording
    <2>2. Never({"overtaken", "switched"})
      BY <2>1, StillPlain
    <2>3. disk'.pending = disk.pending
      BY DEF Recorded, Types, StoreTypes
    <2>4. RecordIs(sess', disk'.rec)
      <3>1. CASE disk' = disk /\ ~Forcing(s)
        <4>1. RecordIs(sess, disk.rec)
          BY <2>2, <3>1 DEF Good, Recording, Supersedes
        <4> QED
          BY <1>9, <3>1, <4>1, RecordStays
      <3>2. CASE disk' = Recorded(ss)
        <4>1. disk'.rec = Record(ss)
          BY <3>2 DEF Recorded, Types, StoreTypes
        <4> QED
          BY <1>1, <4>1, RecordIsOf
      <3> QED
        BY <3>1, <3>2
    <2> QED
      BY <1>8, <2>2, <2>3, <2>4 DEF Good, Recording
  <1> QED
    BY <1>10, <1>11, <1>12, <1>13 DEF Good

\* A session runs, and is written down.
LEMMA GoodRuns ==
  ASSUME Types, Shape, Lane, Good, NEW s \in Slots, Only(s), Forcing(s), ~Fresh(s), op'[s] = Free,
         Alike(sess', sess), sess' \in [Kinds -> Sessions], disk' = Recorded(sess'),
         hw'.rule = hw.rule, own' = own, UNCHANGED known, mishaps \subseteq mishaps'
  PROVE  Good'
  <1>1. /\ op[s].cur /\ sess[op[s].kind].active /\ op[s].kind \in Kinds
        /\ \A t \in Slots \ {s} : ~Forcing(t) /\ ~op[t].cur /\ ~Fresh(t)
        /\ ~Before
    BY ForceIsAlone
  <1>2. UsersStay /\ cached' = cached /\ pref' = pref
    BY DEF UsersStay, known
  <1>3. ~Restoring(s)' /\ ~Forcing(s)' /\ ~Fresh(s)'
    <2>1. op'[s].kind = "free" /\ op'[s].at = ""
      BY FreeIs
    <2> QED
      BY <2>1 DEF Forcing, Fresh, Restoring, Kinds
  <1>4. \A t \in Slots : ~Fresh(t)'
    BY <1>1, <1>3 DEF Only, Fresh
  <1>5. Active(sess') # {}
    BY <1>1 DEF Alike, Active
  <1>6. ~Before'
    BY <1>4, <1>5 DEF Before
  <1>7. disk'.rec = Record(sess') /\ disk'.pending = disk.pending
    BY DEF Recorded, Types, StoreTypes
  <1>8. Kept'
    <2>1. SavedIsUsers(sess)' /\ pref' \in Users("grid")'
      BY <1>2, SavedStays DEF Good
    <2>2. RecordIsUsers'
      <3>1. \A f \in Fields : Record(sess').saved[f] \in Users(f)'
        BY <2>1, RecordIsUsersToo DEF SavedIsUsers
      <3> QED
        BY <1>7, <3>1 DEF RecordIsUsers
    <2>3. HasUsers(s)'
      BY <1>3 DEF HasUsers
    <2> QED
      BY <1>2, <2>1, <2>2, <2>3, KeptStays DEF Good
  <1>9. Covered'
    <2>1. \A t \in Slots : (Restoring(t) /\ op[t].at = "pulsing")'
                             => Restoring(t) /\ op[t].at = "pulsing"
      BY <1>3 DEF Only, Restoring
    <2> QED
      BY <1>1, <1>2, <1>6, <2>1, CoveredStays DEF Good
  <1>10. Progress'
    BY <1>1, <1>3 DEF Progress, Only, Restoring
  <1>11. Recording'
    BY <1>4, <1>6, <1>7, RecordIsOf DEF Recording
  <1> QED
    BY <1>8, <1>9, <1>10, <1>11 DEF Good

\* What a restore leaves behind that has restored everything.
Ended(s) ==
  /\ Only(s) /\ op'[s] = Free /\ sess' = Cleared
  /\ disk' = [rec |-> NoRecord, pending |-> "none"] /\ kept' = kept
  /\ timers' = IF op[s].after \in Kinds THEN timers \cup {<<op[s].after, 0>>} ELSE timers

LEMMA FinishIs ==
  ASSUME Types, NEW s \in Slots, NEW o, Finish(s, o), ~o.failed
  PROVE  Ended(s)
  <1>1. /\ sess' = Cleared /\ kept' = kept
        /\ Leave(s, [rec |-> Record(Cleared), pending |-> "none"], timers)
    BY DEF Finish
  <1>2. Record(Cleared) = NoRecord
    <2>1. \A k \in Kinds : ~Cleared[k].active
      BY DEF Cleared, NoSession
    <2> QED
      BY <2>1 DEF Record, Active
  <1>3. /\ op' = [op EXCEPT ![s] = Free] /\ disk' = [rec |-> NoRecord, pending |-> "none"]
        /\ timers' = IF op[s].after \in Kinds THEN timers \cup {<<op[s].after, 0>>} ELSE timers
    BY <1>1, <1>2 DEF Leave
  <1>4. Only(s) /\ op'[s] = Free
    BY <1>3 DEF Only, Types, HandlerTypes
  <1> QED
    BY <1>1, <1>3, <1>4 DEF Ended

LEMMA GoodEnds ==
  ASSUME Types, Shape, Lane, Good, NEW s \in Slots, Restoring(s), op[s].cur, Ended(s),
         hw'.tariff = "own", \A f \in Fields : hw'[f] \in Usual'[f],
         \/ ~Never({"low_soc", "reserve"})' \/ op[s].at = "pulsing" \/ Before,
         own' = own, UNCHANGED known, mishaps \subseteq mishaps'
  PROVE  Good'
  <1>1. /\ \A t \in Slots : ~Forcing(t) /\ ~Fresh(t)
        /\ \A t \in Slots \ {s} : ~op[t].cur
    BY RestoreIsAlone
  <1>2. UsersStay /\ cached' = cached /\ pref' = pref
    BY DEF UsersStay, known
  <1>3. ~Restoring(s)' /\ ~Forcing(s)' /\ ~Fresh(s)'
    <2>1. op'[s].kind = "free" /\ op'[s].at = ""
      BY FreeIs DEF Ended
    <2> QED
      BY <2>1 DEF Forcing, Fresh, Restoring, Kinds
  <1>4. \A k \in Kinds : ~sess'[k].active /\ sess'[k].saved = Blank /\ sess'[k].sites = Blank
    BY DEF Ended, Cleared, NoSession
  <1>5. Active(sess') = {}
    BY <1>4 DEF Active
  <1>6. Before'
    BY <1>5 DEF Before
  <1>7. \A t \in Slots \ {s} : op'[t] = op[t]
    BY DEF Ended, Only
  <1>8. Kept'
    <2>1. SavedIsUsers(sess)'
      BY <1>4, BlankIsUsers DEF SavedIsUsers
    <2>2. pref' \in Users("grid")'
      BY <1>2, SavedStays DEF Good
    <2>3. RecordIsUsers'
      <3>1. disk'.rec.saved = Blank
        BY DEF Ended, NoRecord
      <3> QED
        BY <3>1, BlankIsUsers DEF RecordIsUsers
    <2>4. HasUsers(s)'
      BY <1>3 DEF HasUsers
    <2> QED
      BY <1>2, <2>1, <2>2, <2>3, <2>4, KeptStays DEF Good, Ended
  <1>9. Covered'
    <2>1. ASSUME NEW t \in Slots, (Restoring(t) /\ op[t].at = "pulsing")'
          PROVE  ~Never({"low_soc", "reserve"})'
      <3>1. t # s /\ Restoring(t) /\ op[t].at = "pulsing"
        BY <1>3, <1>7, <2>1 DEF Restoring
      <3>2. CASE Before
        <4>1. ~Never({"low_soc", "reserve"})
          BY <3>1, <3>2 DEF Good, Covered
        <4> QED
          BY <4>1, StillPlain
      <3>3. CASE op[s].at = "pulsing"
        BY <3>1, <3>3 DEF Shape, OnePulse
      <3> QED
        BY <3>2, <3>3
    <2>2. /\ sess'["discharge"].saved.rule = "none" /\ sess'["discharge"].sites.rule = "none"
      BY <1>4 DEF Kinds, Blank
    <2>3. hw'.rule \in {"ok"} \cup Usual'.rule
      BY DEF Fields
    <2> QED
      BY <1>6, <2>1, <2>2, <2>3 DEF Covered
  <1>10. Progress'
    BY <1>1, <1>3, <1>7 DEF Progress, Restoring
  <1>11. Recording'
    <2>1. disk'.rec.kind = "none" /\ disk'.pending = "none"
      BY DEF Ended, NoRecord
    <2> QED
      BY <1>5, <2>1 DEF Recording, RecordIs
  <1> QED
    BY <1>8, <1>9, <1>10, <1>11 DEF Good

\* Home Assistant stops between the commands.
LEMMA GoodRestarts ==
  ASSUME Types, Lane, Good, Plain', Restart
  PROVE  Good'
  <1>1. /\ sess' = Reloaded /\ disk' = disk /\ hw' \in Abandoned /\ UNCHANGED <<own, known>>
        /\ op' = [t \in Slots |-> IF t = AnySlot THEN [Free EXCEPT !.kind = "startup"]
                                                  ELSE Free]
        /\ Mishap({IF Idle THEN "restarted" ELSE "crash"})
    BY DEF Restart, Chance
  <1>2. /\ mishaps \subseteq mishaps' /\ Idle /\ "restarted" \in mishaps'
        /\ Never({"overtaken", "switched"})'
    BY <1>1 DEF Mishap, Plain, Never
  <1>3. UsersStay /\ cached' = cached /\ pref' = pref
    BY <1>1 DEF UsersStay, known
  <1>4. \A t \in Slots : ~Forcing(t) /\ ~Fresh(t)
    <2>1. \A t \in Slots : op[t].kind = "free" /\ op[t].at = ""
      BY <1>2 DEF Idle, Types, HandlerTypes, Placed
    <2> QED
      BY <2>1 DEF Forcing, Fresh, Kinds
  <1>5. \A t \in Slots : ~Forcing(t)' /\ ~Fresh(t)' /\ ~Restoring(t)'
    <2>1. \A t \in Slots : op'[t].kind \in {"free", "startup"} /\ op'[t].at = ""
      BY <1>1 DEF Free
    <2> QED
      BY <2>1 DEF Forcing, Fresh, Restoring, Kinds
  <1>6. hw' = hw
    <2>1. \A t \in Slots : op[t].kind = "free" /\ op[t].at = ""
      BY <1>2 DEF Idle, Types, HandlerTypes, Placed
    <2>2. \A t \in Slots : Landed(op[t]) = hw /\ Missed(op[t]) = {hw}
      BY <2>1 DEF Landed, Missed
    <2> QED
      BY <1>1, <2>2 DEF Abandoned
  <1>7. RecordIs(sess, disk.rec)
    BY <1>2, <1>4, StillPlain DEF Good, Recording
  <1> DEFINE r == disk.rec
  <1>8. \A k \in Kinds :
          /\ sess'[k].active <=> r.kind = k
          /\ sess'[k].sites = Blank
          /\ sess'[k].saved = IF r.kind = k THEN r.saved ELSE Blank
    BY <1>1 DEF Reloaded, NoSession
  <1>9. \A k \in Kinds : sess[k].active <=> r.kind = k
    <2>1. r.kind \in {"none"} \cup Kinds
      BY DEF Types, StoreTypes, Records
    <2> QED
      BY <1>7, <2>1 DEF RecordIs, Active, Lane, OneSession, Kinds
  <1>10. \A k \in Kinds : sess'[k].saved = sess[k].saved
    <2>1. ASSUME NEW k \in Kinds, r.kind = k PROVE sess[k].saved = r.saved
      BY <1>7, <1>9, <2>1 DEF RecordIs, Active
    <2>2. ASSUME NEW k \in Kinds, r.kind # k PROVE sess[k].saved = Blank
      BY <1>9, <2>2 DEF Lane, OneSession
    <2> QED
      BY <1>8, <2>1, <2>2
  <1> HIDE DEF r
  <1>11. Active(sess') = Active(sess)
    BY <1>8, <1>9 DEF Active
  <1>12. (Before <=> Active(sess) = {}) /\ (Before' <=> Active(sess) = {})
    BY <1>4, <1>5, <1>11 DEF Before
  <1>13. \A f \in Fields : Usual[f] \subseteq Usual'[f] /\ Users(f) \subseteq Users(f)'
    BY <1>2, <1>3, UsualGrows
  <1>14. Kept'
    <2>1. SavedIsUsers(sess) /\ RecordIsUsers /\ pref \in Users("grid")
      BY KeptParts DEF Good
    <2>2. SavedIsUsers(sess)'
      BY <1>8, <1>10, <1>13, <2>1, BlankIsUsers DEF SavedIsUsers
    <2>3. RecordIsUsers' /\ pref' \in Users("grid")'
      BY <1>1, <1>3, <1>13, <2>1 DEF RecordIsUsers, Fields
    <2>4. \A s \in Slots : HasUsers(s)'
      BY <1>5 DEF HasUsers
    <2> QED
      BY <2>2, <2>3, <2>4 DEF Kept, SavedIsUsers, RecordIsUsers, HasUsers
  <1>15. Covered'
    <2>1. Usual.rule \subseteq Usual'.rule
      BY <1>13 DEF Fields
    <2>2. ASSUME ~Before' PROVE cached' /\ Saves' /\ RuleKnown'
      <3>1. cached /\ Saves /\ RuleKnown
        BY <1>12, <2>2 DEF Good, Covered
      <3>2. Saves'
        BY <1>8, <1>9, <1>10, <3>1 DEF Saves
      <3>3. sess["discharge"].sites.rule # "none" => sess["discharge"].saved.rule # "none"
        <4>1. Never({"switched"})
          BY <1>2, StillPlain DEF Never
        <4> QED
          BY <4>1 DEF Good, Covered
      <3>4. RuleKnown'
        BY <1>6, <1>10, <2>1, <3>1, <3>3 DEF RuleKnown, Kinds
      <3> QED
        BY <1>3, <3>1, <3>2, <3>4
    <2>3. Before' => hw'.tariff = "own" /\ \A f \in Fields : hw'[f] \in Usual'[f]
      BY <1>6, <1>12, <1>13 DEF Good, Covered
    <2>4. hw'.rule \in {"ok"} \cup Usual'.rule
      BY <1>6, <2>1 DEF Good, Covered
    <2>5. ~Never({"restarted"})' /\ sess'["discharge"].sites.rule = "none"
      BY <1>2, <1>8 DEF Never, Kinds, Blank
    <2> QED
      BY <1>5, <2>2, <2>3, <2>4, <2>5 DEF Covered
  <1>16. Progress'
    BY <1>5 DEF Progress
  <1>17. Recording'
    <2>1. RecordIs(sess', disk'.rec)
      <3>1. disk.rec.kind \in Active(sess) => sess'[disk.rec.kind].saved = sess[disk.rec.kind].saved
        BY <1>10 DEF Active
      <3> QED
        BY <1>1, <1>7, <1>11, <3>1 DEF RecordIs
    <2>2. Before' /\ disk'.pending # "none" => "idle" \in mishaps'
      <3>1. Before /\ disk.pending # "none" => "idle" \in mishaps
        BY <1>2, StillPlain DEF Good, Recording
      <3> QED
        BY <1>1, <1>2, <1>12, <3>1
    <2> QED
      BY <1>5, <2>1, <2>2 DEF Recording
  <1> QED
    BY <1>14, <1>15, <1>16, <1>17 DEF Good

-----------------------------------------------------------------------------
(* The steps of a restore                                                  *)

LEMMA GoIs ==
  ASSUME Types, NEW s \in Slots, NEW o, NEW at, Go(s, o, at)
  PROVE  /\ Only(s) /\ op'[s] = [o EXCEPT !.at = at]
         /\ sess' = sess /\ timers' = timers /\ disk' = disk /\ kept' = kept
  <1>1. op' = [op EXCEPT ![s] = [o EXCEPT !.at = at]]
    BY DEF Go
  <1>2. sess' = sess /\ timers' = timers /\ disk' = disk /\ kept' = kept
    BY DEF Go
  <1> DEFINE p == [o EXCEPT !.at = at]
  <1> HIDE DEF p
  <1>3. op' = [op EXCEPT ![s] = p]
    BY <1>1 DEF p
  <1>4. Only(s) /\ op'[s] = p
    BY <1>3 DEF Only, Types, HandlerTypes
  <1> QED
    BY <1>2, <1>4 DEF p

\* A handler ends, and the start-up code drops the record if it waits for it.
Ends(s) ==
  /\ Only(s) /\ op'[s] = Free /\ sess' = sess /\ kept' = kept
  /\ disk'.pending = disk.pending
  /\ disk'.rec = IF op[s].after = "drop" THEN NoRecord ELSE disk.rec
  /\ timers' = IF op[s].after \in Kinds THEN timers \cup {<<op[s].after, 0>>} ELSE timers

LEMMA EndIs ==
  ASSUME Types, NEW s \in Slots, End(s)
  PROVE  Ends(s)
  <1>1. /\ op' = [op EXCEPT ![s] = Free] /\ sess' = sess /\ kept' = kept
        /\ disk' = IF op[s].after = "drop" THEN [disk EXCEPT !.rec = NoRecord] ELSE disk
        /\ timers' = IF op[s].after \in Kinds THEN timers \cup {<<op[s].after, 0>>} ELSE timers
    BY DEF End, Leave
  <1>2. Only(s) /\ op'[s] = Free
    BY <1>1 DEF Only, Types, HandlerTypes
  <1>3. disk'.pending = disk.pending /\ disk'.rec = IF op[s].after = "drop" THEN NoRecord ELSE disk.rec
    BY <1>1 DEF Types, StoreTypes
  <1> QED
    BY <1>1, <1>2, <1>3 DEF Ends

\* A restore goes on with o, which differs from the handler in what it writes next.
Sames(p, o) ==
  /\ p.kind = o.kind /\ p.cur = o.cur /\ p.res = o.res /\ p.source = o.source
  /\ p.skip = o.skip /\ p.opt = o.opt /\ p.was = o.was /\ p.after = o.after
  /\ p.retry = o.retry
GoesOn(s) ==
  /\ Only(s) /\ sess' = sess /\ disk' = disk /\ timers' = timers /\ kept' = kept
  /\ Sames(op'[s], op[s])
  /\ op'[s].at \in {"tariff", "mode", "rule", "grid", "pulse", "pulsing", "note"}
  /\ op'[s].at = "pulsing" => op[s].at = "pulsing" \/ ~Locked

\* All that a restore does.
LEMMA ShapeRestores ==
  ASSUME Types, Shape, NEW s \in Slots, Restoring(s), GoesOn(s) \/ Ends(s) \/ Ended(s)
  PROVE  Shape'
  <1>1. op[s].kind # "free"
    BY DEF Restoring
  <1>2. CASE GoesOn(s)
    <2>1. /\ Only(s) /\ op'[s].kind = "restore" /\ op'[s].cur = op[s].cur
          /\ op'[s].after = op[s].after
      BY <1>2 DEF GoesOn, Sames, Restoring
    <2>2. op'[s].at = "pulsing" => op[s].at = "pulsing" \/ ~Locked
      BY <1>2 DEF GoesOn
    <2>3. op[s].after = "drop" => Restoring(s)'
      BY <2>1 DEF Restoring
    <2>4. Restoring(s)'
      BY <2>1 DEF Restoring
    <2> QED
      BY <1>1, <2>1, <2>2, <2>4, ShapeOnly
  <1>3. CASE Ends(s) \/ Ended(s)
    <2>1. /\ Only(s) /\ op'[s].kind = "free" /\ ~op'[s].cur /\ op'[s].at = ""
          /\ op'[s].after = ""
      BY <1>3, FreeIs DEF Ends, Ended
    <2>2. ~op'[s].cur /\ op'[s].at # "pulsing" /\ op'[s].after # "drop" /\ op'[s].kind # "startup"
      BY <2>1
    <2>3. (~Forcing(s) /\ ~Restoring(s) => op[s].after = "")'
      BY <2>1
    <2> QED
      BY <1>1, <2>1, <2>2, <2>3, ShapeOnly
  <1> QED
    BY <1>2, <1>3

LEMMA FlagsRestore ==
  ASSUME Types, Flags, NEW s \in Slots, Restoring(s), GoesOn(s) \/ Ends(s) \/ Ended(s),
         own' = own, mishaps \subseteq mishaps'
  PROVE  Flags'
  <1>1. Never({"reserve"})' => Never({"reserve"})
    BY DEF Never
  <1>2. Never({"optimizer"})' => Never({"optimizer"})
    BY DEF Never
  <1>3. Unmarked(op[s]) /\ Unflagged(sess, disk)
    BY DEF Flags
  <1>4. CASE GoesOn(s)
    <2>1. Only(s) /\ sess' = sess /\ disk' = disk /\ Sames(op'[s], op[s])
      BY <1>4 DEF GoesOn
    <2>2. Unmarked(op[s])'
      BY <1>1, <1>2, <1>3, <2>1 DEF Unmarked, SpareNone, UsersOwn, Sames
    <2> QED
      BY <2>1, <2>2, FlagsOnly, StillUnflagged
  <1>5. CASE Ends(s) \/ Ended(s)
    <2>1. Only(s) /\ op'[s] = Free
      BY <1>5 DEF Ends, Ended
    <2>2. Unmarked(op[s])'
      BY <2>1, FreeIs DEF Unmarked, SpareNone, UsersOwn
    <2>3. NoRecord.source = "user" /\ ~NoRecord.skip
      BY DEF NoRecord
    <2>4. Unflagged(sess, disk)'
      <3>1. CASE Ends(s)
        <4>1. /\ sess' = sess /\ disk'.pending = disk.pending
              /\ disk'.rec = NoRecord \/ disk'.rec = disk.rec
          BY <3>1 DEF Ends
        <4> QED
          BY <1>1, <1>2, <1>3, <2>3, <4>1 DEF Unflagged
      <3>2. CASE Ended(s)
        <4>1. sess' = Cleared /\ disk'.rec = NoRecord /\ disk'.pending = "none"
          BY <3>2 DEF Ended
        <4>2. \A k \in Kinds : ~Cleared[k].skip /\ Cleared[k].source \in {sess[k].source, "user"}
          BY DEF Cleared, NoSession
        <4> QED
          BY <1>1, <1>2, <1>3, <2>3, <4>1, <4>2 DEF Unflagged
      <3> QED
        BY <1>5, <3>1, <3>2
    <2> QED
      BY <2>1, <2>2, <2>4, FlagsOnly
  <1> QED
    BY <1>4, <1>5

LEMMA LaneRestores ==
  ASSUME Types, Shape, Lane, NEW s \in Slots, Restoring(s),
         GoesOn(s) \/ Ends(s) \/ (op[s].cur /\ Ended(s)), mishaps \subseteq mishaps'
  PROVE  Lane'
  <1>1. Alike(sess, sess) /\ (disk.rec.kind = "charge" => disk.rec.saved.rule = "none")
    BY DEF Alike, Lane, OneSession
  <1>2. CASE GoesOn(s)
    <2>1. /\ Only(s) /\ sess' = sess /\ disk' = disk /\ op'[s].kind = "restore"
          /\ op'[s].cur = op[s].cur /\ op'[s].was = op[s].was
      BY <1>2 DEF GoesOn, Sames, Restoring
    <2>2. op'[s].at \notin {"handoff", "baseline"}
      BY <1>2 DEF GoesOn
    <2>3. ~Forcing(s)' /\ ~Fresh(s)'
      BY <2>1, <2>2 DEF Forcing, Fresh, Kinds
    <2> QED
      BY <1>1, <2>1, <2>2, <2>3, LaneOnly
  <1>3. CASE Ends(s)
    <2>1. Only(s) /\ sess' = sess /\ op'[s].kind = "free" /\ op'[s].at = ""
      BY <1>3, FreeIs DEF Ends
    <2>2. disk'.rec.kind = "charge" => disk'.rec.saved.rule = "none"
      BY <1>1, <1>3 DEF Ends, NoRecord
    <2>3. ~Forcing(s)' /\ ~Fresh(s)' /\ ~Restoring(s)'
      BY <2>1 DEF Forcing, Fresh, Restoring, Kinds
    <2> QED
      BY <1>1, <2>1, <2>2, <2>3, LaneOnly
  <1>4. CASE op[s].cur /\ Ended(s)
    <2>1. disk'.rec.kind = "none"
      BY <1>4 DEF Ended, NoRecord
    <2> QED
      BY <1>4, <2>1, LaneFinishes DEF Ended
  <1> QED
    BY <1>2, <1>3, <1>4

\* A superseded restore goes on or ends.
LEMMA GoodSuperseded ==
  ASSUME Types, Shape, Lane, Good, NEW s \in Slots, Restoring(s), ~op[s].cur, Backs(s),
         \/ GoesOn(s) /\ \A f \in Fields : op'[s].goal[f] \in Users(f)'
         \/ Ends(s),
         op'[s].at # "pulsing", own' = own, UNCHANGED known, mishaps \subseteq mishaps'
  PROVE  Good'
  <1>1. UsersStay /\ Alike(sess', sess) /\ Only(s)
    BY DEF UsersStay, Alike, GoesOn, Ends
  <1>2. ~Never({"overtaken", "switched"})'
    BY DEF Lane, ForcesAlone, Never
  <1>3. RecordIsUsers'
    <2>1. disk'.rec = disk.rec \/ disk'.rec = NoRecord
      BY DEF GoesOn, Ends
    <2>2. CASE disk'.rec = disk.rec
      BY <1>1, <2>2, SavedStays DEF Good
    <2>3. CASE disk'.rec = NoRecord
      <3>1. disk'.rec.saved = Blank
        BY <2>3 DEF NoRecord
      <3> QED
        BY <3>1, BlankIsUsers DEF RecordIsUsers
    <2> QED
      BY <2>1, <2>2, <2>3
  <1>4. op'[s].kind \in {"restore", "free"} /\ op'[s].at # "baseline"
    <2>1. CASE GoesOn(s)
      BY <2>1 DEF GoesOn, Sames, Restoring
    <2>2. CASE Ends(s)
      BY <2>2, FreeIs DEF Ends
    <2> QED
      BY <2>1, <2>2
  <1>5. (~Forcing(s) /\ ~Fresh(s))' /\ ~Forcing(s)
    BY <1>4 DEF Forcing, Fresh, Restoring, Kinds
  <1>6. Restoring(s)' => op'[s].cur = op[s].cur /\ HasUsers(s)'
    <2>1. SUFFICES ASSUME Restoring(s)' PROVE op'[s].cur = op[s].cur /\ HasUsers(s)'
      OBVIOUS
    <2>2. GoesOn(s) /\ \A f \in Fields : op'[s].goal[f] \in Users(f)'
      BY <2>1, FreeIs DEF Ends, Restoring
    <2> QED
      BY <1>5, <2>2 DEF GoesOn, Sames, HasUsers
  <1> QED
    BY <1>1, <1>2, <1>3, <1>5, <1>6, GoodBacks

LEMMA GoGoesOn ==
  ASSUME Types, NEW s \in Slots, NEW o \in Handlers, Sames(o, op[s]), NEW at, Go(s, o, at),
         at \in {"tariff", "mode", "rule", "grid", "pulse", "pulsing", "note"},
         at = "pulsing" => ~Locked
  PROVE  /\ GoesOn(s) /\ op'[s].at = at /\ op'[s].goal = o.goal /\ op'[s].failed = o.failed
         /\ op'[s].cur = op[s].cur /\ op'[s].was = op[s].was
  <1>1. /\ Only(s) /\ sess' = sess /\ disk' = disk /\ timers' = timers /\ kept' = kept
        /\ op'[s] = [o EXCEPT !.at = at]
    BY GoIs
  <1>2. LET p == [o EXCEPT !.at = at] IN
        /\ Sames(p, o) /\ p.at = at /\ p.goal = o.goal /\ p.failed = o.failed
    BY DEF Handlers, Sames
  <1> QED
    BY <1>1, <1>2 DEF GoesOn, Sames

\* Where a restore is when it has written its next settings.
LEMMA AfterGridIs ==
  ASSUME Types, NEW s \in Slots, NEW o \in Handlers, Sames(o, op[s]), AfterGrid(s, o)
  PROVE  \/ /\ GoesOn(s) /\ op'[s].goal = o.goal /\ op'[s].failed = o.failed
            /\ \/ op'[s].at = "pulse" /\ o.goal.reserve # "none" /\ ~o.skip
               \/ op'[s].at = "note" /\ o.failed
         \/ Ended(s) /\ ~o.failed /\ (o.goal.reserve = "none" \/ o.skip)
  <1>1. CASE o.goal.reserve # "none" /\ ~o.skip
    <2>1. Go(s, o, "pulse")
      BY <1>1 DEF AfterGrid
    <2> QED
      BY <1>1, <2>1, GoGoesOn
  <1>2. CASE o.goal.reserve = "none" \/ o.skip
    <2>1. Finish(s, o)
      BY <1>2 DEF AfterGrid
    <2>2. CASE o.failed
      <3>1. Go(s, o, "note")
        BY <2>1, <2>2 DEF Finish
      <3> QED
        BY <2>2, <3>1, GoGoesOn
    <2>3. CASE ~o.failed
      BY <1>2, <2>1, <2>3, FinishIs
    <2> QED
      BY <2>2, <2>3 DEF Handlers
  <1> QED
    BY <1>1, <1>2

LEMMA AfterRuleIs ==
  ASSUME Types, NEW s \in Slots, NEW o \in Handlers, Sames(o, op[s]), AfterRule(s, o)
  PROVE  \/ OrElse(Setting(sess, "grid"), pref) = "none" /\ AfterGrid(s, o)
         \/ /\ GoesOn(s) /\ op'[s].goal = [o.goal EXCEPT !.grid = OrElse(Setting(sess, "grid"), pref)]
            /\ op'[s].failed = o.failed /\ op'[s].at = "grid"
            /\ OrElse(Setting(sess, "grid"), pref) \in {"on", "off"}
  <1> DEFINE grid == OrElse(Setting(sess, "grid"), pref)
  <1>1. grid \in {"none", "on", "off"}
    <2>1. Setting(sess, "grid") \in {"none", "on", "off"}
      BY SettingTyped DEF Types, SessionTypes
    <2> QED
      BY <2>1 DEF OrElse, Types, KnownTypes
  <1>2. CASE grid = "none"
    BY <1>2 DEF AfterRule
  <1>3. CASE grid # "none"
    <2>1. Go(s, [o EXCEPT !.goal.grid = grid], "grid")
      BY <1>3 DEF AfterRule
    <2> HIDE DEF grid
    <2>2. grid \in {"on", "off"}
      BY <1>1, <1>3
    <2> DEFINE p == [o EXCEPT !.goal.grid = grid]
    <2>3. p \in Handlers
      BY <2>2 DEF Handlers, Settings
    <2>4. Sames(p, op[s]) /\ p.goal = [o.goal EXCEPT !.grid = grid] /\ p.failed = o.failed
      BY DEF Handlers, Sames
    <2> HIDE DEF p
    <2>5. Go(s, p, "grid")
      BY <2>1 DEF p
    <2>6. GoesOn(s) /\ op'[s].at = "grid" /\ op'[s].goal = p.goal /\ op'[s].failed = p.failed
      BY <2>3, <2>4, <2>5, GoGoesOn
    <2> QED
      BY <2>2, <2>4, <2>6 DEF grid
  <1> QED
    BY <1>2, <1>3

LEMMA AfterModeIs ==
  ASSUME Types, NEW s \in Slots, NEW o \in Handlers, Sames(o, op[s]), AfterMode(s, o)
  PROVE  \/ /\ GoesOn(s) /\ op'[s].goal = o.goal /\ op'[s].failed = o.failed
            /\ op'[s].at = "rule" /\ o.goal.rule # "none"
         \/ o.goal.rule = "none" /\ o.cur /\ AfterRule(s, o)
         \/ o.goal.rule = "none" /\ ~o.cur /\ Ends(s)
  <1>1. CASE o.goal.rule # "none"
    <2>1. Go(s, o, "rule")
      BY <1>1 DEF AfterMode
    <2> QED
      BY <1>1, <2>1, GoGoesOn
  <1>2. CASE o.goal.rule = "none"
    BY <1>2, EndIs DEF AfterMode, Handlers
  <1> QED
    BY <1>1, <1>2

\* Whatever comes next, it is a step of a restore.
LEMMA AftersAre ==
  ASSUME Types, NEW s \in Slots, NEW o \in Handlers, Sames(o, op[s]),
         AfterMode(s, o) \/ AfterRule(s, o) \/ AfterGrid(s, o)
  PROVE  /\ GoesOn(s) \/ Ended(s) \/ Ends(s)
         /\ AfterMode(s, o) /\ ~op[s].cur => GoesOn(s) \/ Ends(s)
         /\ op'[s].at # "pulsing"
  <1>1. op[s].cur = o.cur
    BY DEF Sames
  <1>2. Ended(s) \/ Ends(s) => op'[s].at # "pulsing"
    BY FreeIs DEF Ended, Ends
  <1>3. AfterGrid(s, o) => (GoesOn(s) /\ op'[s].at # "pulsing") \/ Ended(s)
    BY AfterGridIs
  <1>4. AfterRule(s, o) => (GoesOn(s) /\ op'[s].at # "pulsing") \/ Ended(s)
    BY <1>3, AfterRuleIs
  <1>5. AfterMode(s, o) => \/ GoesOn(s) /\ op'[s].at # "pulsing"
                           \/ op[s].cur /\ Ended(s)
                           \/ ~op[s].cur /\ Ends(s)
    BY <1>1, <1>4, AfterModeIs
  <1> QED
    BY <1>2, <1>3, <1>4, <1>5

\* The newest restore goes on.
LEMMA GoodGoes ==
  ASSUME Types, Shape, Lane, Good, NEW s \in Slots, Restoring(s), Backs(s), GoesOn(s),
         \A f \in Fields : op'[s].goal[f] \in Users(f)', Restored(op[s])',
         op'[s].at = "pulsing" /\ Before => ~Never({"low_soc", "reserve"})',
         own' = own, UNCHANGED known, mishaps \subseteq mishaps'
  PROVE  Good'
  <1>1. UsersStay /\ Alike(sess', sess) /\ Only(s) /\ disk' = disk
    BY DEF UsersStay, Alike, GoesOn
  <1>2. op'[s].kind = "restore" /\ op'[s].at # "baseline" /\ op'[s].cur = op[s].cur
    BY DEF GoesOn, Sames, Restoring
  <1>3. (~Forcing(s) /\ ~Fresh(s))' /\ ~Forcing(s)
    BY <1>2 DEF Forcing, Fresh, Restoring, Kinds
  <1>4. HasUsers(s)'
    BY <1>3 DEF HasUsers
  <1>5. RecordIsUsers'
    BY <1>1, SavedStays DEF Good
  <1> QED
    BY <1>1, <1>2, <1>3, <1>4, <1>5, GoodBacks

\* The handler o in s, whose mode has been answered.
Carries(s, o) ==
  /\ o \in Handlers /\ Sames(o, op[s])
  /\ \A f \in Fields : o.goal[f] \in Users(f)'
  /\ o.was = {} => "idle" \in mishaps' /\ o.goal.reserve = "none"
  /\ o.goal.reserve = "none" /\ o.was # {} => ~Never({"low_soc"})'
  /\ ~o.failed => hw'.tariff = "own" /\ hw'.mode \in Usual'.mode

LEMMA GoodAfterGrid ==
  ASSUME Types, Shape, Flags, Lane, Good, NEW s \in Slots, Restoring(s), op[s].cur, Backs(s),
         hw' \in Gateway, NEW o, Carries(s, o), AfterGrid(s, o),
         ~o.failed => hw'.rule \in Usual'.rule /\ hw'.grid \in Usual'.grid,
         own' = own, UNCHANGED known, mishaps \subseteq mishaps'
  PROVE  Good'
  <1>1. o \in Handlers /\ Sames(o, op[s])
    BY DEF Carries
  <1>2. o.was = op[s].was /\ o.skip = op[s].skip
    BY <1>1 DEF Sames
  <1>3. CASE /\ GoesOn(s) /\ op'[s].goal = o.goal /\ op'[s].failed = o.failed
             /\ \/ op'[s].at = "pulse" /\ o.goal.reserve # "none"
                \/ op'[s].at = "note" /\ o.failed
    <2>1. op'[s].was = o.was
      BY <1>2, <1>3 DEF GoesOn, Sames
    <2>2. Restored(op[s])'
      BY <1>3, <2>1 DEF Restored, Carries
    <2>3. op'[s].at # "pulsing" /\ \A f \in Fields : op'[s].goal[f] \in Users(f)'
      BY <1>3 DEF Carries
    <2> QED
      BY <1>3, <2>2, <2>3, GoodGoes
  <1>4. CASE Ended(s) /\ ~o.failed /\ (o.goal.reserve = "none" \/ o.skip)
    <2>1. \/ Before
          \/ ~Never({"low_soc", "reserve"})'
      <3>1. CASE o.skip
        <4>1. ~Never({"reserve"})
          BY <1>2, <3>1 DEF Flags, Unmarked, SpareNone
        <4> QED
          BY <4>1 DEF Never
      <3>2. CASE o.goal.reserve = "none" /\ o.was # {}
        BY <3>2 DEF Carries, Never
      <3>3. CASE o.was = {}
        BY <1>2, <3>3, RestoreIsAlone
      <3> QED
        BY <1>4, <3>1, <3>2, <3>3
    <2>2. hw'.reserve \in Usual'.reserve
      <3>1. CASE Before
        <4>1. hw.reserve \in Usual.reserve /\ Usual.reserve \subseteq Usual'.reserve
          BY <3>1, UsualGrows DEF Good, Covered, Fields, UsersStay
        <4> QED
          BY <3>1, <4>1 DEF Backs
      <3>2. CASE ~Never({"low_soc", "reserve"})'
        <4>1. Usual'.reserve = Levels
          BY <3>2 DEF Usual, Never, Levels
        <4>3. hw'.reserve \in Levels
          BY DEF Gateway, Levels
        <4> QED
          BY <4>1, <4>3
      <3> QED
        BY <2>1, <3>1, <3>2
    <2>3. hw'.tariff = "own" /\ \A f \in Fields : hw'[f] \in Usual'[f]
      BY <1>4, <2>2 DEF Carries, Fields
    <2> QED
      BY <1>4, <2>1, <2>3, GoodEnds
  <1> QED
    BY <1>1, <1>3, <1>4, AfterGridIs

LEMMA GoodAfterRule ==
  ASSUME Types, Shape, Flags, Lane, Good, NEW s \in Slots, Restoring(s), op[s].cur, Backs(s),
         hw' \in Gateway, NEW o, Carries(s, o), AfterRule(s, o), ~o.failed => hw'.rule \in Usual'.rule,
         own' = own, UNCHANGED known, mishaps \subseteq mishaps'
  PROVE  Good'
  <1>1. o \in Handlers /\ Sames(o, op[s]) /\ sess \in [Kinds -> Sessions]
    BY DEF Carries, Types, SessionTypes
  <1> DEFINE grid == OrElse(Setting(sess, "grid"), pref)
  <1>2. CASE grid = "none" /\ AfterGrid(s, o)
    <2>1. Setting(sess, "grid") = "none"
      BY <1>2 DEF OrElse
    <2>2. \A k \in Kinds : sess[k].saved.grid = "none"
      BY <1>1, <2>1, SettingIsPlaced
    <2>3. Before
      <3>1. SUFFICES ASSUME ~Before PROVE FALSE
        OBVIOUS
      <3>2. Saves /\ Active(sess) # {}
        BY <3>1 DEF Good, Covered, Before
      <3> QED
        BY <2>2, <3>2 DEF Saves, Active
    <2>4. hw.grid \in Usual.grid /\ Usual.grid \subseteq Usual'.grid
      BY <2>3, UsualGrows DEF Good, Covered, Fields, UsersStay
    <2>5. hw'.grid \in Usual'.grid
      BY <2>4 DEF Backs
    <2> QED
      BY <1>2, <2>5, GoodAfterGrid
  <1>3. CASE /\ GoesOn(s) /\ op'[s].goal = [o.goal EXCEPT !.grid = grid]
             /\ op'[s].failed = o.failed /\ op'[s].at = "grid" /\ grid \in {"on", "off"}
    <2>1. grid \in Users("grid")'
      <3>1. Setting(sess, "grid") \in Users("grid")
        BY <1>1, SettingIsUsers, KeptParts DEF Good, Fields
      <3>2. pref \in Users("grid")
        BY DEF Good, Kept
      <3>3. Users("grid") \subseteq Users("grid")'
        BY UsualGrows DEF Fields, UsersStay
      <3> QED
        BY <3>1, <3>2, <3>3 DEF OrElse
    <2> HIDE DEF grid
    <2>2. o.goal \in Settings
      BY <1>1, HandlersAre
    <2>3. /\ op'[s].goal.grid = grid /\ op'[s].goal.mode = o.goal.mode
          /\ op'[s].goal.reserve = o.goal.reserve /\ op'[s].goal.rule = o.goal.rule
      BY <1>3, <2>2 DEF Settings
    <2>4. \A f \in Fields : op'[s].goal[f] \in Users(f)'
      BY <2>1, <2>3 DEF Carries, Fields
    <2>5. op'[s].was = o.was
      BY <1>1, <1>3 DEF GoesOn, Sames
    <2>6. Restored(op[s])'
      BY <1>3, <2>3, <2>5 DEF Restored, Carries
    <2>7. op'[s].at # "pulsing"
      BY <1>3
    <2> QED
      BY <1>3, <2>4, <2>6, <2>7, GoodGoes
  <1> QED
    BY <1>1, <1>2, <1>3, AfterRuleIs

\* A rule that is not written back is the user's.
LEMMA RuleIsUsers ==
  ASSUME Types, Lane, Good, Setting(sess, "rule") \in {"none", "ok"}
  PROVE  hw.rule \in Usual.rule
  <1>1. sess \in [Kinds -> Sessions]
    BY DEF Types, SessionTypes
  <1>2. CASE Setting(sess, "rule") = "ok"
    <2>1. Setting(sess, "rule") \in Users("rule")
      BY <1>1, SettingIsUsers, KeptParts DEF Good, Fields
    <2> QED
      BY <1>2, <2>1 DEF Users, Good, Covered
  <1>3. CASE Setting(sess, "rule") = "none"
    <2>1. \A k \in Kinds : sess[k].saved.rule = "none" /\ sess[k].sites.rule = "none"
      BY <1>1, <1>3, SettingIsPlaced
    <2>2. ~Before => RuleKnown
      BY DEF Good, Covered
    <2>3. Before => hw.rule \in Usual.rule
      BY DEF Good, Covered, Fields
    <2> QED
      BY <2>1, <2>2, <2>3 DEF RuleKnown, Kinds
  <1> QED
    BY <1>2, <1>3

\* The answer a of a restore's request, and the handler o that it makes.
Answering(s, a, o) ==
  /\ a \in Answers /\ Answer(s, a)
  /\ o \in Handlers /\ Sames(o, op[s]) /\ o.failed = (op[s].failed \/ a # "ok")

LEMMA RestoreAnswerIs ==
  ASSUME Types, NEW s \in Slots, RestoreAnswer(s)
  PROVE  /\ Restoring(s) /\ own' = own /\ UNCHANGED known /\ mishaps \subseteq mishaps'
         /\ \E a, o : Answering(s, a, o) /\
              \/ /\ op[s].at = "handoff" /\ op[s].cur /\ cached
                 /\ o.goal = op[s].goal /\ Go(s, o, "tariff")
              \/ /\ op[s].at \in {"handoff", "tariff"} /\ op[s].cur
                 /\ op[s].at = "handoff" => ~cached
                 /\ o.goal = [op[s].goal EXCEPT !.mode = ModeGoal(op[s], sess)]
                 /\ Go(s, o, "mode")
              \/ op[s].at \in {"handoff", "tariff", "rule", "grid"} /\ ~op[s].cur /\ End(s)
              \/ /\ op[s].at = "mode" /\ AfterMode(s, o)
                 /\ \E low \in BOOLEAN :
                      /\ low => "low_soc" \in mishaps'
                      /\ o.goal = Goal(op[s], low)
              \/ /\ op[s].at = "rule" /\ op[s].cur /\ a # "lost" /\ o.goal = op[s].goal
                 /\ AfterRule(s, o)
              \/ op[s].at = "grid" /\ op[s].cur /\ o.goal = op[s].goal /\ AfterGrid(s, o)
  <1>1. op[s].kind = "restore" /\ own' = own /\ UNCHANGED known
    BY DEF RestoreAnswer
  <1>2. op[s] \in Handlers /\ sess \in [Kinds -> Sessions] /\ SessionTypes
    BY DEF Types, HandlerTypes, SessionTypes
  <1>3. PICK a \in Answers :
          LET p == [op[s] EXCEPT !.failed = @ \/ a # "ok"] IN
          /\ Answer(s, a)
          /\ \/ /\ op[s].at \in {"handoff", "tariff"} /\ op[s].cur
                /\ IF op[s].at = "handoff" /\ cached
                     THEN Go(s, p, "tariff")
                     ELSE Go(s, [p EXCEPT !.goal.mode = ModeGoal(op[s], sess)], "mode")
                /\ UNCHANGED mishaps
             \/ op[s].at \in {"handoff", "tariff"} /\ ~op[s].cur /\ End(s) /\ UNCHANGED mishaps
             \/ /\ op[s].at = "mode"
                /\ \E low \in BOOLEAN :
                     /\ low => "discharge" \in op[s].was
                     /\ Chance(If(low, "low_soc")) /\ AfterMode(s, [p EXCEPT !.goal = Goal(p, low)])
             \/ /\ op[s].at = "rule" /\ a # "lost" /\ UNCHANGED mishaps
                /\ IF op[s].cur THEN AfterRule(s, p) ELSE End(s)
             \/ /\ op[s].at = "grid" /\ UNCHANGED mishaps
                /\ IF op[s].cur THEN AfterGrid(s, p) ELSE End(s)
    BY DEF RestoreAnswer
  <1> DEFINE p == [op[s] EXCEPT !.failed = @ \/ a # "ok"]
  <1>4. /\ p \in Handlers /\ Sames(p, op[s]) /\ p.goal = op[s].goal
        /\ p.failed = (op[s].failed \/ a # "ok")
    BY <1>2 DEF Handlers, Sames
  <1>5. \A g \in Settings : LET q == [p EXCEPT !.goal = g] IN
          /\ q \in Handlers /\ Sames(q, op[s]) /\ q.goal = g
          /\ q.failed = (op[s].failed \/ a # "ok")
    BY <1>2 DEF Handlers, Sames
  <1> HIDE DEF p
  <1>6. Answering(s, a, p) /\ \A g \in Settings : Answering(s, a, [p EXCEPT !.goal = g])
    BY <1>3, <1>4, <1>5 DEF Answering
  <1>7. CASE op[s].at \in {"handoff", "tariff"} /\ op[s].cur /\ UNCHANGED mishaps
             /\ IF op[s].at = "handoff" /\ cached
                  THEN Go(s, p, "tariff")
                  ELSE Go(s, [p EXCEPT !.goal.mode = ModeGoal(op[s], sess)], "mode")
    <2>1. CASE op[s].at = "handoff" /\ cached
      BY <1>1, <1>4, <1>6, <1>7, <2>1 DEF Restoring
    <2>2. CASE ~(op[s].at = "handoff" /\ cached)
      <3> DEFINE m == ModeGoal(op[s], sess)
      <3>1. m \in {"auto", "self"}
        BY <1>2, ModeGoalTyped
      <3> HIDE DEF m
      <3> DEFINE g == [op[s].goal EXCEPT !.mode = m]
      <3>2. g \in Settings
        BY <1>2, <3>1 DEF Handlers, Settings
      <3>3. [p EXCEPT !.goal.mode = m] = [p EXCEPT !.goal = g]
        BY <1>2, <1>4 DEF Handlers
      <3> HIDE DEF g
      <3> DEFINE q == [p EXCEPT !.goal = g]
      <3>4. Answering(s, a, q) /\ q.goal = g
        BY <1>5, <1>6, <3>2
      <3> HIDE DEF q
      <3>5. Go(s, q, "mode")
        BY <1>7, <2>2, <3>3 DEF q, m
      <3> QED
        BY <1>1, <1>7, <2>2, <3>4, <3>5 DEF Restoring, g, m
    <2> QED
      BY <2>1, <2>2
  <1>8. CASE op[s].at \in {"handoff", "tariff"} /\ ~op[s].cur /\ End(s) /\ UNCHANGED mishaps
    BY <1>1, <1>6, <1>8 DEF Restoring
  <1>9. CASE op[s].at = "mode" /\ \E low \in BOOLEAN :
               /\ low => "discharge" \in op[s].was
               /\ Chance(If(low, "low_soc")) /\ AfterMode(s, [p EXCEPT !.goal = Goal(p, low)])
    <2>1. PICK low \in BOOLEAN :
               Chance(If(low, "low_soc")) /\ AfterMode(s, [p EXCEPT !.goal = Goal(p, low)])
      BY <1>9
    <2>2. mishaps \subseteq mishaps' /\ (low => "low_soc" \in mishaps')
      BY <2>1 DEF Chance, Mishap, If
    <2>3. Goal(p, low) = Goal(op[s], low)
      BY <1>4 DEF Goal
    <2> DEFINE g == Goal(op[s], low)
    <2>4. g \in Settings
      BY <1>2, GoalTyped, HandlersAre
    <2> HIDE DEF g
    <2> DEFINE q == [p EXCEPT !.goal = g]
    <2>5. Answering(s, a, q) /\ q.goal = g
      BY <1>5, <1>6, <2>4
    <2> HIDE DEF q
    <2>6. AfterMode(s, q)
      BY <2>1, <2>3 DEF q, g
    <2> QED
      BY <1>1, <1>9, <2>2, <2>5, <2>6 DEF Restoring, g
  <1>10. CASE /\ op[s].at = "rule" /\ a # "lost" /\ UNCHANGED mishaps
              /\ IF op[s].cur THEN AfterRule(s, p) ELSE End(s)
    BY <1>1, <1>4, <1>6, <1>10 DEF Restoring
  <1>11. CASE /\ op[s].at = "grid" /\ UNCHANGED mishaps
              /\ IF op[s].cur THEN AfterGrid(s, p) ELSE End(s)
    BY <1>1, <1>4, <1>6, <1>11 DEF Restoring
  <1> QED
    BY <1>3, <1>7, <1>8, <1>9, <1>10, <1>11 DEF p

LEMMA RestoreSteps ==
  ASSUME Types, NEW s \in Slots, RestoreAnswer(s)
  PROVE  /\ GoesOn(s) \/ Ends(s) \/ (op[s].cur /\ Ended(s))
         /\ op'[s].at # "pulsing"
  <1>1. PICK a, o : Answering(s, a, o) /\
              \/ Go(s, o, "tariff") \/ Go(s, o, "mode") \/ End(s)
              \/ AfterMode(s, o)
              \/ op[s].cur /\ (AfterRule(s, o) \/ AfterGrid(s, o))
    BY RestoreAnswerIs
  <1>2. o \in Handlers /\ Sames(o, op[s])
    BY <1>1 DEF Answering
  <1>3. CASE Go(s, o, "tariff") \/ Go(s, o, "mode")
    BY <1>2, <1>3, GoGoesOn
  <1>4. CASE End(s)
    BY <1>4, EndIs, FreeIs DEF Ends
  <1>5. CASE AfterMode(s, o) \/ (op[s].cur /\ (AfterRule(s, o) \/ AfterGrid(s, o)))
    <2>1. op[s].cur \in BOOLEAN
      BY DEF Types, HandlerTypes, Handlers
    <2> QED
      BY <1>2, <1>5, <2>1, AftersAre
  <1> QED
    BY <1>1, <1>3, <1>4, <1>5

\* A request of a restore that has been answered has landed.
LEMMA LandedIs ==
  ASSUME Types, NEW s \in Slots, Restoring(s), NEW a, NEW o, Answering(s, a, o), ~o.failed
  PROVE  /\ ~op[s].failed
         /\ hw'.tariff = IF op[s].at = "tariff" THEN "own" ELSE hw.tariff
         /\ op[s].at = "mode" => hw'.mode = op[s].goal.mode
         /\ op[s].at \in {"rule", "grid"} => hw'.mode = hw.mode
         /\ op[s].at = "rule" => hw'.rule = op[s].goal.rule
         /\ op[s].at = "grid" => hw'.rule = hw.rule /\ hw'.grid = op[s].goal.grid
  <1> DEFINE at == op[s].at
  <1> DEFINE g == op[s].goal
  <1>1. ~op[s].failed /\ a = "ok" /\ hw \in Gateway /\ op[s].kind = "restore"
    BY DEF Answering, Types, GatewayTypes, Restoring
  <1>2. hw' = Landed(op[s])
    BY <1>1 DEF Answering, Answer
  <1>3. CASE at = "handoff"
    <2>1. hw' = [hw EXCEPT !.mode = "self"]
      BY <1>2, <1>3 DEF Landed
    <2> QED
      BY <1>1, <1>3, <2>1 DEF Gateway
  <1>4. CASE at = "tariff"
    <2>1. hw' = [hw EXCEPT !.tariff = "own"]
      BY <1>1, <1>2, <1>4 DEF Landed
    <2> QED
      BY <1>1, <1>4, <2>1 DEF Gateway
  <1>5. CASE at = "mode"
    <2>1. hw' = [hw EXCEPT !.mode = g.mode]
      BY <1>2, <1>5 DEF Landed
    <2> HIDE DEF g
    <2>2. hw'.mode = g.mode /\ hw'.tariff = hw.tariff
      BY <1>1, <2>1 DEF Gateway
    <2> QED
      BY <1>1, <1>5, <2>2 DEF g
  <1>6. CASE at = "rule"
    <2>1. hw' = [hw EXCEPT !.rule = g.rule]
      BY <1>2, <1>6 DEF Landed
    <2> HIDE DEF g
    <2>2. hw'.rule = g.rule /\ hw'.tariff = hw.tariff /\ hw'.mode = hw.mode
      BY <1>1, <2>1 DEF Gateway
    <2> QED
      BY <1>1, <1>6, <2>2 DEF g
  <1>7. CASE at = "grid"
    <2>1. hw' = [hw EXCEPT !.grid = g.grid]
      BY <1>2, <1>7 DEF Landed
    <2> HIDE DEF g
    <2>2. hw'.grid = g.grid /\ hw'.tariff = hw.tariff /\ hw'.mode = hw.mode /\ hw'.rule = hw.rule
      BY <1>1, <2>1 DEF Gateway
    <2> QED
      BY <1>1, <1>7, <2>2 DEF g
  <1>8. CASE at \notin {"handoff", "tariff", "mode", "rule", "grid"}
    <2>1. hw'.tariff = hw.tariff
      BY <1>1, <1>2, <1>8 DEF Landed, Gateway
    <2> QED
      BY <1>1, <1>8, <2>1
  <1> QED
    BY <1>3, <1>4, <1>5, <1>6, <1>7, <1>8

\* The mode a restore writes is usual.
LEMMA ModeGoalIsUsers ==
  ASSUME Types, Shape, Flags, Lane, Good, NEW s \in Slots, Restoring(s), op[s].cur
  PROVE  ModeGoal(op[s], sess) \in Usual.mode
  <1>1. Restored(op[s])
    BY DEF Good, Progress
  <1>2. CASE op[s].opt
    <2>1. "optimizer" \in mishaps
      BY <1>2 DEF Flags, Unmarked, UsersOwn, Never
    <2> QED
      BY <1>2, <2>1, UsualIs DEF ModeGoal
  <1>3. CASE ~op[s].opt
    <2>1. sess \in [Kinds -> Sessions]
      BY DEF Types, SessionTypes
    <2>2. Setting(sess, "mode") \in Users("mode")
      BY <2>1, SettingIsUsers, KeptParts DEF Good, Fields
    <2>3. CASE Setting(sess, "mode") = "none"
      <3>1. \A k \in Kinds : sess[k].saved.mode = "none"
        BY <2>1, <2>3, SettingIsPlaced
      <3>2. Before
        <4>1. SUFFICES ASSUME ~Before PROVE FALSE
          OBVIOUS
        <4>2. Saves /\ Active(sess) # {}
          BY <4>1 DEF Good, Covered, Before
        <4> QED
          BY <3>1, <4>2 DEF Saves, Active
      <3>3. "idle" \in mishaps
        BY <1>1, <3>2, RestoreIsAlone DEF Restored
      <3> QED
        BY <1>3, <2>3, <3>3, UsualIs DEF ModeGoal, OrElse
    <2>4. CASE Setting(sess, "mode") # "none"
      BY <1>3, <2>2, <2>4 DEF ModeGoal, OrElse, Users
    <2> QED
      BY <2>3, <2>4
  <1> QED
    BY <1>2, <1>3 DEF Types, HandlerTypes, Handlers

\* What a restore goes on to write is the user's.
LEMMA GoalIsUsers ==
  ASSUME Types, Good, NEW s \in Slots, Restoring(s), NEW low \in BOOLEAN, NEW f \in Fields
  PROVE  Goal(op[s], low)[f] \in Users(f)
  <1> DEFINE g == Goal(op[s], low)
  <1>1. /\ op[s].goal \in Settings /\ SessionTypes /\ sess \in [Kinds -> Sessions]
    BY HandlersAre DEF Types, HandlerTypes, SessionTypes
  <1>2. /\ g.mode = op[s].goal.mode /\ g.grid = op[s].goal.grid
        /\ g.reserve = IF low THEN "none" ELSE Setting(sess, "reserve")
        /\ g.rule = IF Setting(sess, "rule") = "ok" THEN "none" ELSE Setting(sess, "rule")
    BY <1>1, GoalTyped
  <1> HIDE DEF g
  <1>3. Setting(sess, "reserve") \in Users("reserve") /\ Setting(sess, "rule") \in Users("rule")
    BY <1>1, SettingIsUsers, KeptParts DEF Good, Fields
  <1>4. op[s].goal.mode \in Users("mode") /\ op[s].goal.grid \in Users("grid")
    BY KeptParts DEF Good, HasUsers, Fields
  <1>5. "none" \in Users("reserve") /\ "none" \in Users("rule")
    BY DEF Users
  <1>6. /\ g.mode \in Users("mode") /\ g.grid \in Users("grid")
        /\ g.reserve \in Users("reserve") /\ g.rule \in Users("rule")
    BY <1>2, <1>3, <1>4, <1>5
  <1> QED
    BY <1>6 DEF Fields, g

\* The newest restore's reserve is left out for a reason.
LEMMA NoReserve ==
  ASSUME Types, Shape, Lane, Good, NEW s \in Slots, Restoring(s), op[s].cur,
         NEW low \in BOOLEAN
  PROVE  /\ op[s].was = {} => Goal(op[s], low).reserve = "none"
         /\ Goal(op[s], low).reserve = "none" /\ op[s].was # {} => low
  <1> DEFINE g == Goal(op[s], low)
  <1>1. sess \in [Kinds -> Sessions] /\ SessionTypes /\ op[s].goal \in Settings
    BY HandlersAre DEF Types, HandlerTypes, SessionTypes
  <1>2. g.reserve = IF low THEN "none" ELSE Setting(sess, "reserve")
    BY <1>1, GoalTyped
  <1>3. op[s].was = Active(sess) /\ (Before <=> op[s].was = {})
    BY RestoreIsAlone
  <1>4. ASSUME op[s].was = {} PROVE Setting(sess, "reserve") = "none"
    <2>1. \A k \in Kinds : sess[k].sites = Blank /\ sess[k].saved = Blank
      BY <1>3, <1>4 DEF Lane, OneSession, Active
    <2>2. \A k \in Kinds : sess[k].sites.reserve = "none" /\ sess[k].saved.reserve = "none"
      BY <2>1 DEF Blank
    <2>3. Setting(sess, "reserve") \in {sess[k].sites["reserve"] : k \in Kinds}
                               \cup {sess[k].saved["reserve"] : k \in Kinds} \cup {"none"}
      BY <1>1, SettingIsPlaced
    <2> QED
      BY <2>2, <2>3
  <1>5. ASSUME op[s].was # {} PROVE Setting(sess, "reserve") # "none"
    <2>1. PICK k \in Kinds : sess[k].active
      BY <1>3, <1>5 DEF Active
    <2>2. sess[k].saved.reserve # "none"
      BY <1>3, <1>5, <2>1 DEF Good, Covered, Saves
    <2> QED
      BY <1>1, <2>2, SettingIsPlaced
  <1> QED
    BY <1>2, <1>4, <1>5

LEMMA GoodRestoreAnswer ==
  ASSUME Types, Types', Shape, Flags, Lane, Good, NEW s \in Slots, RestoreAnswer(s)
  PROVE  Good'
  <1>1. Restoring(s) /\ own' = own /\ UNCHANGED known /\ mishaps \subseteq mishaps'
    BY RestoreAnswerIs
  <1>2. PICK a, o : Answering(s, a, o) /\
              \/ /\ op[s].at = "handoff" /\ op[s].cur /\ cached
                 /\ o.goal = op[s].goal /\ Go(s, o, "tariff")
              \/ /\ op[s].at \in {"handoff", "tariff"} /\ op[s].cur
                 /\ op[s].at = "handoff" => ~cached
                 /\ o.goal = [op[s].goal EXCEPT !.mode = ModeGoal(op[s], sess)]
                 /\ Go(s, o, "mode")
              \/ op[s].at \in {"handoff", "tariff", "rule", "grid"} /\ ~op[s].cur /\ End(s)
              \/ /\ op[s].at = "mode" /\ AfterMode(s, o)
                 /\ \E low \in BOOLEAN :
                      /\ low => "low_soc" \in mishaps'
                      /\ o.goal = Goal(op[s], low)
              \/ /\ op[s].at = "rule" /\ op[s].cur /\ a # "lost" /\ o.goal = op[s].goal
                 /\ AfterRule(s, o)
              \/ op[s].at = "grid" /\ op[s].cur /\ o.goal = op[s].goal /\ AfterGrid(s, o)
    BY RestoreAnswerIs
  <1>3. /\ o \in Handlers /\ Sames(o, op[s]) /\ a \in Answers /\ Answer(s, a)
        /\ o.failed = (op[s].failed \/ a # "ok") /\ o.was = op[s].was /\ o.cur = op[s].cur
    BY <1>2 DEF Answering, Sames
  <1>4. Backs(s)
    BY <1>1, <1>3, RestoreBacks
  <1>5. hw' \in Gateway
    BY DEF Types, GatewayTypes
  <1>6. /\ \A f \in Fields : Usual[f] \subseteq Usual'[f] /\ Users(f) \subseteq Users(f)'
        /\ \A f \in Fields : op[s].goal[f] \in Users(f)
    <2>1. HasUsers(s)
      BY KeptParts DEF Good
    <2> QED
      BY <1>1, <2>1, UsualGrows DEF HasUsers, UsersStay
  <1>7. op[s].cur => Restored(op[s])
    BY <1>1 DEF Good, Progress
  <1>8. ~o.failed => /\ ~op[s].failed
                     /\ hw'.tariff = IF op[s].at = "tariff" THEN "own" ELSE hw.tariff
                     /\ op[s].at = "mode" => hw'.mode = op[s].goal.mode
                     /\ op[s].at \in {"rule", "grid"} => hw'.mode = hw.mode
                     /\ op[s].at = "rule" => hw'.rule = op[s].goal.rule
                     /\ op[s].at = "grid" => hw'.rule = hw.rule /\ hw'.grid = op[s].goal.grid
    BY <1>1, <1>2, LandedIs
  <1>9. Placed(op[s]) /\ op[s].kind = "restore"
    BY <1>1 DEF Types, HandlerTypes, Restoring
  <1>10. CASE op[s].at = "handoff" /\ op[s].cur /\ o.goal = op[s].goal /\ Go(s, o, "tariff")
    <2>1. /\ GoesOn(s) /\ op'[s].at = "tariff" /\ op'[s].goal = op[s].goal
          /\ op'[s].was = op[s].was
      BY <1>3, <1>10, GoGoesOn
    <2>2. Restored(op[s])'
      BY <1>1, <1>7, <1>10, <2>1 DEF Restored
    <2>3. \A f \in Fields : op'[s].goal[f] \in Users(f)'
      BY <1>6, <2>1
    <2> QED
      BY <1>1, <1>4, <2>1, <2>2, <2>3, GoodGoes
  <1>11. CASE /\ op[s].at \in {"handoff", "tariff"} /\ op[s].cur
              /\ op[s].at = "handoff" => ~cached
              /\ o.goal = [op[s].goal EXCEPT !.mode = ModeGoal(op[s], sess)]
              /\ Go(s, o, "mode")
    <2>1. /\ GoesOn(s) /\ op'[s].at = "mode" /\ op'[s].goal = o.goal
          /\ op'[s].was = op[s].was /\ op'[s].failed = o.failed
      BY <1>3, <1>11, GoGoesOn
    <2>2. op[s].at = "tariff"
      <3>1. SUFFICES ASSUME op[s].at = "handoff" PROVE FALSE
        BY <1>11
      <3>2. op[s].was # {}
        BY <1>1, <3>1 DEF Lane, ForcesAlone
      <3>3. ~Before
        BY <1>1, <1>11, <3>2, RestoreIsAlone
      <3> QED
        BY <1>11, <3>1, <3>3 DEF Good, Covered
    <2> DEFINE m == ModeGoal(op[s], sess)
    <2>3. m \in Usual.mode
      BY <1>1, <1>11, ModeGoalIsUsers
    <2>4. op[s].goal \in Settings
      BY HandlersAre DEF Types, HandlerTypes
    <2>5. o.goal = [op[s].goal EXCEPT !.mode = m]
      BY <1>11
    <2> HIDE DEF m
    <2>6. /\ o.goal.mode = m /\ o.goal.reserve = op[s].goal.reserve
          /\ o.goal.grid = op[s].goal.grid /\ o.goal.rule = op[s].goal.rule
      BY <2>4, <2>5 DEF Settings
    <2>7. \A f \in Fields : op'[s].goal[f] \in Users(f)'
      BY <1>6, <2>1, <2>3, <2>6 DEF Fields, Users
    <2>8. Restored(op[s])'
      BY <1>1, <1>7, <1>8, <1>11, <2>1, <2>2, <2>6 DEF Restored
    <2>9. op'[s].at # "pulsing"
      BY <2>1
    <2> QED
      BY <1>1, <1>4, <2>1, <2>7, <2>8, <2>9, GoodGoes
  <1>12. CASE ~op[s].cur /\ End(s)
    <2>1. Ends(s)
      BY <1>12, EndIs
    <2>2. op'[s].at # "pulsing"
      BY <2>1, FreeIs DEF Ends
    <2> QED
      BY <1>1, <1>4, <1>12, <2>1, <2>2, GoodSuperseded
  <1>13. CASE /\ op[s].at = "mode" /\ AfterMode(s, o)
              /\ \E low \in BOOLEAN :
                   /\ low => "low_soc" \in mishaps'
                   /\ o.goal = Goal(op[s], low)
    <2>1. PICK low \in BOOLEAN : /\ low => "low_soc" \in mishaps'
                                 /\ o.goal = Goal(op[s], low)
      BY <1>13
    <2>2. \A f \in Fields : o.goal[f] \in Users(f)'
      BY <1>1, <1>6, <2>1, GoalIsUsers
    <2>3. CASE ~op[s].cur
      <3>1. GoesOn(s) \/ Ends(s)
        BY <1>3, <1>13, <2>3, AftersAre
      <3>2. op'[s].at # "pulsing"
        BY <1>3, <1>13, AftersAre
      <3>3. (GoesOn(s) /\ op'[s].goal = o.goal) \/ Ends(s)
        BY <1>3, <1>13, <2>3, AfterModeIs
      <3> QED
        BY <1>1, <1>4, <2>2, <2>3, <3>2, <3>3, GoodSuperseded
    <2>4. CASE op[s].cur
      <3>1. /\ op[s].was = {} => o.goal.reserve = "none"
            /\ o.goal.reserve = "none" /\ op[s].was # {} => low
        BY <1>1, <2>1, <2>4, NoReserve
      <3>2. op[s].goal.mode \in Usual'.mode
        BY <1>6, <1>9, <1>13 DEF Placed, Users, Fields
      <3>3. Carries(s, o)
        BY <1>1, <1>3, <1>7, <1>8, <1>13, <2>1, <2>2, <2>4, <3>1, <3>2
           DEF Carries, Restored, Never
      <3>4. CASE /\ GoesOn(s) /\ op'[s].goal = o.goal /\ op'[s].failed = o.failed
                 /\ op'[s].at = "rule" /\ o.goal.rule # "none"
        <4>1. op'[s].was = o.was
          BY <1>3, <3>4 DEF GoesOn, Sames
        <4>2. Restored(op[s])'
          BY <3>3, <3>4, <4>1 DEF Restored, Carries
        <4>3. op'[s].at # "pulsing" /\ \A f \in Fields : op'[s].goal[f] \in Users(f)'
          BY <2>2, <3>4
        <4> QED
          BY <1>1, <1>4, <3>4, <4>2, <4>3, GoodGoes
      <3>5. CASE o.goal.rule = "none" /\ AfterRule(s, o)
        <4>1. o.goal.rule = IF Setting(sess, "rule") = "ok" THEN "none" ELSE Setting(sess, "rule")
          <5>1. op[s].goal \in Settings /\ SessionTypes
            BY HandlersAre DEF Types, HandlerTypes
          <5> QED
            BY <2>1, <5>1, GoalTyped
        <4>2. hw.rule \in Usual.rule
          BY <3>5, <4>1, RuleIsUsers
        <4>3. hw'.rule \in Usual'.rule
          BY <1>4, <1>6, <4>2 DEF Backs, Fields
        <4> QED
          BY <1>1, <1>4, <1>5, <2>4, <3>3, <3>5, <4>3, GoodAfterRule
      <3> QED
        BY <1>3, <1>13, <2>4, <3>4, <3>5, AfterModeIs
    <2> QED
      BY <2>3, <2>4
  <1>14. CASE op[s].at = "rule" /\ op[s].cur /\ o.goal = op[s].goal /\ AfterRule(s, o)
    <2>1. Carries(s, o)
      <3>1. \A f \in Fields : o.goal[f] \in Users(f)'
        BY <1>6, <1>14
      <3>2. ~o.failed => hw'.mode \in Usual'.mode
        BY <1>6, <1>7, <1>8, <1>14 DEF Restored, Fields
      <3> QED
        BY <1>1, <1>3, <1>7, <1>8, <1>14, <3>1, <3>2 DEF Carries, Restored, Never
    <2>2. ~o.failed => hw'.rule \in Usual'.rule
      <3>1. op[s].goal.rule # "none"
        BY <1>9, <1>14 DEF Placed
      <3>2. op[s].goal.rule \in Usual'.rule
        BY <1>6, <3>1 DEF Users, Fields
      <3> QED
        BY <1>8, <1>14, <3>2
    <2> QED
      BY <1>1, <1>4, <1>5, <1>14, <2>1, <2>2, GoodAfterRule
  <1>15. CASE op[s].at = "grid" /\ op[s].cur /\ o.goal = op[s].goal /\ AfterGrid(s, o)
    <2>1. Carries(s, o)
      <3>1. \A f \in Fields : o.goal[f] \in Users(f)'
        BY <1>6, <1>15
      <3>2. ~o.failed => hw'.mode \in Usual'.mode
        BY <1>6, <1>7, <1>8, <1>15 DEF Restored, Fields
      <3> QED
        BY <1>1, <1>3, <1>7, <1>8, <1>15, <3>1, <3>2 DEF Carries, Restored, Never
    <2>2. ~o.failed => hw'.rule \in Usual'.rule /\ hw'.grid \in Usual'.grid
      <3>1. op[s].goal.grid \in Usual'.grid
        BY <1>6, <1>9, <1>15 DEF Placed, Users, Fields
      <3> QED
        BY <1>6, <1>7, <1>8, <1>15, <3>1 DEF Restored, Fields
    <2> QED
      BY <1>1, <1>4, <1>5, <1>15, <2>1, <2>2, GoodAfterGrid
  <1> QED
    BY <1>2, <1>10, <1>11, <1>12, <1>13, <1>14, <1>15

\* Inv of the next state, once the parts are there.
LEMMA InvStep ==
  ASSUME Inv, Types', mishaps \subseteq mishaps', Shape', Flags',
         Never({"overlap"})' /\ Lane => Lane',
         Plain' /\ Lane /\ Good => Good'
  PROVE  Inv'
  <1>1. Never({"overlap"})' => Never({"overlap"})
    BY StillPlain
  <1>2. Plain' => Plain /\ Never({"overlap"})
    BY StillPlain DEF Plain, Never
  <1> QED
    BY <1>1, <1>2 DEF Inv

LEMMA RestoreAnswerInv ==
  ASSUME Inv, Types', NEW s \in Slots, RestoreAnswer(s)
  PROVE  Inv'
  <1>1. Types /\ Shape /\ Flags
    BY DEF Inv
  <1>2. Restoring(s) /\ own' = own /\ mishaps \subseteq mishaps'
    BY <1>1, RestoreAnswerIs
  <1>3. GoesOn(s) \/ Ends(s) \/ (op[s].cur /\ Ended(s))
    BY <1>1, RestoreSteps
  <1>4. Shape' /\ Flags'
    BY <1>1, <1>2, <1>3, ShapeRestores, FlagsRestore
  <1>5. Lane => Lane'
    BY <1>1, <1>2, <1>3, LaneRestores
  <1>6. Lane /\ Good => Good'
    BY <1>1, GoodRestoreAnswer
  <1> QED
    BY <1>2, <1>4, <1>5, <1>6, InvStep

-----------------------------------------------------------------------------
(* A restore begins                                                        *)

LEMMA ShapeStarts ==
  ASSUME Types, Shape, NEW s \in Slots, op[s].kind # "free" \/ HasSlot,
         NEW source, NEW retry, NEW after, NEW keep, NEW ss,
         StartRestore(s, source, retry, after, keep, ss)
  PROVE  Shape'
  <1>1. /\ Newest(s)
        /\ \/ op'[s] = Free
           \/ Started(s, source, retry, after, keep, ss)
    BY StartIs
  <1>2. CASE op'[s] = Free
    <2>1. /\ op'[s].kind = "free" /\ ~op'[s].cur /\ op'[s].at = "" /\ op'[s].after = ""
      BY <1>2, FreeIs
    <2>2. /\ op'[s].kind # "startup" /\ op'[s].at # "pulsing" /\ op'[s].after # "drop"
          /\ (~Forcing(s) /\ ~Restoring(s) => op[s].after = "")'
      BY <2>1
    <2> QED
      BY <1>1, <2>1, <2>2, ShapeNewest
  <1>3. CASE Started(s, source, retry, after, keep, ss)
    <2>1. op'[s].kind = "restore" /\ op'[s].at \in {"handoff", "tariff", "mode"}
      BY <1>3 DEF Started
    <2>2. Restoring(s)' /\ op'[s].kind # "startup" /\ op'[s].at # "pulsing"
      BY <2>1 DEF Restoring
    <2> QED
      BY <1>1, <2>2, ShapeNewest
  <1> QED
    BY <1>1, <1>2, <1>3

LEMMA FlagsStart ==
  ASSUME Types, Flags, NEW s \in Slots,
         NEW source, NEW retry, NEW after, NEW keep, NEW ss,
         StartRestore(s, source, retry, after, keep, ss), Unflagged(sess, disk)',
         keep => ~Never({"reserve"})', source = "optimizer" => ~Never({"optimizer"})',
         own' = own, mishaps \subseteq mishaps'
  PROVE  Flags'
  <1>1. /\ Newest(s) /\ sess' = ss
        /\ \/ op'[s] = Free
           \/ Started(s, source, retry, after, keep, ss)
    BY StartIs
  <1>2. Unmarked(op[s])'
    <2>1. CASE op'[s] = Free
      BY <2>1, FreeIs DEF Unmarked, SpareNone, UsersOwn
    <2>2. CASE Started(s, source, retry, after, keep, ss)
      <3>1. /\ op'[s].kind = "restore" /\ op'[s].cur /\ op'[s].res /\ op'[s].source = "user"
            /\ op'[s].skip = (keep \/ \E k \in Kinds : ss[k].skip)
            /\ op'[s].opt = (source = "optimizer" \/ \E k \in Kinds : ss[k].source = "optimizer")
        BY <2>2 DEF Started
      <3>2. Never({"reserve"})' => ~op'[s].skip
        BY <1>1, <3>1 DEF Unflagged
      <3>3. Never({"optimizer"})' => ~op'[s].opt
        BY <1>1, <3>1 DEF Unflagged
      <3> QED
        BY <3>1, <3>2, <3>3 DEF Unmarked, SpareNone, UsersOwn
    <2> QED
      BY <1>1, <2>1, <2>2
  <1> QED
    BY <1>1, <1>2, FlagsOnly

\* A record is flagged if a session is.
LEMMA RecordUnflagged ==
  ASSUME NEW ss \in [Kinds -> Sessions]
  PROVE  /\ (\A k \in Kinds : ~ss[k].skip) => ~Record(ss).skip
         /\ (\A k \in Kinds : ss[k].source = "user") => Record(ss).source = "user"
  <1>1. CASE Active(ss) = {}
    BY <1>1 DEF Record, NoRecord
  <1>2. CASE Active(ss) # {}
    <2> DEFINE k == IF ss["charge"].active THEN "charge" ELSE "discharge"
    <2>1. k \in Kinds
      BY DEF Kinds
    <2>2. Record(ss) = [kind |-> k, source |-> ss[k].source, skip |-> ss[k].skip,
                        saved |-> ss[k].saved]
      BY <1>2 DEF Record
    <2> HIDE DEF k
    <2>3. Record(ss).skip = ss[k].skip /\ Record(ss).source = ss[k].source
      BY <2>2
    <2> QED
      BY <2>1, <2>3
  <1> QED
    BY <1>1, <1>2

\* The sessions of a force command that has failed.
Failing(s, flag) ==
  [sess EXCEPT ![op[s].kind].skip = flag, ![op[s].kind].active = TRUE,
     ![op[s].kind].source = op[s].source]

LEMMA FailingIs ==
  ASSUME Types, NEW s \in Slots, Forcing(s), NEW flag \in BOOLEAN
  PROVE  /\ Failing(s, flag) \in [Kinds -> Sessions] /\ op[s].kind \in Kinds
         /\ Failing(s, flag)[op[s].kind].skip = flag
         /\ Failing(s, flag)[op[s].kind].source = op[s].source
         /\ \A j \in Kinds \ {op[s].kind} : Failing(s, flag)[j] = sess[j]
         /\ sess[op[s].kind].active => Alike(Failing(s, flag), sess)
         /\ Active(Failing(s, flag)) # {}
  <1> DEFINE k == op[s].kind
  <1> DEFINE src == op[s].source
  <1> DEFINE ss == Failing(s, flag)
  <1>1. /\ k \in Kinds /\ sess \in [Kinds -> Sessions] /\ src \in {"user", "optimizer"}
    BY DEF Forcing, Types, SessionTypes, HandlerTypes, Handlers
  <1>0. ss = [sess EXCEPT ![k].skip = flag, ![k].active = TRUE, ![k].source = src]
    BY DEF Failing
  <1> HIDE DEF k, src, ss
  <1>2. sess[k] \in Sessions
    BY <1>1
  <1>3. ss[k] = [sess[k] EXCEPT !.skip = flag, !.active = TRUE, !.source = src]
    BY <1>0, <1>1
  <1>4. \A j \in Kinds \ {k} : ss[j] = sess[j]
    BY <1>0, <1>1
  <1>5. /\ ss[k].skip = flag /\ ss[k].source = src /\ ss[k].active = TRUE
        /\ ss[k].saved = sess[k].saved /\ ss[k].sites = sess[k].sites
    BY <1>2, <1>3 DEF Sessions
  <1>6. ss[k] \in Sessions
    BY <1>1, <1>2, <1>3 DEF Sessions
  <1>7. ss \in [Kinds -> Sessions]
    BY <1>0, <1>1, <1>4, <1>6
  <1>8. sess[k].active => Alike(ss, sess)
    <2>1. sess[k].active \in BOOLEAN
      BY <1>2 DEF Sessions
    <2>2. sess[k].active => ss[k].active = sess[k].active
      BY <1>5, <2>1
    <2> QED
      BY <1>4, <1>5, <2>2 DEF Alike
  <1>9. Active(ss) # {}
    BY <1>1, <1>5 DEF Active
  <1> QED
    BY <1>1, <1>4, <1>5, <1>7, <1>8, <1>9 DEF ss, k, src

-----------------------------------------------------------------------------
(* The steps of a force command                                            *)

\* A command that fails restores.
LEMMA CleanUpInv ==
  ASSUME Inv, Types', NEW s \in Slots, Forcing(s), NEW keep \in BOOLEAN, NEW flag \in BOOLEAN,
         NEW ms, CleanUp(s, keep, flag, ms), flag => op[s].cur /\ ~op[s].res,
         Plain' => ~Fresh(s) /\ hw'.rule = hw.rule, own' = own, UNCHANGED known
  PROVE  Inv'
  <1> DEFINE ss == Failing(s, flag)
  <1>1. /\ StartRestore(s, "user", 0, op[s].after, flag, ss)
        /\ disk' = Recorded(ss) /\ Mishap(Overlaps(s) \cup ms)
    BY DEF CleanUp, Failing
  <1>2. Types /\ Shape /\ Flags
    BY DEF Inv
  <1>3. /\ ss \in [Kinds -> Sessions] /\ op[s].kind \in Kinds
        /\ ss[op[s].kind].skip = flag /\ ss[op[s].kind].source = op[s].source
        /\ \A j \in Kinds \ {op[s].kind} : ss[j] = sess[j]
        /\ sess[op[s].kind].active => Alike(ss, sess)
        /\ Active(ss) # {}
    BY <1>2, FailingIs
  <1>4. sess' = ss
    BY <1>1 DEF StartRestore
  <1> HIDE DEF ss
  <1>5. mishaps \subseteq mishaps'
    BY <1>1 DEF Mishap
  <1>6. Never({"overlap"})' => Supersedes(s)
    BY <1>1, <1>2, OverlapsAre DEF Supersedes
  <1>7. op[s].kind # "free" /\ op[s].kind # "restore"
    BY <1>3 DEF Kinds
  <1>8. Shape'
    BY <1>1, <1>2, <1>7, ShapeStarts
  <1>9. disk'.rec = Record(ss) /\ disk'.pending = disk.pending
    BY <1>1, <1>2 DEF Recorded, Types, StoreTypes
  <1>10. /\ Never({"reserve"})' => ~flag /\ Never({"reserve"})
         /\ Never({"optimizer"})' => op[s].source = "user" /\ Never({"optimizer"})
    <2>1. Unmarked(op[s])
      BY <1>2 DEF Flags
    <2> QED
      BY <1>5, <2>1 DEF Unmarked, SpareNone, UsersOwn, Never
  <1>11. Unflagged(sess, disk)'
    <2>1. Unflagged(sess, disk)
      BY <1>2 DEF Flags
    <2>2. Never({"reserve"})' => \A k \in Kinds : ~ss[k].skip
      BY <1>3, <1>10, <2>1 DEF Unflagged
    <2>3. Never({"optimizer"})' => \A k \in Kinds : ss[k].source = "user"
      BY <1>3, <1>10, <2>1 DEF Unflagged
    <2> QED
      BY <1>3, <1>4, <1>9, <1>10, <2>1, <2>2, <2>3, RecordUnflagged DEF Unflagged
  <1>12. Flags'
    BY <1>1, <1>2, <1>5, <1>10, <1>11, FlagsStart
  <1>13. ASSUME Never({"overlap"})', Lane
         PROVE  Lane' /\ Alike(ss, sess)
    <2>1. sess[op[s].kind].active
      BY <1>13 DEF Lane, ForcesAlone
    <2>2. Alike(ss, sess)
      BY <1>3, <2>1
    <2>3. disk'.rec.kind = "charge" => disk'.rec.saved.rule = "none"
      <3>1. ss["charge"].saved.rule = "none"
        BY <1>13, <2>2 DEF Alike, Lane, OneSession, Kinds
      <3> QED
        BY <1>3, <1>9, <3>1, RecordedRule
    <2> QED
      BY <1>1, <1>2, <1>3, <1>5, <1>6, <1>13, <2>2, <2>3, LaneStarts
  <1>14. ASSUME Plain', Lane, Good PROVE Good'
    <2>1. Never({"overlap"})'
      BY <1>14 DEF Plain, Never
    <2>2. Alike(ss, sess) /\ Supersedes(s)
      BY <1>6, <1>13, <1>14, <2>1
    <2>3. (\E k \in Kinds : ss[k].source = "optimizer") => "optimizer" \in mishaps'
      <3>1. Never({"optimizer"})' => \A k \in Kinds : ss[k].source = "user"
        BY <1>4, <1>11 DEF Unflagged
      <3> QED
        BY <3>1 DEF Never
    <2>4. ~Restoring(s) /\ ~Fresh(s) /\ hw'.rule = hw.rule
      BY <1>7, <1>14 DEF Restoring
    <2> QED
      BY <1>1, <1>2, <1>3, <1>5, <1>14, <2>2, <2>3, <2>4, GoodStarts
  <1> QED
    BY <1>5, <1>8, <1>12, <1>13, <1>14, InvStep

\* A command writes its next setting.
LEMMA GoesOnInv ==
  ASSUME Inv, Types', NEW s \in Slots, Forcing(s), NEW at, Go(s, op[s], at),
         at \in {"grid", "mode", "reserve", "tariff", "pulse", "pulsing"},
         at = "pulsing" => ~Locked, ~Fresh(s), hw'.rule = hw.rule,
         own' = own, UNCHANGED known, mishaps \subseteq mishaps'
  PROVE  Inv'
  <1>1. Types /\ Shape /\ Flags /\ op[s] \in Handlers
    BY DEF Inv, Types, HandlerTypes
  <1>2. /\ Only(s) /\ op'[s] = [op[s] EXCEPT !.at = at] /\ sess' = sess /\ disk' = disk
    BY <1>1, GoIs
  <1>3. Sames(op'[s], op[s]) /\ op'[s].at = at
    <2>1. LET p == [op[s] EXCEPT !.at = at] IN Sames(p, op[s]) /\ p.at = at
      BY <1>1 DEF Handlers, Sames
    <2> QED
      BY <1>2, <2>1
  <1>4. /\ op'[s].kind = op[s].kind /\ op'[s].cur = op[s].cur /\ op'[s].after = op[s].after
        /\ op[s].kind \in Kinds
    BY <1>3 DEF Sames, Forcing
  <1>5. (Forcing(s) /\ ~Fresh(s) /\ ~Restoring(s))'
    BY <1>3, <1>4 DEF Forcing, Fresh, Restoring, Kinds
  <1>6. op[s].after # "drop" /\ op[s].kind \notin {"free", "startup", "restore"}
    BY <1>1, <1>4 DEF Shape, Afters, Restoring, Kinds
  <1>7. Shape'
    <2>1. op'[s].at = "pulsing" => ~Locked
      BY <1>3
    <2> QED
      BY <1>1, <1>2, <1>4, <1>5, <1>6, <2>1, ShapeOnly
  <1>8. Flags'
    <2>1. Never({"reserve"})' => Never({"reserve"})
      BY DEF Never
    <2>2. Never({"optimizer"})' => Never({"optimizer"})
      BY DEF Never
    <2>3. Unmarked(op[s])'
      BY <1>1, <1>3, <2>1, <2>2 DEF Flags, Unmarked, SpareNone, UsersOwn, Sames
    <2> QED
      BY <1>1, <1>2, <2>3, FlagsOnly, StillUnflagged
  <1>9. Alike(sess', sess) /\ UsersStay
    BY <1>2 DEF Alike, UsersStay
  <1>10. Lane => Lane'
    <2>1. Lane => (disk'.rec.kind = "charge" => disk'.rec.saved.rule = "none")
      BY <1>2 DEF Lane, OneSession
    <2> QED
      BY <1>1, <1>2, <1>4, <1>5, <1>9, <2>1, LaneOnly
  <1>11. Lane /\ Good => Good'
    <2>1. op'[s].at # "rule"
      BY <1>3
    <2> QED
      BY <1>1, <1>2, <1>5, <1>9, <2>1, GoodForces
  <1> QED
    BY <1>7, <1>8, <1>10, <1>11, InvStep

\* A superseded command ends.
LEMMA EndsInv ==
  ASSUME Inv, Types', NEW s \in Slots, Forcing(s), ~op[s].cur, Ends(s),
         own' = own, mishaps \subseteq mishaps'
  PROVE  Inv'
  <1>1. Types /\ Shape /\ Flags
    BY DEF Inv
  <1>2. op[s].kind \in Kinds
    BY DEF Forcing
  <1>3. op[s].after # "drop" /\ op[s].kind # "free"
    BY <1>1, <1>2 DEF Shape, Afters, Restoring, Kinds
  <1>4. /\ Only(s) /\ sess' = sess /\ disk' = disk /\ op'[s] = Free
    <2>1. disk'.rec = disk.rec /\ disk'.pending = disk.pending
      BY <1>3 DEF Ends
    <2>2. disk' = disk
      BY <1>1, <2>1 DEF Types, StoreTypes
    <2> QED
      BY <2>2 DEF Ends
  <1>5. /\ op'[s].kind = "free" /\ op'[s].at = "" /\ op'[s].after = "" /\ ~op'[s].cur
    BY <1>4, FreeIs
  <1>6. Shape'
    <2>1. /\ op'[s].kind # "startup" /\ op'[s].at # "pulsing" /\ op'[s].after # "drop"
          /\ (~Forcing(s) /\ ~Restoring(s) => op[s].after = "")'
      BY <1>5
    <2> QED
      BY <1>1, <1>3, <1>4, <1>5, <2>1, ShapeOnly
  <1>7. Flags'
    <2>1. Unmarked(op[s])'
      BY <1>4, FreeIs DEF Unmarked, SpareNone, UsersOwn
    <2> QED
      BY <1>1, <1>4, <2>1, FlagsOnly, StillUnflagged
  <1>8. ~Lane
    BY DEF Lane, ForcesAlone
  <1> QED
    BY <1>6, <1>7, <1>8, InvStep

-----------------------------------------------------------------------------
(* The end of a restore                                                    *)

LEMMA RestoreStepInv ==
  ASSUME Inv, Types', NEW s \in Slots, Restoring(s),
         GoesOn(s) \/ Ends(s) \/ (op[s].cur /\ Ended(s)),
         own' = own, mishaps \subseteq mishaps',
         Plain' /\ Lane /\ Good => Good'
  PROVE  Inv'
  <1>1. Types /\ Shape /\ Flags
    BY DEF Inv
  <1>2. Shape' /\ Flags'
    BY <1>1, ShapeRestores, FlagsRestore
  <1>3. Lane => Lane'
    BY <1>1, LaneRestores
  <1> QED
    BY <1>2, <1>3, InvStep

\* A failed restore is recorded.
LEMMA NoteAnswerInv ==
  ASSUME Inv, Types', NEW s \in Slots, NoteAnswer(s)
  PROVE  Inv'
  <1>1. Types /\ Shape /\ Flags
    BY DEF Inv
  <1>2. op[s].at = "note" /\ op[s].kind = "restore" /\ op[s] \in Handlers
    BY <1>1, LooksAre DEF NoteAnswer, Types, HandlerTypes
  <1>3. /\ hw' = hw /\ own' = own /\ sess' = sess /\ UNCHANGED known
        /\ mishaps \subseteq mishaps'
        /\ op[s].after = "drop" => "forgotten" \in mishaps'
    BY DEF NoteAnswer, Mishap, If
  <1>4. /\ op' = [op EXCEPT ![s] = Free]
        /\ disk'.pending = (IF op[s].skip THEN "skip" ELSE "all")
        /\ \/ op[s].after = "drop" /\ disk'.rec = NoRecord
           \/ disk'.rec \in {disk.rec, Record(sess)}
    <2> DEFINE noted == [disk EXCEPT !.pending = IF op[s].skip THEN "skip" ELSE "all"]
    <2>1. \E d \in {noted, [noted EXCEPT !.rec = Record(sess)]} : \E t : Leave(s, d, t)
      BY DEF NoteAnswer
    <2>2. PICK d, t : Leave(s, d, t) /\ d \in {noted, [noted EXCEPT !.rec = Record(sess)]}
      BY <2>1
    <2>3. d.pending = (IF op[s].skip THEN "skip" ELSE "all") /\ d.rec \in {disk.rec, Record(sess)}
          /\ \E r : d = [rec |-> r, pending |-> d.pending]
      BY <1>1, <2>2 DEF Types, StoreTypes
    <2>4. op' = [op EXCEPT ![s] = Free] /\ disk' = IF op[s].after = "drop" THEN [d EXCEPT !.rec = NoRecord] ELSE d
      BY <2>2 DEF Leave
    <2> HIDE DEF noted
    <2> QED
      BY <2>3, <2>4
  <1>5. Only(s) /\ op'[s] = Free
    BY <1>1, <1>4 DEF Only, Types, HandlerTypes
  <1>6. op'[s].kind = "free" /\ op'[s].at = "" /\ op'[s].after = "" /\ ~op'[s].cur
    BY <1>5, FreeIs
  <1>7. ~Forcing(s)' /\ ~Fresh(s)' /\ ~Restoring(s)' /\ ~Forcing(s) /\ Restoring(s)
    BY <1>2, <1>6 DEF Forcing, Fresh, Restoring, Kinds
  <1>8. Shape'
    <2>1. /\ op'[s].kind # "startup" /\ op'[s].at # "pulsing" /\ op'[s].after # "drop"
          /\ (~Forcing(s) /\ ~Restoring(s) => op[s].after = "")'
      BY <1>6
    <2> QED
      BY <1>1, <1>2, <1>5, <1>6, <2>1, ShapeOnly
  <1>9. NoRecord.source = "user" /\ ~NoRecord.skip /\ NoRecord.kind = "none"
        /\ NoRecord.saved = Blank
    BY DEF NoRecord
  <1>10. sess \in [Kinds -> Sessions]
    BY <1>1 DEF Types, SessionTypes
  <1>11. Flags'
    <2>1. Unmarked(op[s])'
      BY <1>5, FreeIs DEF Unmarked, SpareNone, UsersOwn
    <2>2. Unflagged(sess, disk) /\ Unmarked(op[s])
      BY <1>1 DEF Flags
    <2>3. Never({"reserve"})' => Never({"reserve"}) /\ ~op[s].skip
      BY <1>3, <2>2 DEF Unmarked, SpareNone, Never
    <2>4. Never({"optimizer"})' => Never({"optimizer"})
      BY <1>3 DEF Never
    <2>5. Unflagged(sess, disk)'
      BY <1>3, <1>4, <1>9, <1>10, <2>2, <2>3, <2>4, RecordUnflagged DEF Unflagged
    <2> QED
      BY <1>1, <1>3, <1>5, <2>1, <2>5, FlagsOnly
  <1>12. Alike(sess', sess) /\ UsersStay
    BY <1>3 DEF Alike, UsersStay
  <1>13. Lane => Lane'
    <2>1. Lane => (disk'.rec.kind = "charge" => disk'.rec.saved.rule = "none")
      BY <1>4, <1>9, <1>10, RecordedRule DEF Lane, OneSession
    <2> QED
      BY <1>1, <1>3, <1>5, <1>7, <1>12, <2>1, LaneOnly
  <1>14. ASSUME Plain', Lane, Good PROVE Good'
    <2>1. op[s].after # "drop"
      BY <1>3, <1>14 DEF Plain, Never
    <2>2. disk'.rec \in {disk.rec, Record(sess)}
      BY <1>4, <2>1
    <2>3. RecordIsUsers'
      <3>1. CASE disk'.rec = disk.rec
        BY <1>1, <1>3, <1>12, <1>14, <3>1, SavedStays DEF Good
      <3>2. CASE disk'.rec = Record(sess)
        <4>1. SavedIsUsers(sess)'
          BY <1>1, <1>3, <1>12, <1>14, SavedStays DEF Good
        <4>2. \A f \in Fields : Record(sess).saved[f] \in Users(f)'
          BY <1>3, <1>10, <4>1, RecordIsUsersToo DEF SavedIsUsers
        <4> QED
          BY <3>2, <4>2 DEF RecordIsUsers
      <3> QED
        BY <2>2, <3>1, <3>2
    <2>4. ASSUME Never({"overtaken", "switched"})'
          PROVE  /\ \/ disk'.rec = disk.rec
                    \/ RecordIs(sess', disk'.rec) /\ \A t \in Slots : ~Fresh(t)
                 /\ Before /\ disk'.pending # "none" /\ disk.pending = "none" => "idle" \in mishaps'
      <3>1. op[s].cur
        <4>1. "overtaken" \notin mishaps
          BY <1>3, <2>4 DEF Never
        <4> QED
          BY <1>7, <1>14, <4>1 DEF Lane, ForcesAlone
      <3>2. (\A t \in Slots : ~Fresh(t)) /\ (Before <=> op[s].was = {})
        BY <1>1, <1>7, <1>14, <3>1, RestoreIsAlone
      <3>3. Restored(op[s])
        BY <1>7, <1>14, <3>1 DEF Good, Progress
      <3>4. RecordIs(sess', Record(sess))
        BY <1>3, <1>10, RecordIsOf
      <3> QED
        BY <1>3, <2>2, <3>2, <3>3, <3>4 DEF Restored
    <2>5. Backs(s)
      BY <1>3 DEF Backs
    <2> QED
      BY <1>1, <1>3, <1>5, <1>7, <1>12, <1>14, <2>3, <2>4, <2>5, GoodBacks
  <1> QED
    BY <1>3, <1>8, <1>11, <1>13, <1>14, InvStep

-----------------------------------------------------------------------------
(* The pulse                                                               *)

LEMMA RestorePulseIs ==
  ASSUME Types, NEW s \in Slots, Restoring(s), NEW ok \in BOOLEAN, PulseOver(s, ok)
  PROVE  /\ mishaps' = mishaps
         /\ \/ ~op[s].cur /\ Ends(s)
            \/ /\ op[s].cur /\ GoesOn(s) /\ op'[s].at = "note" /\ op'[s].goal = op[s].goal
               /\ op'[s].failed /\ op'[s].was = op[s].was
            \/ op[s].cur /\ Ended(s) /\ ~op[s].failed /\ (~op[s].res \/ ok)
  <1>1. op[s] \in Handlers /\ op[s].kind = "restore"
    BY DEF Types, HandlerTypes, Restoring
  <1>2. op[s].cur \in BOOLEAN /\ op[s].failed \in BOOLEAN /\ op[s].res \in BOOLEAN
    BY <1>1 DEF Handlers
  <1>3. CASE ~op[s].cur
    <2>1. End(s) /\ mishaps' = mishaps
      BY <1>3 DEF PulseOver
    <2> QED
      BY <1>3, <2>1, EndIs
  <1>4. CASE op[s].cur
    <2> DEFINE p == [op[s] EXCEPT !.failed = @ \/ (op[s].res /\ ~ok)]
    <2>1. Finish(s, p) /\ mishaps' = mishaps
      BY <1>1, <1>4 DEF PulseOver
    <2>2. /\ p \in Handlers /\ Sames(p, op[s]) /\ p.goal = op[s].goal
          /\ p.failed = (op[s].failed \/ (op[s].res /\ ~ok))
      BY <1>1, <1>2 DEF Handlers, Sames
    <2> HIDE DEF p
    <2>3. CASE p.failed
      <3>1. Go(s, p, "note")
        BY <2>1, <2>3 DEF Finish
      <3> QED
        BY <1>4, <2>1, <2>2, <2>3, <3>1, GoGoesOn
    <2>4. CASE ~p.failed
      BY <1>4, <2>1, <2>2, <2>4, FinishIs
    <2> QED
      BY <2>3, <2>4
  <1> QED
    BY <1>2, <1>3, <1>4

LEMMA RestorePulseInv ==
  ASSUME Inv, Types', NEW s \in Slots, Restoring(s), NEW ok \in BOOLEAN, PulseOver(s, ok),
         \/ op[s].at = "pulse" /\ hw' = hw /\ ~(op[s].cur /\ op[s].res)
         \/ /\ op[s].at = "pulsing"
            /\ \E a \in Answers : Answer(s, a) /\ (ok => a = "ok"),
         own' = own, UNCHANGED known
  PROVE  Inv'
  <1>1. Types /\ Shape /\ Flags
    BY DEF Inv
  <1>2. /\ mishaps' = mishaps
        /\ \/ ~op[s].cur /\ Ends(s)
           \/ /\ op[s].cur /\ GoesOn(s) /\ op'[s].at = "note" /\ op'[s].goal = op[s].goal
              /\ op'[s].failed /\ op'[s].was = op[s].was
           \/ op[s].cur /\ Ended(s) /\ ~op[s].failed /\ (~op[s].res \/ ok)
    BY <1>1, RestorePulseIs
  <1>3. ASSUME Lane, Good PROVE Good'
    <2>1. Backs(s)
      <3>1. CASE hw' = hw
        BY <3>1 DEF Backs
      <3>2. CASE \E a \in Answers : Answer(s, a)
        BY <1>1, <1>2, <1>3, <3>2, RestoreBacks
      <3> QED
        BY <3>1, <3>2
    <2>2. CASE ~op[s].cur /\ Ends(s)
      <3>1. op'[s].at # "pulsing"
        BY <2>2, FreeIs DEF Ends
      <3> QED
        BY <1>1, <1>2, <1>3, <2>1, <2>2, <3>1, GoodSuperseded
    <2>3. CASE /\ op[s].cur /\ GoesOn(s) /\ op'[s].at = "note" /\ op'[s].goal = op[s].goal
               /\ op'[s].failed /\ op'[s].was = op[s].was
      <3>1. Restored(op[s]) /\ \A f \in Fields : op[s].goal[f] \in Users(f)
        BY <1>3, <2>3, KeptParts DEF Good, Progress, HasUsers
      <3>2. \A f \in Fields : op'[s].goal[f] \in Users(f)'
        BY <1>1, <1>2, <2>3, <3>1, UsualGrows DEF UsersStay
      <3>3. Restored(op[s])' /\ op'[s].at # "pulsing"
        BY <1>2, <2>3, <3>1 DEF Restored
      <3> QED
        BY <1>1, <1>2, <1>3, <2>1, <2>3, <3>2, <3>3, GoodGoes
    <2>4. CASE op[s].cur /\ Ended(s) /\ ~op[s].failed /\ (~op[s].res \/ ok)
      <3>1. /\ hw.tariff = "own" /\ hw.mode \in Usual.mode /\ hw.rule \in Usual.rule
            /\ hw.grid \in Usual.grid
        BY <1>3, <2>4 DEF Good, Progress, Restored
      <3>2. Usual' = Usual
        BY <1>2 DEF Usual, Never, If
      <3>3. ~op[s].res => ~Never({"low_soc", "reserve"})
        BY <1>1, <2>4 DEF Flags, Unmarked, SpareNone, Never
      <3>4. hw \in Gateway /\ hw' \in Gateway /\ op[s].kind = "restore"
        BY <1>1 DEF Types, GatewayTypes, Restoring
      <3>5. CASE hw' = hw /\ op[s].at = "pulse" /\ ~op[s].res
        <4>1. hw.reserve \in Usual.reserve
          <5>1. Usual.reserve = Levels
            BY <1>1, <3>3, <3>5, UsualIs
          <5> QED
            BY <3>4, <5>1 DEF Gateway, Levels
        <4>2. ~Never({"low_soc", "reserve"})'
          BY <1>2, <3>3, <3>5 DEF Never
        <4>3. hw'.tariff = "own" /\ \A f \in Fields : hw'[f] \in Usual'[f]
          BY <3>1, <3>2, <3>5, <4>1 DEF Fields
        <4> QED
          BY <1>1, <1>2, <1>3, <2>4, <4>2, <4>3, GoodEnds
      <3>6. CASE op[s].at = "pulsing" /\ \E a \in Answers : Answer(s, a) /\ (ok => a = "ok")
        <4>1. PICK a \in Answers : Answer(s, a) /\ (ok => a = "ok")
          BY <3>6
        <4> DEFINE r == op[s].goal.reserve
        <4>2. hw' = hw \/ hw' = [hw EXCEPT !.reserve = "nudge"] \/ hw' = [hw EXCEPT !.reserve = r]
          BY <3>6, <4>1 DEF Answer, Missed, Landed
        <4>3. ok => hw' = [hw EXCEPT !.reserve = r]
          BY <3>6, <4>1 DEF Answer, Landed
        <4> HIDE DEF r
        <4>4. /\ hw'.tariff = hw.tariff /\ hw'.mode = hw.mode /\ hw'.grid = hw.grid
              /\ hw'.rule = hw.rule /\ (ok => hw'.reserve = r)
          BY <3>4, <4>2, <4>3 DEF Gateway
        <4>5. hw'.reserve \in Usual.reserve
          <5>1. CASE ~op[s].res
            <6>1. Usual.reserve = Levels
              BY <1>1, <3>3, <5>1, UsualIs
            <6> QED
              BY <3>4, <6>1 DEF Gateway, Levels
          <5>2. CASE ok
            <6>1. r # "none"
              BY <1>1, <3>4, <3>6 DEF Types, HandlerTypes, Placed, r
            <6>2. r \in Users("reserve")
              BY <1>3, KeptParts DEF Good, HasUsers, Fields, r
            <6> QED
              BY <4>4, <5>2, <6>1, <6>2 DEF Users
          <5> QED
            BY <2>4, <5>1, <5>2
        <4>6. hw'.tariff = "own" /\ \A f \in Fields : hw'[f] \in Usual'[f]
          BY <3>1, <3>2, <4>4, <4>5 DEF Fields
        <4> QED
          BY <1>1, <1>2, <1>3, <2>4, <3>6, <4>6, GoodEnds
      <3> QED
        BY <2>4, <3>5, <3>6
    <2> QED
      BY <1>2, <2>2, <2>3, <2>4
  <1>4. GoesOn(s) \/ Ends(s) \/ (op[s].cur /\ Ended(s))
    BY <1>2
  <1> QED
    BY <1>2, <1>3, <1>4, RestoreStepInv

\* The sessions of a force command that has succeeded.
Succeeding(s) ==
  [sess EXCEPT ![op[s].kind].active = TRUE, ![op[s].kind].source = op[s].source]

LEMMA SucceedingIs ==
  ASSUME Types, NEW s \in Slots, Forcing(s)
  PROVE  /\ Succeeding(s) \in [Kinds -> Sessions] /\ op[s].kind \in Kinds
         /\ \A j \in Kinds : Succeeding(s)[j].skip = sess[j].skip
         /\ Succeeding(s)[op[s].kind].source = op[s].source
         /\ \A j \in Kinds \ {op[s].kind} : Succeeding(s)[j] = sess[j]
         /\ sess[op[s].kind].active => Alike(Succeeding(s), sess)
  <1> DEFINE k == op[s].kind
  <1> DEFINE src == op[s].source
  <1> DEFINE ss == Succeeding(s)
  <1>1. /\ k \in Kinds /\ sess \in [Kinds -> Sessions] /\ src \in {"user", "optimizer"}
    BY DEF Forcing, Types, SessionTypes, HandlerTypes, Handlers
  <1>2. ss = [sess EXCEPT ![k].active = TRUE, ![k].source = src]
    BY DEF Succeeding
  <1> HIDE DEF k, src, ss
  <1>3. sess[k] \in Sessions
    BY <1>1
  <1>4. ss[k] = [sess[k] EXCEPT !.active = TRUE, !.source = src]
    BY <1>1, <1>2
  <1>5. \A j \in Kinds \ {k} : ss[j] = sess[j]
    BY <1>1, <1>2
  <1>6. /\ ss[k].source = src /\ ss[k].active = TRUE /\ ss[k].skip = sess[k].skip
        /\ ss[k].saved = sess[k].saved /\ ss[k].sites = sess[k].sites
    BY <1>3, <1>4 DEF Sessions
  <1>7. ss[k] \in Sessions
    BY <1>1, <1>3, <1>4 DEF Sessions
  <1>8. ss \in [Kinds -> Sessions]
    BY <1>1, <1>2, <1>5, <1>7
  <1>9. sess[k].active => Alike(ss, sess)
    <2>1. sess[k].active \in BOOLEAN
      BY <1>3 DEF Sessions
    <2>2. sess[k].active => ss[k].active = sess[k].active
      BY <1>6, <2>1
    <2> QED
      BY <1>5, <1>6, <2>2 DEF Alike
  <1>10. \A j \in Kinds : ss[j].skip = sess[j].skip
    BY <1>5, <1>6
  <1> QED
    BY <1>1, <1>5, <1>6, <1>8, <1>9, <1>10 DEF ss, k, src

\* A command has succeeded.
LEMMA RunningInv ==
  ASSUME Inv, Types', NEW s \in Slots, Forcing(s), ~Fresh(s), Running(s),
         hw'.rule = hw.rule, own' = own, UNCHANGED known, mishaps \subseteq mishaps'
  PROVE  Inv'
  <1> DEFINE ss == Succeeding(s)
  <1>1. Types /\ Shape /\ Flags
    BY DEF Inv
  <1>2. /\ ss \in [Kinds -> Sessions] /\ op[s].kind \in Kinds
        /\ \A j \in Kinds : ss[j].skip = sess[j].skip
        /\ ss[op[s].kind].source = op[s].source
        /\ \A j \in Kinds \ {op[s].kind} : ss[j] = sess[j]
        /\ sess[op[s].kind].active => Alike(ss, sess)
    BY <1>1, SucceedingIs
  <1>3. op[s].after # "drop" /\ op[s].kind # "free"
    BY <1>1, <1>2 DEF Shape, Afters, Restoring, Kinds
  <1>4. sess' = ss /\ op' = [op EXCEPT ![s] = Free] /\ disk' = Recorded(ss)
    BY <1>3 DEF Running, Leave, Succeeding
  <1> HIDE DEF ss
  <1>5. Only(s) /\ op'[s] = Free
    BY <1>1, <1>4 DEF Only, Types, HandlerTypes
  <1>6. disk'.rec = Record(ss) /\ disk'.pending = disk.pending
    BY <1>1, <1>4 DEF Recorded, Types, StoreTypes
  <1>7. op'[s].kind = "free" /\ op'[s].at = "" /\ op'[s].after = "" /\ ~op'[s].cur
    BY <1>5, FreeIs
  <1>8. Shape'
    <2>1. /\ op'[s].kind # "startup" /\ op'[s].at # "pulsing" /\ op'[s].after # "drop"
          /\ (~Forcing(s) /\ ~Restoring(s) => op[s].after = "")'
      BY <1>7
    <2> QED
      BY <1>1, <1>3, <1>5, <1>7, <2>1, ShapeOnly
  <1>9. Flags'
    <2>1. Unmarked(op[s])'
      BY <1>5, FreeIs DEF Unmarked, SpareNone, UsersOwn
    <2>2. Unflagged(sess, disk) /\ Unmarked(op[s])
      BY <1>1 DEF Flags
    <2>3. Never({"reserve"})' => Never({"reserve"})
      BY DEF Never
    <2>4. Never({"optimizer"})' => Never({"optimizer"}) /\ op[s].source = "user"
      BY <2>2 DEF Unmarked, UsersOwn, Never
    <2>5. Unflagged(sess, disk)'
      BY <1>2, <1>4, <1>6, <2>2, <2>3, <2>4, RecordUnflagged DEF Unflagged
    <2> QED
      BY <1>1, <1>5, <2>1, <2>5, FlagsOnly
  <1>10. Lane => Alike(sess', sess)
    BY <1>2, <1>4 DEF Lane, ForcesAlone
  <1>11. Lane => Lane'
    <2>1. SUFFICES ASSUME Lane PROVE Lane'
      OBVIOUS
    <2>2. ss["charge"].saved.rule = "none"
      BY <1>4, <1>10, <2>1 DEF Alike, Lane, OneSession, Kinds
    <2>3. disk'.rec.kind = "charge" => disk'.rec.saved.rule = "none"
      BY <1>2, <1>6, <2>2, RecordedRule
    <2>4. ~Forcing(s)' /\ ~Fresh(s)' /\ ~Restoring(s)'
      BY <1>7 DEF Forcing, Fresh, Restoring, Kinds
    <2> QED
      BY <1>1, <1>5, <1>10, <2>1, <2>3, <2>4, LaneOnly
  <1>12. Lane /\ Good => Good'
    BY <1>1, <1>2, <1>4, <1>5, <1>10, GoodRuns
  <1> QED
    BY <1>8, <1>9, <1>11, <1>12, InvStep

\* The pulse of a force command is over.
LEMMA ForcePulseInv ==
  ASSUME Inv, Types', NEW s \in Slots, Forcing(s), ~Fresh(s), NEW ok \in BOOLEAN,
         PulseOver(s, ok), hw'.rule = hw.rule, own' = own, UNCHANGED known
  PROVE  Inv'
  <1>1. Types /\ op[s].cur \in BOOLEAN /\ op[s].res \in BOOLEAN /\ op[s].kind # "restore"
    BY DEF Inv, Types, HandlerTypes, Handlers, Forcing, Kinds
  <1>2. CASE ~op[s].cur
    <2>1. End(s) /\ mishaps' = mishaps
      BY <1>2 DEF PulseOver
    <2> QED
      BY <1>1, <1>2, <2>1, EndIs, EndsInv
  <1>3. CASE op[s].cur /\ op[s].res /\ ok
    <2>1. Running(s) /\ mishaps' = mishaps
      BY <1>1, <1>3 DEF PulseOver
    <2> QED
      BY <2>1, RunningInv
  <1>4. CASE op[s].cur /\ ~(op[s].res /\ ok)
    <2>1. CleanUp(s, ~op[s].res, ~op[s].res, {})
      BY <1>1, <1>4 DEF PulseOver, Cleanup
    <2> QED
      BY <1>1, <1>4, <2>1, CleanUpInv
  <1> QED
    BY <1>1, <1>2, <1>3, <1>4

\* What a request leaves alone.
LEMMA RuleStays ==
  ASSUME Types, NEW s \in Slots, NEW a, Answer(s, a), op[s].at # "rule"
  PROVE  hw'.rule = hw.rule
  <1> DEFINE o == op[s]
  <1>1. hw \in Gateway
    BY DEF Types, GatewayTypes
  <1>2. hw' = Landed(o) \/ hw' = hw \/ hw' = [hw EXCEPT !.reserve = "nudge"]
    BY DEF Answer, Missed
  <1>3. \/ hw' = hw
        \/ \E v : \/ hw' = [hw EXCEPT !.mode = v] \/ hw' = [hw EXCEPT !.grid = v]
                  \/ hw' = [hw EXCEPT !.reserve = v] \/ hw' = [hw EXCEPT !.tariff = v]
    BY <1>2 DEF Landed
  <1> HIDE DEF o
  <1> QED
    BY <1>1, <1>3 DEF Gateway

LEMMA PulseBeginsInv ==
  ASSUME Inv, Types', NEW s \in Slots, PulseBegins(s)
  PROVE  Inv'
  <1>1. Types /\ Shape /\ Flags /\ op[s] \in Handlers /\ Placed(op[s])
    BY DEF Inv, Types, HandlerTypes
  <1>2. /\ op[s].at = "pulse" /\ ~Locked /\ op[s].cur /\ Go(s, op[s], "pulsing")
        /\ hw' = hw /\ own' = own /\ UNCHANGED known /\ mishaps' = mishaps
    BY DEF PulseBegins
  <1>3. op[s].kind \in Kinds \cup {"restore"}
    BY <1>1, <1>2, PulsesAre
  <1>4. CASE op[s].kind \in Kinds
    <2>1. Forcing(s) /\ ~Fresh(s)
      BY <1>2, <1>4 DEF Forcing, Fresh
    <2> QED
      BY <1>2, <2>1, GoesOnInv
  <1>5. CASE op[s].kind = "restore"
    <2>1. Sames(op[s], op[s]) /\ Restoring(s)
      BY <1>5 DEF Sames, Restoring
    <2>2. /\ GoesOn(s) /\ op'[s].at = "pulsing" /\ op'[s].goal = op[s].goal
          /\ op'[s].failed = op[s].failed /\ op'[s].was = op[s].was
      BY <1>1, <1>2, <2>1, GoGoesOn
    <2>3. ASSUME Lane, Good PROVE Good'
      <3>1. Restored(op[s]) /\ \A f \in Fields : op[s].goal[f] \in Users(f)
        BY <1>2, <2>1, <2>3, KeptParts DEF Good, Progress, HasUsers
      <3>2. Usual' = Usual
        BY <1>2 DEF Usual, Never, If
      <3>3. \A f \in Fields : op'[s].goal[f] \in Users(f)'
        BY <2>2, <3>1, <3>2 DEF Users
      <3>4. Restored(op[s])'
        BY <1>2, <2>2, <3>1, <3>2 DEF Restored
      <3>5. ~Before
        <4>1. op[s].goal.reserve # "none"
          BY <1>1, <1>2, <1>5 DEF Placed
        <4>2. op[s].was # {}
          BY <3>1, <4>1 DEF Restored
        <4> QED
          BY <1>1, <1>2, <2>1, <2>3, <4>2, RestoreIsAlone
      <3>6. Backs(s)
        BY <1>2 DEF Backs
      <3> QED
        BY <1>1, <1>2, <2>1, <2>2, <2>3, <3>3, <3>4, <3>5, <3>6, GoodGoes
    <2> QED
      BY <1>2, <2>1, <2>2, <2>3, RestoreStepInv
  <1> QED
    BY <1>3, <1>4, <1>5

LEMMA PulseSkippedInv ==
  ASSUME Inv, Types', NEW s \in Slots, PulseSkipped(s)
  PROVE  Inv'
  <1>1. Types
    BY DEF Inv
  <1>2. /\ op[s].at = "pulse" /\ ~(op[s].cur /\ op[s].res) /\ PulseOver(s, FALSE)
        /\ hw' = hw /\ own' = own /\ UNCHANGED known
    BY DEF PulseSkipped
  <1>3. op[s].kind \in Kinds \cup {"restore"}
    BY <1>1, <1>2, PulsesAre
  <1>4. CASE op[s].kind \in Kinds
    <2>1. Forcing(s) /\ ~Fresh(s)
      BY <1>2, <1>4 DEF Forcing, Fresh
    <2> QED
      BY <1>2, <2>1, ForcePulseInv
  <1>5. CASE op[s].kind = "restore"
    BY <1>2, <1>5, RestorePulseInv DEF Restoring
  <1> QED
    BY <1>3, <1>4, <1>5

LEMMA PulseAnswerInv ==
  ASSUME Inv, Types', NEW s \in Slots, PulseAnswer(s)
  PROVE  Inv'
  <1>1. Types
    BY DEF Inv
  <1>2. op[s].at = "pulsing" /\ own' = own /\ UNCHANGED known
    BY DEF PulseAnswer
  <1>3. PICK a \in Answers : Answer(s, a) /\ PulseOver(s, a = "ok")
    BY DEF PulseAnswer
  <1>4. op[s].kind \in Kinds \cup {"restore"}
    BY <1>1, <1>2, PulsesAre
  <1> DEFINE ok == a = "ok"
  <1>5. ok \in BOOLEAN /\ PulseOver(s, ok) /\ (ok => a = "ok")
    BY <1>3
  <1> HIDE DEF ok
  <1>6. CASE op[s].kind \in Kinds
    <2>1. Forcing(s) /\ ~Fresh(s)
      BY <1>2, <1>6 DEF Forcing, Fresh
    <2>2. hw'.rule = hw.rule
      BY <1>1, <1>2, <1>3, RuleStays
    <2> QED
      BY <1>2, <1>5, <2>1, <2>2, ForcePulseInv
  <1>7. CASE op[s].kind = "restore"
    BY <1>2, <1>3, <1>5, <1>7, RestorePulseInv DEF Restoring
  <1> QED
    BY <1>4, <1>6, <1>7

\* A request for the export rule ends without an answer.
LEMMA RuleRaisesInv ==
  ASSUME Inv, Types', NEW s \in Slots, RuleRaises(s)
  PROVE  Inv'
  <1>1. Types
    BY DEF Inv
  <1>2. /\ op[s].at = "rule" /\ own' = own /\ UNCHANGED known
        /\ IF op[s].kind = "restore" THEN End(s) /\ Mishap({"raised"})
                                     ELSE CleanUp(s, FALSE, FALSE, {"raised"})
    BY DEF RuleRaises
  <1>3. op[s].kind \in Kinds \cup {"restore"}
    BY <1>1, <1>2, LooksAre
  <1>4. mishaps \subseteq mishaps' /\ "raised" \in mishaps'
    BY <1>2 DEF CleanUp, Mishap
  <1>5. ~Plain'
    BY <1>4 DEF Plain, Never
  <1>6. CASE op[s].kind = "restore"
    <2>1. Ends(s) /\ Restoring(s)
      BY <1>1, <1>2, <1>6, EndIs DEF Restoring
    <2> QED
      BY <1>2, <1>4, <1>5, <2>1, RestoreStepInv
  <1>7. CASE op[s].kind \in Kinds
    <2>1. CleanUp(s, FALSE, FALSE, {"raised"})
      BY <1>2, <1>7 DEF Kinds
    <2>2. Forcing(s)
      BY <1>2, <1>7 DEF Forcing
    <2> QED
      BY <1>2, <1>5, <2>1, <2>2, CleanUpInv
  <1> QED
    BY <1>3, <1>6, <1>7

\* A force command goes on if it is the newest.
LEMMA GoOnInv ==
  ASSUME Inv, Types', NEW s \in Slots, Forcing(s), ~Fresh(s), NEW at,
         at \in {"grid", "mode", "reserve", "tariff", "pulse"}, GoOn(s, at),
         hw'.rule = hw.rule, own' = own, UNCHANGED known
  PROVE  Inv'
  <1>1. Types /\ op[s].cur \in BOOLEAN /\ mishaps' = mishaps
    BY DEF Inv, Types, HandlerTypes, Handlers, GoOn
  <1>2. CASE op[s].cur
    <2>1. Go(s, op[s], at)
      BY <1>2 DEF GoOn
    <2> QED
      BY <1>1, <2>1, GoesOnInv
  <1>3. CASE ~op[s].cur
    <2>1. End(s)
      BY <1>3 DEF GoOn
    <2> QED
      BY <1>1, <1>3, <2>1, EndIs, EndsInv
  <1> QED
    BY <1>1, <1>2, <1>3

LEMMA FailsInv ==
  ASSUME Inv, Types', NEW s \in Slots, Forcing(s), ~Fresh(s), Fails(s),
         hw'.rule = hw.rule, own' = own, UNCHANGED known
  PROVE  Inv'
  <1>1. Types /\ op[s].cur \in BOOLEAN
    BY DEF Inv, Types, HandlerTypes, Handlers
  <1>2. CASE op[s].cur
    <2>1. CleanUp(s, FALSE, FALSE, {})
      BY <1>2 DEF Fails, Cleanup
    <2> QED
      BY <2>1, CleanUpInv
  <1>3. CASE ~op[s].cur
    <2>1. End(s) /\ mishaps' = mishaps
      BY <1>3 DEF Fails
    <2> QED
      BY <1>1, <1>3, <2>1, EndIs, EndsInv
  <1> QED
    BY <1>1, <1>2, <1>3

LEMMA ChargeAnswerInv ==
  ASSUME Inv, Types', NEW s \in Slots, ChargeAnswer(s)
  PROVE  Inv'
  <1>1. Types
    BY DEF Inv
  <1>2. op[s].kind = "charge" /\ own' = own /\ UNCHANGED known
    BY DEF ChargeAnswer
  <1>3. PICK a \in Answers :
       /\ Answer(s, a)
       /\ \/ op[s].at = "mode" /\ a = "ok" /\ GoOn(s, "grid")
          \/ op[s].at = "mode" /\ a # "ok" /\ Cleanup(s, FALSE)
          \/ op[s].at = "grid" /\ a = "ok" /\ Go(s, op[s], "reserve") /\ UNCHANGED mishaps
          \/ op[s].at = "grid" /\ a # "ok" /\ Fails(s)
          \/ op[s].at = "reserve" /\ ~Locked
               /\ LET over == If(~op[s].res /\ a # "refused", "overwritten") IN
                  IF a = "ok" THEN Go(s, op[s], "tariff") /\ Mishap(over)
                              ELSE CleanUp(s, FALSE, FALSE, over)
          \/ op[s].at = "tariff"
               /\ IF Sent(a) THEN Go(s, op[s], "pulse") /\ UNCHANGED mishaps
                             ELSE Cleanup(s, FALSE)
    BY DEF ChargeAnswer
  <1>4. op[s].at \in {"mode", "grid", "reserve", "tariff"}
    BY <1>3
  <1>5. Forcing(s) /\ ~Fresh(s)
    BY <1>2, <1>4 DEF Forcing, Fresh, Kinds
  <1>6. hw'.rule = hw.rule
    BY <1>1, <1>3, <1>4, RuleStays
  <1>7. CASE GoOn(s, "grid")
    BY <1>2, <1>5, <1>6, <1>7, GoOnInv
  <1>8. CASE Cleanup(s, FALSE)
    BY <1>2, <1>5, <1>6, <1>8, CleanUpInv DEF Cleanup
  <1>9. CASE UNCHANGED mishaps /\ (Go(s, op[s], "reserve") \/ Go(s, op[s], "pulse"))
    BY <1>2, <1>5, <1>6, <1>9, GoesOnInv
  <1>10. CASE Fails(s)
    BY <1>2, <1>5, <1>6, <1>10, FailsInv
  <1>11. CASE \E ms : Go(s, op[s], "tariff") /\ Mishap(ms)
    <2>1. mishaps \subseteq mishaps'
      BY <1>11 DEF Mishap
    <2> QED
      BY <1>2, <1>5, <1>6, <1>11, <2>1, GoesOnInv
  <1>12. CASE \E ms : CleanUp(s, FALSE, FALSE, ms)
    BY <1>2, <1>5, <1>6, <1>12, CleanUpInv
  <1> QED
    BY <1>3, <1>7, <1>8, <1>9, <1>10, <1>11, <1>12

\* The step that saves what a discharge has read, and goes on.
LEMMA SavesInv ==
  ASSUME Inv, Types', NEW s \in Slots, Fresh(s), NEW b \in Settings, Only(s),
         sess' = Save(s, op[s].kind, b), disk' = disk,
         \/ /\ Sames(op'[s], op[s]) /\ op'[s].at \in {"grid", "mode"}
            /\ op[s].kind = "charge" => op'[s].at = "mode"
         \/ op'[s] = Free /\ ~op[s].cur,
         own' = own, mishaps \subseteq mishaps',
         op[s].kind = "charge" => b.rule = "none",
         op[s].cur /\ Plain' /\ Lane /\ Good
           => /\ \A f \in {"mode", "reserve", "grid"} : b[f] \in Usual[f]
              /\ b.rule \in Users("rule")
              /\ \/ hw'.rule = hw.rule /\ hw.rule \in Usual.rule
                 \/ op[s].kind = "discharge" /\ b.rule # "none" /\ hw'.rule \in {hw.rule, "ok"}
              /\ cached' /\ pref' \in Users("grid") /\ mishaps' = mishaps
  PROVE  Inv'
  <1>1. Types /\ Shape /\ Flags
    BY DEF Inv
  <1>2. Forcing(s) /\ op[s].kind \in Kinds
    BY <1>1, FreshForces DEF Forcing
  <1>3. op[s].after # "drop" /\ op[s].kind \notin {"free", "startup", "restore"}
    BY <1>1, <1>2 DEF Shape, Afters, Restoring, Kinds
  <1>4. Sames(op'[s], op[s]) /\ op'[s].at \in {"grid", "mode"} => (Forcing(s) /\ ~Fresh(s))'
    BY <1>2, <1>3 DEF Sames, Forcing, Fresh
  <1>5. op'[s] = Free => ~op'[s].cur /\ op'[s].at = "" /\ op'[s].after = "" /\ op'[s].kind = "free"
    BY FreeIs
  <1>6. (op'[s].kind = op[s].kind /\ op'[s].cur = op[s].cur /\ op'[s].after = op[s].after)
        \/ op'[s] = Free
    BY DEF Sames
  <1>7. Shape'
    <2>1. /\ op'[s].kind # "startup" /\ op'[s].at # "pulsing" /\ op'[s].after # "drop"
      BY <1>3, <1>5, <1>6
    <2>2. (~Forcing(s) /\ ~Restoring(s) => op[s].after = "")'
      BY <1>4, <1>5
    <2>3. op'[s].cur => op[s].cur /\ (Forcing(s) \/ Restoring(s))'
      BY <1>4, <1>5, <1>6
    <2> QED
      BY <1>1, <1>3, <2>1, <2>2, <2>3, ShapeOnly
  <1>8. sess \in [Kinds -> Sessions] /\ sess[op[s].kind] \in Sessions
    BY <1>1, <1>2 DEF Types, SessionTypes
  <1>9. \A j \in Kinds : sess'[j].skip = sess[j].skip /\ sess'[j].source = sess[j].source
    <2> DEFINE k == op[s].kind
    <2>1. sess' = [sess EXCEPT ![k].saved = b, ![k].sites = b]
      BY DEF Save
    <2> HIDE DEF k
    <2> QED
      BY <1>2, <1>8, <2>1 DEF Sessions, k
  <1>10. Flags'
    <2>1. Unmarked(op[s]) /\ Unflagged(sess, disk)
      BY <1>1 DEF Flags
    <2>2. Never({"reserve"})' => Never({"reserve"})
      BY DEF Never
    <2>3. Never({"optimizer"})' => Never({"optimizer"})
      BY DEF Never
    <2>4. Unmarked(op[s])'
      <3>1. CASE Sames(op'[s], op[s])
        BY <2>1, <2>2, <2>3, <3>1 DEF Unmarked, SpareNone, UsersOwn, Sames
      <3>2. CASE op'[s] = Free
        BY <3>2, FreeIs DEF Unmarked, SpareNone, UsersOwn
      <3> QED
        BY <3>1, <3>2
    <2>5. Unflagged(sess, disk)'
      BY <1>9, <2>1, <2>2, <2>3 DEF Unflagged
    <2> QED
      BY <1>1, <2>4, <2>5, FlagsOnly
  <1>11. Lane => op[s].cur /\ Sames(op'[s], op[s]) /\ op'[s].at \in {"grid", "mode"}
    BY <1>2 DEF Lane, ForcesAlone
  <1>12. Lane => Lane'
    <2>1. SUFFICES ASSUME Lane PROVE Lane'
      OBVIOUS
    <2>2. (Forcing(s) /\ ~Fresh(s))' /\ op'[s].kind = op[s].kind /\ op'[s].cur = op[s].cur
      BY <1>4, <1>11, <2>1 DEF Sames
    <2>3. ~Restoring(s)'
      BY <1>3, <2>2 DEF Restoring
    <2> QED
      BY <1>1, <1>2, <2>1, <2>2, <2>3, LaneSaves
  <1>13. ASSUME Plain', Lane, Good PROVE Good'
    <2>1. (Forcing(s) /\ ~Fresh(s))' /\ op'[s].at # "rule"
      BY <1>4, <1>11, <1>13
    <2>2. b.rule # "none" => op[s].kind = "discharge"
      BY <1>2 DEF Kinds
    <2> QED
      BY <1>1, <1>2, <1>11, <1>13, <2>1, <2>2, GoodSaves
  <1> QED
    BY <1>7, <1>10, <1>12, <1>13, InvStep

LEMMA DischargeAnswerInv ==
  ASSUME Inv, Types', NEW s \in Slots, DischargeAnswer(s)
  PROVE  Inv'
  <1>1. Types /\ Shape /\ op[s] \in Handlers /\ Placed(op[s])
    BY DEF Inv, Types, HandlerTypes
  <1>2. op[s].kind = "discharge" /\ own' = own /\ UNCHANGED known
    BY DEF DischargeAnswer
  <1>3. PICK a \in Answers :
       /\ Answer(s, a)
       /\ \/ /\ op[s].at = "rule" /\ a # "lost"
             /\ sess' = Save(s, "discharge", op[s].base)
             /\ IF op[s].cur
                  THEN op' = [op EXCEPT ![s].at = "grid"] /\ UNCHANGED <<timers, disk>>
                  ELSE Leave(s, disk, timers)
             /\ UNCHANGED <<kept, mishaps>>
          \/ op[s].at = "grid" /\ a = "ok" /\ Go(s, op[s], "mode") /\ UNCHANGED mishaps
          \/ op[s].at = "grid" /\ a # "ok" /\ Fails(s)
          \/ op[s].at = "mode" /\ Go(s, op[s], "tariff") /\ UNCHANGED mishaps
          \/ op[s].at = "tariff"
               /\ IF Sent(a) THEN Go(s, op[s], "pulse") /\ UNCHANGED mishaps
                             ELSE Cleanup(s, FALSE)
    BY DEF DischargeAnswer
  <1>4. CASE /\ op[s].at = "rule"
             /\ sess' = Save(s, "discharge", op[s].base)
             /\ IF op[s].cur
                  THEN op' = [op EXCEPT ![s].at = "grid"] /\ UNCHANGED <<timers, disk>>
                  ELSE Leave(s, disk, timers)
             /\ UNCHANGED <<kept, mishaps>>
    <2>1. Fresh(s) /\ Forcing(s)
      BY <1>2, <1>4 DEF Fresh, Forcing, Kinds
    <2>2. op[s].base \in Settings
      BY <1>1, HandlersAre
    <2>3. op[s].after # "drop"
      BY <1>1, <1>2 DEF Shape, Afters, Restoring
    <2>4. /\ Only(s) /\ disk' = disk
          /\ \/ Sames(op'[s], op[s]) /\ op'[s].at = "grid"
             \/ op'[s] = Free /\ ~op[s].cur
      <3>1. CASE op[s].cur
        <4>1. op' = [op EXCEPT ![s] = [op[s] EXCEPT !.at = "grid"]] /\ disk' = disk
          BY <1>4, <3>1
        <4> DEFINE p == [op[s] EXCEPT !.at = "grid"]
        <4>2. Sames(p, op[s]) /\ p.at = "grid"
          BY <1>1 DEF Handlers, Sames
        <4> HIDE DEF p
        <4>3. op' = [op EXCEPT ![s] = p]
          BY <4>1 DEF p
        <4>4. Only(s) /\ op'[s] = p
          BY <1>1, <4>3 DEF Only, Types, HandlerTypes
        <4> QED
          BY <4>1, <4>2, <4>4
      <3>2. CASE ~op[s].cur
        <4>1. op' = [op EXCEPT ![s] = Free] /\ disk' = disk
          BY <1>4, <2>3, <3>2 DEF Leave
        <4>2. Only(s) /\ op'[s] = Free
          BY <1>1, <4>1 DEF Only, Types, HandlerTypes
        <4> QED
          BY <3>2, <4>1, <4>2
      <3> QED
        BY <1>1, <3>1, <3>2 DEF Handlers
    <2>5. hw'.rule \in {hw.rule, "ok"}
      <3>1. hw' = hw \/ hw' = [hw EXCEPT !.rule = op[s].goal.rule]
        BY <1>3, <1>4 DEF Answer, Missed, Landed
      <3>2. op[s].goal.rule = "ok"
        BY <1>1, <1>2, <1>4 DEF Placed, ForceGoal, Kinds
      <3>3. hw' = hw \/ hw' = [hw EXCEPT !.rule = "ok"]
        BY <3>1, <3>2
      <3> QED
        BY <1>1, <3>3 DEF Types, GatewayTypes, Gateway
    <2>6. ASSUME Plain', Lane, Good
          PROVE  /\ \A f \in {"mode", "reserve", "grid"} : op[s].base[f] \in Usual[f]
                 /\ op[s].base.rule \in Users("rule") /\ op[s].base.rule # "none"
                 /\ cached' /\ pref' \in Users("grid") /\ mishaps' = mishaps
      <3>1. cached /\ \A f \in Fields : op[s].base[f] \in Usual[f]
        BY <1>4, <2>1, <2>6, KeptParts DEF Good, HasUsers
      <3>2. \A f \in Fields : "none" \notin Usual[f]
        BY <1>1, UsualIs
      <3>3. pref \in Users("grid")
        BY <2>6 DEF Good, Kept
      <3> QED
        BY <1>2, <1>4, <3>1, <3>2, <3>3 DEF Fields, Users, known
    <2> QED
      BY <1>2, <1>4, <2>1, <2>2, <2>4, <2>5, <2>6, SavesInv
  <1>5. CASE op[s].at \in {"grid", "mode", "tariff"}
    <2>1. Forcing(s) /\ ~Fresh(s)
      BY <1>2, <1>5 DEF Forcing, Fresh, Kinds
    <2>2. hw'.rule = hw.rule
      BY <1>1, <1>3, <1>5, RuleStays
    <2>3. CASE UNCHANGED mishaps /\ \E at \in {"mode", "tariff", "pulse"} : Go(s, op[s], at)
      BY <1>2, <2>1, <2>2, <2>3, GoesOnInv
    <2>4. CASE Cleanup(s, FALSE)
      BY <1>2, <2>1, <2>2, <2>4, CleanUpInv DEF Cleanup
    <2>5. CASE Fails(s)
      BY <1>2, <2>1, <2>2, <2>5, FailsInv
    <2> QED
      BY <1>3, <1>5, <2>3, <2>4, <2>5
  <1> QED
    BY <1>3, <1>4, <1>5

\* A discharge has read the settings, or could not.
LEMMA ReadsInv ==
  ASSUME Inv, Types', NEW s \in Slots, op[s].at = "baseline", op[s].kind = "discharge",
         NEW b \in Settings, Go(s, [op[s] EXCEPT !.base = b], "rule"),
         hw' = hw, own' = own, mishaps \subseteq mishaps',
         Plain' /\ Lane /\ Good => /\ mishaps' = mishaps /\ cached' /\ pref' \in Users("grid")
                                   /\ \A f \in Fields : b[f] \in Usual[f]
  PROVE  Inv'
  <1>1. Types /\ Shape /\ Flags /\ op[s] \in Handlers
    BY DEF Inv, Types, HandlerTypes
  <1>2. /\ Only(s) /\ op'[s] = [[op[s] EXCEPT !.base = b] EXCEPT !.at = "rule"]
        /\ sess' = sess /\ disk' = disk
    BY <1>1, GoIs
  <1>3. Sames(op'[s], op[s]) /\ op'[s].at = "rule" /\ op'[s].base = b
    <2>1. LET p == [[op[s] EXCEPT !.base = b] EXCEPT !.at = "rule"] IN
          Sames(p, op[s]) /\ p.at = "rule" /\ p.base = b
      BY <1>1 DEF Handlers, Sames
    <2> QED
      BY <1>2, <2>1
  <1>4. /\ op'[s].kind = "discharge" /\ op'[s].cur = op[s].cur /\ op'[s].after = op[s].after
    BY <1>3 DEF Sames
  <1>5. Fresh(s) /\ (Forcing(s) /\ Fresh(s) /\ ~Restoring(s))' /\ Forcing(s)
    BY <1>3, <1>4 DEF Forcing, Fresh, Restoring, Kinds
  <1>6. op[s].after # "drop"
    BY <1>1 DEF Shape, Afters, Restoring
  <1>7. Shape'
    <2>1. op'[s].at # "pulsing" /\ op'[s].kind # "startup" /\ op[s].kind # "free"
      BY <1>3, <1>4
    <2> QED
      BY <1>1, <1>2, <1>4, <1>5, <1>6, <2>1, ShapeOnly
  <1>8. Flags'
    <2>1. Never({"reserve"})' => Never({"reserve"})
      BY DEF Never
    <2>2. Never({"optimizer"})' => Never({"optimizer"})
      BY DEF Never
    <2>3. Unmarked(op[s])'
      BY <1>1, <1>3, <2>1, <2>2 DEF Flags, Unmarked, SpareNone, UsersOwn, Sames
    <2> QED
      BY <1>1, <1>2, <2>3, FlagsOnly, StillUnflagged
  <1>9. Alike(sess', sess)
    BY <1>2 DEF Alike
  <1>10. Lane => Lane'
    <2>1. Lane => (disk'.rec.kind = "charge" => disk'.rec.saved.rule = "none")
      BY <1>2 DEF Lane, OneSession
    <2> QED
      BY <1>1, <1>2, <1>4, <1>5, <1>9, <2>1, LaneOnly
  <1>11. Plain' /\ Lane /\ Good => Good'
    BY <1>1, <1>2, <1>3, <1>5, GoodReads
  <1> QED
    BY <1>7, <1>8, <1>10, <1>11, InvStep

\* A session whose settings could not be asked for is dropped.
LEMMA LapsesInv ==
  ASSUME Inv, Types', NEW s \in Slots, op[s].at = "baseline",
         sess' = [sess EXCEPT ![op[s].kind].active = FALSE], Leave(s, disk, timers),
         hw' = hw, own' = own, UNCHANGED known, mishaps' = mishaps
  PROVE  Inv'
  <1>1. Types /\ Shape /\ Flags /\ op[s].kind \in Kinds
    BY LooksAre DEF Inv
  <1>2. Fresh(s) /\ Forcing(s)
    BY <1>1, FreshForces DEF Fresh
  <1>3. op[s].after # "drop" /\ op[s].kind # "free"
    BY <1>1 DEF Shape, Afters, Restoring, Kinds
  <1>4. Only(s) /\ op'[s] = Free /\ disk' = disk
    <2>1. op' = [op EXCEPT ![s] = Free] /\ disk' = disk
      BY <1>3 DEF Leave
    <2> QED
      BY <1>1, <2>1 DEF Only, Types, HandlerTypes
  <1>5. op'[s].kind = "free" /\ op'[s].at = "" /\ op'[s].after = "" /\ ~op'[s].cur
    BY <1>4, FreeIs
  <1>6. Shape'
    <2>1. /\ op'[s].kind # "startup" /\ op'[s].at # "pulsing" /\ op'[s].after # "drop"
          /\ (~Forcing(s) /\ ~Restoring(s) => op[s].after = "")'
      BY <1>5
    <2> QED
      BY <1>1, <1>3, <1>4, <1>5, <2>1, ShapeOnly
  <1>7. \A j \in Kinds : sess'[j].skip = sess[j].skip /\ sess'[j].source = sess[j].source
    <2> DEFINE k == op[s].kind
    <2>1. sess' = [sess EXCEPT ![k].active = FALSE] /\ sess \in [Kinds -> Sessions]
      BY <1>1 DEF Types, SessionTypes
    <2> HIDE DEF k
    <2> QED
      BY <2>1 DEF Sessions
  <1>8. Flags'
    <2>1. Unmarked(op[s])'
      BY <1>4, FreeIs DEF Unmarked, SpareNone, UsersOwn
    <2>2. Unflagged(sess, disk)'
      BY <1>1, <1>4, <1>7 DEF Flags, Unflagged, Never
    <2> QED
      BY <1>1, <1>4, <2>1, <2>2, FlagsOnly
  <1>9. Lane => Lane'
    BY <1>1, <1>2, <1>4, LaneLapses
  <1>10. Lane /\ Good => Good'
    BY <1>1, <1>2, <1>4, GoodLapses
  <1> QED
    BY <1>6, <1>8, <1>9, <1>10, InvStep

\* A force command has the settings of before, or not.
LEMMA BaselineAnswerInv ==
  ASSUME Inv, Types', NEW s \in Slots, BaselineAnswer(s)
  PROVE  Inv'
  <1> DEFINE k == op[s].kind
  <1> DEFINE Based(b) ==
        IF k = "charge"
          THEN /\ op' = [op EXCEPT ![s].at = "mode"] /\ sess' = Save(s, k, b)
               /\ UNCHANGED <<timers, disk, kept>>
          ELSE Go(s, [op[s] EXCEPT !.base = b], "rule")
  <1>1. /\ \/ /\ pref' = hw.grid /\ cached' = (cached \/ hw.tariff = "own")
              /\ Based(Read(k)) /\ UNCHANGED <<mishaps, failures>>
           \/ Based(Blank) /\ Chance({"unread"}) /\ UNCHANGED <<known, failures>>
           \/ /\ sess' = [sess EXCEPT ![k].active = FALSE]
              /\ Leave(s, disk, timers) /\ UNCHANGED <<known, mishaps, kept>>
        /\ hw' = hw /\ own' = own
        /\ op[s].at = "baseline"
    BY DEF BaselineAnswer
  <1>2. Types /\ Shape /\ Flags /\ op[s].kind \in Kinds /\ op[s] \in Handlers
    BY <1>1, LooksAre DEF Inv, Types, HandlerTypes
  <1>3. Fresh(s) /\ Forcing(s)
    BY <1>1, <1>2, FreshForces DEF Fresh
  <1>4. Read(k) \in Settings /\ Blank \in Settings
    BY <1>2, ReadTyped, Blanks DEF Types
  <1>5. ASSUME Lane, Good
        PROVE  /\ \A f \in {"mode", "reserve", "grid"} : Read(k)[f] \in Usual[f]
               /\ Read(k).rule \in Users("rule") /\ (k = "discharge" => Read(k).rule \in Usual.rule)
               /\ hw.rule \in Usual.rule /\ hw.tariff = "own" /\ hw.grid \in Users("grid")
    <2>1. Covered /\ Before
      BY <1>3, <1>5 DEF Good, Before
    <2>2. hw.tariff = "own" /\ \A f \in Fields : hw[f] \in Usual[f]
      BY <2>1 DEF Covered
    <2> HIDE DEF k
    <2> QED
      BY <1>2, <2>1, <2>2, ReadIsUsers DEF Fields, Users
  <1>6. k = "charge" => Read(k).rule = "none" /\ Blank.rule = "none"
    BY DEF Read, Blank
  <1>7. CASE pref' = hw.grid /\ cached' = (cached \/ hw.tariff = "own")
             /\ Based(Read(k)) /\ UNCHANGED mishaps
    <2>1. CASE k = "charge"
      <3>1. Only(s) /\ disk' = disk /\ Sames(op'[s], op[s]) /\ op'[s].at = "mode"
        <4> DEFINE p == [op[s] EXCEPT !.at = "mode"]
        <4>1. op' = [op EXCEPT ![s] = p] /\ disk' = disk
          BY <1>7, <2>1
        <4>2. Sames(p, op[s]) /\ p.at = "mode"
          BY <1>2 DEF Handlers, Sames
        <4> HIDE DEF p
        <4> QED
          BY <1>2, <4>1, <4>2 DEF Only, Types, HandlerTypes
      <3>2. sess' = Save(s, op[s].kind, Read(k))
        BY <1>7, <2>1
      <3>3. Lane /\ Good => cached' /\ pref' \in Users("grid")
        BY <1>5, <1>7
      <3>4. Lane /\ Good => hw'.rule = hw.rule /\ hw.rule \in Usual.rule
        BY <1>1, <1>5
      <3> HIDE DEF Based
      <3> QED
        BY <1>1, <1>3, <1>4, <1>5, <1>6, <1>7, <3>1, <3>2, <3>3, <3>4, SavesInv
    <2>2. CASE k # "charge"
      <3>1. k = "discharge" /\ Go(s, [op[s] EXCEPT !.base = Read(k)], "rule")
        BY <1>2, <1>7, <2>2 DEF Kinds
      <3>2. Lane /\ Good => \A f \in Fields : Read(k)[f] \in Usual[f]
        BY <1>5, <3>1 DEF Fields
      <3>3. Lane /\ Good => cached' /\ pref' \in Users("grid")
        BY <1>5, <1>7
      <3> HIDE DEF Based
      <3> QED
        BY <1>1, <1>4, <1>7, <3>1, <3>2, <3>3, ReadsInv
    <2> QED
      BY <2>1, <2>2
  <1>8. CASE Based(Blank) /\ Chance({"unread"})
    <2>0. mishaps \subseteq mishaps' /\ ~Plain'
      BY <1>8 DEF Chance, Mishap, Plain, Never
    <2>1. CASE k = "charge"
      <3>1. Only(s) /\ disk' = disk /\ Sames(op'[s], op[s]) /\ op'[s].at = "mode"
        <4> DEFINE p == [op[s] EXCEPT !.at = "mode"]
        <4>1. op' = [op EXCEPT ![s] = p] /\ disk' = disk
          BY <1>8, <2>1
        <4>2. Sames(p, op[s]) /\ p.at = "mode"
          BY <1>2 DEF Handlers, Sames
        <4> HIDE DEF p
        <4> QED
          BY <1>2, <4>1, <4>2 DEF Only, Types, HandlerTypes
      <3>2. sess' = Save(s, op[s].kind, Blank)
        BY <1>8, <2>1
      <3> HIDE DEF Based
      <3> QED
        BY <1>1, <1>3, <1>4, <1>6, <2>0, <3>1, <3>2, SavesInv
    <2>2. CASE k # "charge"
      <3>1. k = "discharge" /\ Go(s, [op[s] EXCEPT !.base = Blank], "rule")
        BY <1>2, <1>8, <2>2 DEF Kinds
      <3> HIDE DEF Based
      <3> QED
        BY <1>1, <1>4, <2>0, <3>1, ReadsInv
    <2> QED
      BY <2>1, <2>2
  <1>9. CASE sess' = [sess EXCEPT ![k].active = FALSE] /\ Leave(s, disk, timers)
             /\ UNCHANGED <<known, mishaps>>
    BY <1>1, <1>9, LapsesInv
  <1> QED
    BY <1>1, <1>7, <1>8, <1>9

-----------------------------------------------------------------------------
(* A command begins                                                        *)

\* A handler that neither forces nor restores.
LEMMA BystanderInv ==
  ASSUME Inv, Types', NEW s \in Slots, ~Forcing(s), ~Restoring(s),
         op[s].kind # "free" \/ HasSlot, Only(s), (~Forcing(s) /\ ~Restoring(s))',
         op'[s].kind # "startup", ~op'[s].cur, op'[s].at # "pulsing", op'[s].after = "",
         Unmarked(op[s])', sess' = sess, disk' = disk, UNCHANGED known,
         UsersStay, mishaps \subseteq mishaps',
         Lane /\ Good => Backs(s)
  PROVE  Inv'
  <1>1. Types /\ Shape /\ Flags
    BY DEF Inv
  <1>2. Shape'
    BY <1>1, ShapeOnly
  <1>3. Flags'
    <2>1. own'.reserve = own.reserve \/ ~Never({"reserve"})'
      BY DEF UsersStay, Never
    <2> QED
      BY <1>1, <2>1, FlagsOnly, StillUnflagged
  <1>4. Alike(sess', sess)
    BY DEF Alike
  <1>5. ~Fresh(s)'
    <2>1. op'[s].at = "baseline" => op'[s].kind \in Kinds
      BY LooksAre DEF Types, HandlerTypes, Placed, Handlers, Kinds
    <2> QED
      BY <2>1 DEF Fresh, Forcing, Kinds
  <1>6. Lane => Lane'
    <2>1. Lane => (disk'.rec.kind = "charge" => disk'.rec.saved.rule = "none")
      BY DEF Lane, OneSession
    <2> QED
      BY <1>1, <1>4, <1>5, <2>1, LaneOnly
  <1>7. Plain' /\ Lane /\ Good => Good'
    <2>1. SUFFICES ASSUME Plain', Lane, Good PROVE Good'
      OBVIOUS
    <2>2. RecordIsUsers'
      BY <1>1, <2>1, SavedStays DEF Good
    <2> QED
      BY <1>1, <1>4, <1>5, <2>1, <2>2, GoodBacks
  <1> QED
    BY <1>2, <1>3, <1>6, <1>7, InvStep

\* Whose command has begun, and who waits for it.
LEMMA BeginNames ==
  ASSUME Types, NEW s \in Slots, NEW k \in Kinds, NEW source, NEW after,
         Begin(s, k, source, after)
  PROVE  op'[s].source = source /\ op'[s].after = after /\ sess'[k].source = source
  <1> DEFINE o == [Free EXCEPT !.kind = k, !.cur = TRUE, !.res = TRUE, !.source = source,
                     !.goal = ForceGoal(k), !.after = after, !.at = First(k)]
  <1>1. /\ op' = [Superseded EXCEPT ![s] = o]
        /\ sess' = [Inherited(k) EXCEPT ![k].active = TRUE, ![k].source = source,
                      ![k].skip = FALSE]
    BY DEF Begin
  <1>2. o.source = source /\ o.after = after
    BY DEF Free
  <1> HIDE DEF o
  <1>3. op'[s] = o
    BY <1>1, SupersededTyped DEF Types
  <1>4. Inherited(k) \in [Kinds -> Sessions] /\ Inherited(k)[k] \in Sessions
    BY InheritedTyped DEF Types
  <1>5. sess'[k].source = source
    BY <1>1, <1>4 DEF Sessions
  <1> QED
    BY <1>2, <1>3, <1>5

\* A force command takes the session.
LEMMA BeginInv ==
  ASSUME Inv, Types', NEW s \in Slots, NEW k \in Kinds, NEW source, NEW after,
         Begin(s, k, source, after), op'[s].after # "drop",
         ~Forcing(s), ~Restoring(s), op[s].kind # "free" \/ HasSlot,
         hw' = hw, own' = own, cached' = cached,
         Plain' /\ Lane /\ Good => pref' \in Users("grid")
  PROVE  Inv'
  <1> DEFINE ms == If(sess[Other(k)].active, "switched")
                     \cup If(source = "optimizer", "optimizer")
                     \cup If(op[s].at = "look" /\ Active(sess) # {}, "looked_late")
  <1>1. Types /\ Shape /\ Flags
    BY DEF Inv
  <1>2. Mishap(Overlaps(s) \cup ms)
    BY DEF Begin, Mishap
  <1>3. /\ mishaps \subseteq mishaps' /\ (source = "optimizer" => "optimizer" \in mishaps')
        /\ sess[Other(k)].active => "switched" \in mishaps'
    BY <1>2 DEF Mishap, If
  <1> HIDE DEF ms
  <1>4. Never({"overlap"})' => Supersedes(s)
    BY <1>1, <1>2, OverlapsAre DEF Supersedes
  <1>5. /\ op'[s].source = source /\ op'[s].after = after /\ sess'[k].source = source
        /\ Newest(s) /\ disk' = disk
        /\ op'[s].kind = k /\ op'[s].cur /\ op'[s].res
        /\ ~op'[s].skip /\ ~op'[s].opt /\ op'[s].at = First(k)
        /\ ~sess'[k].skip
        /\ sess'[Other(k)].source = sess[Other(k)].source
        /\ sess'[Other(k)].skip = sess[Other(k)].skip
    <2>1. Types
      BY <1>1
    <2>2. /\ Newest(s) /\ disk' = disk
          /\ op'[s].kind = k /\ op'[s].cur /\ op'[s].res
          /\ ~op'[s].skip /\ ~op'[s].opt /\ op'[s].at = First(k)
          /\ ~sess'[k].skip
      BY <2>1, BeginIs, ZenonT(60)
    <2>3. /\ sess'[Other(k)].source = sess[Other(k)].source
          /\ sess'[Other(k)].skip = sess[Other(k)].skip
      BY <2>1, BeginIs, ZenonT(60)
    <2> QED
      BY <2>1, <2>2, <2>3, BeginNames
  <1>6. Other(k) \in Kinds /\ \A j \in Kinds : j = k \/ j = Other(k)
    BY DEF Other, Kinds
  <1>7. First(k) \in {"baseline", "mode", "grid"}
    BY FirstPlaced
  <1>8. Shape'
    <2>1. Forcing(s)' /\ op'[s].kind # "startup" /\ op'[s].at # "pulsing" /\ op'[s].after # "drop"
      BY <1>5, <1>7 DEF Forcing, Kinds
    <2> QED
      BY <1>1, <1>5, <2>1, ShapeNewest
  <1>9. Flags'
    <2>1. Unmarked(op[s])'
      <3>1. op'[s].source = "optimizer" => "optimizer" \in mishaps'
        BY <1>3, <1>5
      <3>2. op'[s].source \in {"user", "optimizer"}
        BY HandlersAre DEF Types, HandlerTypes
      <3> QED
        BY <1>5, <3>1, <3>2 DEF Unmarked, SpareNone, UsersOwn, Kinds, Never
    <2>2. Unflagged(sess, disk)'
      <3>1. Never({"reserve"})' => Never({"reserve"})
        BY <1>3 DEF Never
      <3>2. Never({"optimizer"})' => Never({"optimizer"}) /\ sess'[k].source = "user"
        <4>1. sess'[k].source \in {"user", "optimizer"}
          BY DEF Types, SessionTypes, Sessions
        <4>2. sess'[k].source = "optimizer" => "optimizer" \in mishaps'
          BY <1>3, <1>5
        <4> QED
          BY <1>3, <4>1, <4>2 DEF Never
      <3> QED
        BY <1>1, <1>5, <1>6, <3>1, <3>2 DEF Flags, Unflagged
    <2> QED
      BY <1>1, <1>3, <1>5, <2>1, <2>2, FlagsOnly
  <1>10. Never({"overlap"})' /\ Lane => Lane'
    BY <1>1, <1>3, <1>4, LaneBegins
  <1>11. Plain' /\ Lane /\ Good => Good'
    <2>1. Plain' => Never({"overlap"})'
      BY DEF Plain, Never
    <2> QED
      BY <1>1, <1>3, <1>4, <2>1, GoodBegins
  <1> QED
    BY <1>3, <1>8, <1>9, <1>10, <1>11, InvStep

\* A handler that leaves ends, if the start-up code does not wait for it.
LEMMA LeavesInv ==
  ASSUME Inv, Types', NEW s \in Slots, ~Forcing(s), ~Restoring(s), op[s].kind # "free", End(s),
         UNCHANGED known, UsersStay, mishaps \subseteq mishaps', Lane /\ Good => Backs(s)
  PROVE  Inv'
  <1>1. Types /\ Shape
    BY DEF Inv
  <1>2. op[s].after = ""
    BY <1>1 DEF Shape, Afters
  <1>3. op' = [op EXCEPT ![s] = Free] /\ sess' = sess /\ disk' = disk
    BY <1>2 DEF End, Leave
  <1>4. Only(s) /\ op'[s] = Free
    BY <1>1, <1>3 DEF Only, Types, HandlerTypes
  <1>5. op'[s].kind = "free" /\ op'[s].at = "" /\ op'[s].after = "" /\ ~op'[s].cur
    BY <1>4, FreeIs
  <1>6. ~Forcing(s)' /\ ~Restoring(s)'
    BY <1>5 DEF Forcing, Restoring, Kinds
  <1>7. Unmarked(op[s])'
    BY <1>4, FreeIs DEF Unmarked, SpareNone, UsersOwn
  <1> QED
    BY <1>3, <1>4, <1>5, <1>6, <1>7, BystanderInv

LEMMA LookAnswerInv ==
  ASSUME Inv, Types', NEW s \in Slots, LookAnswer(s)
  PROVE  Inv'
  <1>1. Types /\ Shape /\ Flags /\ op[s] \in Handlers
    BY DEF Inv, Types, HandlerTypes
  <1>2. op[s].at = "look" /\ hw' = hw /\ own' = own /\ cached' = cached
    BY DEF LookAnswer
  <1>3. op[s].kind \in Kinds /\ op[s].source \in {"user", "optimizer"}
    BY <1>1, <1>2, LooksAre, HandlersAre
  <1>4. ~Forcing(s) /\ ~Restoring(s) /\ op[s].kind # "free"
    BY <1>2, <1>3 DEF Forcing, Restoring, Kinds
  <1>5. CASE pref' = hw.grid /\ Begin(s, op[s].kind, op[s].source, "")
    <2>1. Plain' => Active(sess) = {}
      <3>1. Active(sess) # {} => "looked_late" \in mishaps'
        BY <1>2, <1>5 DEF Begin, Mishap, If
      <3> QED
        BY <3>1 DEF Plain, Never
    <2>2. Plain' /\ Lane /\ Good => pref' \in Users("grid")
      BY <1>5, <2>1 DEF Good, Covered, Before, Fields, Users
    <2>3. op'[s].after # "drop"
      BY <1>1, <1>3, <1>5, BeginNames
    <2> QED
      BY <1>2, <1>3, <1>4, <1>5, <2>2, <2>3, BeginInv
  <1>6. CASE pref' = pref /\ End(s) /\ UNCHANGED mishaps
    <2>1. Backs(s) /\ UsersStay
      BY <1>2 DEF Backs, UsersStay
    <2> QED
      BY <1>2, <1>4, <1>6, <2>1, LeavesInv DEF known
  <1> QED
    BY <1>5, <1>6 DEF LookAnswer

LEMMA ForceCommandInv ==
  ASSUME Inv, Types', NEW k \in Kinds, NEW source \in Sources, ForceCommand(k, source)
  PROVE  Inv'
  <1>1. Types /\ Shape /\ HasSlot /\ UNCHANGED <<hw, own, known>> /\ source \in {"user", "optimizer"}
    BY ParametersAreKnown DEF Inv, ForceCommand
  <1>2. PICK s \in Slots : s = Slot /\ op[s].kind = "free"
    BY <1>1, SlotIsFree
  <1>3. op[s].at = "" /\ ~Forcing(s) /\ ~Restoring(s)
    BY <1>1, <1>2 DEF Types, HandlerTypes, Placed, Forcing, Restoring, Kinds
  <1>4. CASE Begin(s, k, source, "")
    <2>1. Good => pref' \in Users("grid")
      BY <1>1 DEF Good, Kept, known
    <2>2. op'[s].after # "drop"
      BY <1>1, <1>4, BeginNames
    <2> QED
      BY <1>1, <1>3, <1>4, <2>1, <2>2, BeginInv DEF known
  <1>5. CASE /\ Go(s, [Free EXCEPT !.kind = k, !.source = source], "look")
             /\ Mishap(If(source = "optimizer", "optimizer"))
    <2> DEFINE o == [[Free EXCEPT !.kind = k, !.source = source] EXCEPT !.at = "look"]
    <2>1. /\ o.kind = k /\ o.source = source /\ o.at = "look" /\ ~o.cur /\ o.after = ""
          /\ ~o.skip /\ ~o.opt
      BY DEF Free
    <2>2. Only(s) /\ op'[s] = o /\ sess' = sess /\ disk' = disk
      <3> DEFINE p == [Free EXCEPT !.kind = k, !.source = source]
      <3>1. Go(s, p, "look")
        BY <1>5
      <3> HIDE DEF p
      <3>2. /\ Only(s) /\ op'[s] = [p EXCEPT !.at = "look"]
            /\ sess' = sess /\ disk' = disk
        BY <1>1, <3>1, GoIs
      <3> QED
        BY <3>2 DEF p
    <2> HIDE DEF o
    <2>3. mishaps \subseteq mishaps' /\ (source = "optimizer" => "optimizer" \in mishaps')
      BY <1>5 DEF Mishap, If
    <2>4. ~Forcing(s)' /\ ~Restoring(s)' /\ op'[s].kind # "startup"
      BY <2>1, <2>2 DEF Forcing, Restoring, Kinds
    <2>5. Unmarked(op[s])'
      BY <1>1, <2>1, <2>2, <2>3 DEF Unmarked, SpareNone, UsersOwn, Kinds, Never
    <2>6. Backs(s) /\ UsersStay
      BY <1>1 DEF Backs, UsersStay
    <2> QED
      BY <1>1, <1>3, <2>1, <2>2, <2>3, <2>4, <2>5, <2>6, BystanderInv
  <1> QED
    BY <1>2, <1>4, <1>5 DEF ForceCommand

-----------------------------------------------------------------------------
(* The user's reserve                                                      *)

LEMMA ReserveAnswerInv ==
  ASSUME Inv, Types', NEW s \in Slots, ReserveAnswer(s)
  PROVE  Inv'
  <1>1. Types /\ Shape /\ Flags /\ op[s].kind = "reserve" /\ Placed(op[s])
    BY DEF Inv, ReserveAnswer, Types, HandlerTypes
  <1>2. /\ ~Forcing(s) /\ ~Restoring(s) /\ op[s].kind # "free"
        /\ op[s].at = "reserve" /\ op[s].goal.reserve = "new"
    BY <1>1 DEF Forcing, Restoring, Kinds, Placed
  <1>3. "reserve" \in mishaps
    BY <1>1 DEF Flags, Unmarked, SpareNone, Never
  <1>4. /\ hw' \in {hw, [hw EXCEPT !.reserve = "new"]} /\ mishaps \subseteq mishaps'
        /\ own' \in {own, [own EXCEPT !.reserve = "new"]} /\ End(s) /\ UNCHANGED known
    <2>1. Landed(op[s]) = [hw EXCEPT !.reserve = "new"]
      BY <1>2 DEF Landed
    <2> QED
      BY <2>1 DEF ReserveAnswer, Chance, Mishap
  <1>5. UsersStay
    BY <1>3, <1>4 DEF UsersStay
  <1>6. Usual'.reserve = Levels
    BY <1>3, <1>4 DEF Usual, Never, Levels
  <1>7. Backs(s)
    <2>1. /\ hw'.tariff = hw.tariff /\ hw'.grid = hw.grid /\ hw'.rule = hw.rule
          /\ hw'.mode = hw.mode /\ hw'.reserve \in {hw.reserve, "new"}
      BY <1>1, <1>4 DEF Types, GatewayTypes, Gateway
    <2> QED
      BY <1>6, <2>1 DEF Backs, Levels
  <1> QED
    BY <1>2, <1>4, <1>5, <1>7, LeavesInv

\* Handlers that differ in whether their reserve stands.
Spared(t) ==
  /\ op'[t].kind = op[t].kind /\ op'[t].at = op[t].at /\ op'[t].cur = op[t].cur
  /\ op'[t].after = op[t].after /\ op'[t].was = op[t].was /\ op'[t].goal = op[t].goal
  /\ op'[t].base = op[t].base /\ op'[t].failed = op[t].failed
  /\ op'[t].source = op[t].source /\ op'[t].opt = op[t].opt

LEMMA SetReserveIs ==
  ASSUME Types, SetReserve
  PROVE  /\ UNCHANGED <<hw, own, sess, disk, known>>
         /\ mishaps' = mishaps \cup {"reserve"}
         /\ \E s \in Slots :
              /\ op[s].kind = "free" /\ op[s].at = "" /\ op'[s].kind = "reserve"
              /\ op'[s].at = "reserve" /\ ~op'[s].cur /\ op'[s].after = ""
              /\ op'[s].source = "user" /\ ~op'[s].opt
              /\ \A t \in Slots \ {s} : Spared(t) /\ op[t].kind # "startup"
  <1>1. HasSlot
    BY DEF SetReserve
  <1>2. PICK s \in Slots : s = Slot /\ op[s].kind = "free"
    BY <1>1, SlotIsFree
  <1> DEFINE o == [Free EXCEPT !.kind = "reserve", !.at = "reserve",
                     !.goal = [Blank EXCEPT !.reserve = "new"]]
  <1>3. /\ o.kind = "reserve" /\ o.at = "reserve" /\ ~o.cur /\ o.after = ""
        /\ o.source = "user" /\ ~o.opt
    BY DEF Free
  <1> HIDE DEF o
  <1>4. op' = [[t \in Slots |-> [op[t] EXCEPT !.res = FALSE]] EXCEPT ![s] = o]
    BY <1>2 DEF SetReserve, o
  <1>5. op'[s] = o
    BY <1>4
  <1>6. ASSUME NEW t \in Slots \ {s} PROVE Spared(t)
    <2>1. op'[t] = [op[t] EXCEPT !.res = FALSE]
      BY <1>4
    <2> QED
      BY <2>1 DEF Types, HandlerTypes, Handlers, Spared
  <1>7. op[s].at = ""
    BY <1>2 DEF Types, HandlerTypes, Placed
  <1> QED
    BY <1>1, <1>2, <1>3, <1>5, <1>6, <1>7 DEF SetReserve, Mishap, HasSlot

LEMMA SetReserveInv ==
  ASSUME Inv, Types', SetReserve
  PROVE  Inv'
  <1>1. Types /\ Shape /\ Flags
    BY DEF Inv
  <1>2. UNCHANGED <<hw, own, sess, disk, known>> /\ mishaps' = mishaps \cup {"reserve"}
    BY <1>1, SetReserveIs
  <1>3. PICK s \in Slots :
              /\ op[s].kind = "free" /\ op[s].at = "" /\ op'[s].kind = "reserve"
              /\ op'[s].at = "reserve" /\ ~op'[s].cur /\ op'[s].after = ""
              /\ op'[s].source = "user" /\ ~op'[s].opt
              /\ \A t \in Slots \ {s} : Spared(t) /\ op[t].kind # "startup"
    BY <1>1, SetReserveIs
  <1>4. \A t \in Slots : Spared(t) \/ (~Forcing(t) /\ ~Fresh(t) /\ ~Restoring(t))
    BY <1>3 DEF Forcing, Fresh, Restoring, Kinds
  <1>5. \A t \in Slots :
          /\ Forcing(t)' <=> Forcing(t)
          /\ Fresh(t)' <=> Fresh(t)
          /\ Restoring(t)' <=> Restoring(t)
    <2>1. ~Forcing(s) /\ ~Fresh(s) /\ ~Restoring(s) /\ ~Forcing(s)' /\ ~Fresh(s)' /\ ~Restoring(s)'
      BY <1>3 DEF Forcing, Fresh, Restoring, Kinds
    <2> QED
      BY <1>3, <2>1 DEF Spared, Forcing, Fresh, Restoring
  <1>6. Shape'
    <2>1. OneCurrent'
      <3>1. \A t \in Slots : op'[t].cur => op[t].cur /\ Spared(t)
        BY <1>3 DEF Spared
      <3> QED
        BY <1>1, <1>5, <3>1 DEF Shape, OneCurrent
    <2>2. OnePulse'
      <3>1. \A t \in Slots : op'[t].at = "pulsing" => op[t].at = "pulsing"
        BY <1>3 DEF Spared
      <3> QED
        BY <1>1, <3>1 DEF Shape, OnePulse
    <2>3. Afters'
      <3>1. \A t \in Slots : op'[t].after # "" => op'[t].after = op[t].after
        BY <1>3 DEF Spared
      <3> QED
        BY <1>1, <1>5, <3>1 DEF Shape, Afters
    <2>4. StartsAlone'
      <3>1. \A t \in Slots : op'[t].kind # "startup"
        BY <1>3 DEF Spared
      <3> QED
        BY <3>1 DEF StartsAlone
    <2> QED
      BY <2>1, <2>2, <2>3, <2>4 DEF Shape
  <1>7. /\ ~Never({"reserve"})' /\ mishaps \subseteq mishaps'
        /\ \A ms : "reserve" \notin ms => (Never(ms)' <=> Never(ms))
    BY <1>2 DEF Never
  <1>8. Flags'
    <2>1. Never({"optimizer"})' => Never({"optimizer"})
      BY <1>2 DEF Never
    <2>2. ASSUME NEW t \in Slots PROVE Unmarked(op[t])'
      BY <1>1, <1>3, <1>7, <2>1 DEF Flags, Unmarked, UsersOwn, Spared
    <2>3. Unflagged(sess, disk)'
      BY <1>1, <1>2, <1>7, <2>1 DEF Flags, Unflagged
    <2> QED
      BY <1>7, <2>2, <2>3 DEF Flags
  <1>9. Lane => Lane'
    <2>1. SUFFICES ASSUME Lane PROVE Lane'
      OBVIOUS
    <2>2. OneSession'
      BY <1>2, <2>1 DEF Lane, OneSession, Active
    <2>3. ASSUME NEW t \in Slots, Forcing(t) PROVE op'[t].cur /\ sess'[op'[t].kind].active
      BY <1>2, <1>4, <2>1, <2>3 DEF Lane, ForcesAlone, Spared
    <2>4. ASSUME NEW t \in Slots, Restoring(t)
          PROVE  /\ op'[t].cur => op'[t].was = Active(sess')
                 /\ op'[t].at = "handoff" => op'[t].was # {}
                 /\ ~op'[t].cur => "overtaken" \in mishaps'
      BY <1>2, <1>4, <2>1, <2>4 DEF Lane, ForcesAlone, Spared
    <2>5. ForcesAlone'
      BY <1>2, <1>5, <2>1, <2>3, <2>4 DEF ForcesAlone, Lane
    <2> QED
      BY <2>2, <2>5 DEF Lane
  <1>10. Lane /\ Good => Good'
    <2>1. SUFFICES ASSUME Lane, Good PROVE Good'
      OBVIOUS
    <2>2. /\ UsersStay /\ \A f \in Fields : Usual[f] \subseteq Usual'[f] /\ Users(f) \subseteq Users(f)'
      BY <1>1, <1>2, <1>7, UsualGrows DEF UsersStay
    <2>3. Kept'
      <3>1. SavedIsUsers(sess)' /\ RecordIsUsers'
        BY <1>1, <1>2, <1>7, <2>1, <2>2, SavedStays DEF Good, Alike
      <3>2. pref' \in Users("grid")'
        BY <1>2, <2>1, <2>2 DEF Good, Kept, Fields, known
      <3>3. ASSUME NEW t \in Slots PROVE HasUsers(t)'
        <4>1. HasUsers(t)
          BY <2>1, KeptParts DEF Good
        <4> QED
          BY <1>2, <1>4, <1>5, <2>2, <4>1 DEF HasUsers, Spared, known
      <3> QED
        BY <3>1, <3>2, <3>3 DEF Kept, SavedIsUsers, RecordIsUsers, HasUsers
    <2>4. Before' <=> Before
      BY <1>2, <1>5 DEF Before, Active
    <2>5. Covered'
      <3>1. \A t \in Slots : (Restoring(t) /\ op[t].at = "pulsing")'
                               => Restoring(t) /\ op[t].at = "pulsing"
        BY <1>4, <1>5 DEF Spared
      <3>2. Alike(sess', sess) /\ cached' = cached
        BY <1>2 DEF Alike, known
      <3> QED
        BY <1>1, <1>2, <1>7, <2>1, <2>2, <2>4, <3>1, <3>2, CoveredStays DEF Good
    <2>6. ASSUME NEW t \in Slots, Restoring(t)', op'[t].cur PROVE Restored(op[t])'
      <3>1. Restoring(t) /\ Spared(t)
        BY <1>4, <1>5, <2>6
      <3>2. Restored(op[t])
        BY <2>1, <2>6, <3>1 DEF Good, Progress, Spared
      <3>3. Never({"low_soc"})' => Never({"low_soc"})
        BY <1>7
      <3> QED
        BY <1>2, <1>7, <2>2, <3>1, <3>2, <3>3 DEF Restored, Spared, Fields
    <2>7. Recording'
      <3>1. Never({"overtaken", "switched"})' <=> Never({"overtaken", "switched"})
        BY <1>7
      <3> QED
        BY <1>2, <1>5, <1>7, <2>1, <2>4, <3>1 DEF Good, Recording, RecordIs, Active
    <2> QED
      BY <2>3, <2>5, <2>6, <2>7 DEF Good, Progress
  <1> QED
    BY <1>6, <1>7, <1>8, <1>9, <1>10, InvStep

-----------------------------------------------------------------------------
(* Restores, timers and the start-up code                                  *)

\* Nothing that matters has changed.
LEMMA SameInv ==
  ASSUME Inv, Types', UNCHANGED <<hw, own, sess, disk, known, op, mishaps>>
  PROVE  Inv'
  <1>1. UNCHANGED <<hw, own, sess, disk, pref, cached, op, mishaps>>
    BY DEF known
  <1>2. Shape' <=> Shape
    <2>1. OneCurrent' <=> OneCurrent
      BY <1>1 DEF OneCurrent, Forcing, Restoring
    <2>2. OnePulse' <=> OnePulse
      BY <1>1 DEF OnePulse
    <2>3. Afters' <=> Afters
      BY <1>1 DEF Afters, Forcing, Restoring
    <2>4. Reloaded' = Reloaded
      BY <1>1 DEF Reloaded
    <2>5. StartsAlone' <=> StartsAlone
      BY <1>1, <2>4 DEF StartsAlone, Never
    <2> QED
      BY <2>1, <2>2, <2>3, <2>5 DEF Shape
  <1>3. Flags' <=> Flags
    BY <1>1 DEF Flags, Unflagged, Unmarked, SpareNone, UsersOwn, Never
  <1>4. Before' = Before /\ Usual' = Usual /\ \A t \in Slots : Fresh(t)' = Fresh(t)
    BY <1>1 DEF Before, Fresh, Active, Usual, Never
  <1>5. Lane' <=> Lane
    BY <1>1, <1>4 DEF Lane, ForcesAlone, OneSession, Forcing, Restoring, Active
  <1>6. Kept' <=> Kept
    BY <1>1, <1>4 DEF Kept, Users, Forcing, Restoring
  <1>7. Covered' <=> Covered
    BY <1>1, <1>4 DEF Covered, Saves, RuleKnown, Restoring, Never
  <1>8. Progress' <=> Progress
    BY <1>1, <1>4 DEF Progress, Restored, Restoring, Never
  <1>9. Recording' <=> Recording
    BY <1>1, <1>4 DEF Recording, RecordIs, Forcing, Active, Never
  <1>10. (Plain' <=> Plain) /\ (Never({"overlap"})' <=> Never({"overlap"}))
    BY <1>1 DEF Plain, Never
  <1> QED
    BY <1>2, <1>3, <1>5, <1>6, <1>7, <1>8, <1>9, <1>10 DEF Inv, Good

\* A restore begins in a slot that neither forces nor restores.
LEMMA StartInv ==
  ASSUME Inv, Types', NEW s \in Slots, ~Forcing(s), ~Restoring(s),
         op[s].kind # "free" \/ HasSlot, NEW source, NEW retry, NEW after, NEW keep,
         StartRestore(s, source, retry, after, keep, sess),
         disk' = disk, hw' = hw, own' = own, UNCHANGED known, mishaps \subseteq mishaps',
         Never({"overlap"})' => Supersedes(s),
         keep => ~Never({"reserve"}), source = "optimizer" => ~Never({"optimizer"}),
         Plain' /\ Lane /\ Good /\ Active(sess) = {} => "idle" \in mishaps'
  PROVE  Inv'
  <1>1. Types /\ Shape /\ Flags /\ sess \in [Kinds -> Sessions]
    BY DEF Inv, Types, SessionTypes
  <1>2. sess' = sess /\ Alike(sess, sess)
    BY DEF StartRestore, Alike
  <1>3. Shape'
    BY <1>1, ShapeStarts
  <1>4. /\ ~Never({"reserve"}) => ~Never({"reserve"})'
        /\ ~Never({"optimizer"}) => ~Never({"optimizer"})'
    BY DEF Never
  <1>5. Flags'
    BY <1>1, <1>2, <1>4, FlagsStart, StillUnflagged
  <1>6. Never({"overlap"})' /\ Lane => Lane'
    <2>1. Lane => (disk'.rec.kind = "charge" => disk'.rec.saved.rule = "none")
      BY DEF Lane, OneSession
    <2> QED
      BY <1>1, <1>2, <2>1, LaneStarts
  <1>7. Plain' /\ Lane /\ Good => Good'
    <2>1. Plain' => Never({"overlap"})'
      BY DEF Plain, Never
    <2>2. ~Fresh(s)
      BY <1>1, FreshForces
    <2>3. source = "optimizer" \/ (\E k \in Kinds : sess[k].source = "optimizer")
            => "optimizer" \in mishaps'
      BY <1>1, <1>4 DEF Flags, Unflagged, Never
    <2> QED
      BY <1>1, <1>2, <2>1, <2>2, <2>3, GoodStarts
  <1> QED
    BY <1>3, <1>5, <1>6, <1>7, InvStep

LEMMA FreeSlot ==
  ASSUME Types, HasSlot
  PROVE  \E s \in Slots : s = Slot /\ op[s].kind = "free" /\ ~Forcing(s) /\ ~Restoring(s)
  BY SlotIsFree DEF Forcing, Restoring, Kinds

LEMMA RestoreInv ==
  ASSUME Inv, Types', Restore
  PROVE  Inv'
  <1>1. Types /\ HasSlot /\ UNCHANGED <<hw, own, disk, known>>
    BY DEF Inv, Restore
  <1>2. PICK s \in Slots : s = Slot /\ op[s].kind = "free" /\ ~Forcing(s) /\ ~Restoring(s)
    BY <1>1, FreeSlot
  <1> DEFINE ms == If(Active(sess) = {}, "idle")
  <1>3. StartRestore(s, "user", 0, "", FALSE, sess) /\ Mishap(Overlaps(s) \cup ms)
    BY <1>2 DEF Restore, Chance
  <1>4. mishaps \subseteq mishaps' /\ (Active(sess) = {} => "idle" \in mishaps')
    BY <1>3 DEF Mishap, If
  <1> HIDE DEF ms
  <1>5. Never({"overlap"})' => Supersedes(s)
    BY <1>1, <1>3, OverlapsAre DEF Supersedes
  <1> QED
    BY <1>1, <1>2, <1>3, <1>4, <1>5, StartInv

LEMMA FireInv ==
  ASSUME Inv, Types', NEW t \in Kinds \X (0..MaxRetries), Fire(t)
  PROVE  Inv'
  <1>1. Types /\ HasSlot /\ UNCHANGED <<hw, own, disk, known>>
    BY DEF Inv, Fire
  <1>2. PICK s \in Slots : s = Slot /\ op[s].kind = "free" /\ ~Forcing(s) /\ ~Restoring(s)
    BY <1>1, FreeSlot
  <1>3. CASE IF t[2] = 0 THEN sess[t[1]].active ELSE Active(sess) # {}
    <2>1. Active(sess) # {}
      BY <1>3 DEF Active
    <2>2. StartRestore(s, "user", t[2], "", FALSE, sess) /\ Mishap(Overlaps(s))
      BY <1>2, <1>3 DEF Fire, Chance
    <2>3. Mishap(Overlaps(s) \cup {}) /\ mishaps \subseteq mishaps'
      BY <2>2 DEF Mishap
    <2>4. Never({"overlap"})' => Supersedes(s)
      BY <1>1, <2>3, OverlapsAre DEF Supersedes
    <2> QED
      BY <1>1, <1>2, <2>1, <2>2, <2>3, <2>4, StartInv
  <1>4. CASE ~(IF t[2] = 0 THEN sess[t[1]].active ELSE Active(sess) # {})
    BY <1>1, <1>4, SameInv DEF Fire
  <1> QED
    BY <1>3, <1>4

\* The start-up code finds the session of the record, or none.
LEMMA ReloadedIs ==
  /\ disk.rec.kind = "none" => Active(Reloaded) = {}
  /\ disk.rec.kind \in Kinds => Active(Reloaded) = {disk.rec.kind}
  /\ \A k \in Kinds : /\ Reloaded[k].skip = disk.rec.skip
                      /\ Reloaded[k].source \in {disk.rec.source, "user"}
  BY DEF Active, Reloaded, NoSession, Kinds

LEMMA StartupInv ==
  ASSUME Inv, Types', NEW s \in Slots, Startup(s)
  PROVE  Inv'
  <1>1. Types /\ Shape /\ Flags /\ op[s].kind = "startup" /\ UNCHANGED <<hw, own, known>>
    BY DEF Inv, Startup
  <1>2. ~Forcing(s) /\ ~Restoring(s) /\ op[s].kind # "free"
    BY <1>1 DEF Forcing, Restoring, Kinds
  <1>3. /\ \A t \in Slots \ {s} : op[t].kind = "free"
        /\ sess = Reloaded /\ ~Never({"restarted", "crash"})
    BY <1>1 DEF Shape, StartsAlone
  <1>4. Supersedes(s)
    BY <1>3 DEF Supersedes, Forcing, Restoring, Kinds
  <1>5. disk.rec.kind \in {"none"} \cup Kinds
    BY <1>1 DEF Types, StoreTypes, Records
  <1>6. CASE disk.rec.kind = "none" /\ disk.pending = "none" /\ End(s) /\ UNCHANGED mishaps
    BY <1>1, <1>2, <1>6, LeavesInv DEF Backs, UsersStay
  <1>7. CASE /\ disk.rec.kind = "none" /\ disk.pending # "none"
             /\ StartRestore(s, "user", 0, "", disk.pending = "skip", sess)
             /\ UNCHANGED <<disk, mishaps>>
    <2>1. Active(sess) = {}
      BY <1>3, <1>7, ReloadedIs
    <2>2. Plain' /\ Good => "idle" \in mishaps'
      <3>1. Plain' => Never({"overtaken", "switched"})
        BY <1>3, <1>7 DEF Plain, Never
      <3> QED
        BY <1>7, <2>1, <3>1 DEF Good, Recording, Before
    <2>3. disk.pending = "skip" => ~Never({"reserve"})
      BY <1>1 DEF Flags, Unflagged
    <2> QED
      BY <1>1, <1>2, <1>4, <1>7, <2>2, <2>3, StartInv
  <1>8. CASE /\ disk.rec.kind # "none"
             /\ StartRestore(s, disk.rec.source, 0, "drop", FALSE, sess)
             /\ UNCHANGED <<disk, mishaps>>
    <2>1. Active(sess) # {}
      BY <1>3, <1>5, <1>8, ReloadedIs
    <2>2. disk.rec.source = "optimizer" => ~Never({"optimizer"})
      BY <1>1 DEF Flags, Unflagged
    <2> QED
      BY <1>1, <1>2, <1>4, <1>8, <2>1, <2>2, StartInv
  <1>9. CASE disk.rec.kind # "none" /\ Begin(s, disk.rec.kind, "user", disk.rec.kind)
    <2> DEFINE k == disk.rec.kind
    <2>1. k \in Kinds /\ Begin(s, k, "user", k)
      BY <1>5, <1>9
    <2> HIDE DEF k
    <2>2. op'[s].after # "drop"
      BY <1>1, <2>1, BeginNames DEF Kinds
    <2>3. Good => pref' \in Users("grid")
      BY <1>1 DEF Good, Kept, known
    <2> QED
      BY <1>1, <1>2, <2>1, <2>2, <2>3, BeginInv DEF known
  <1> QED
    BY <1>6, <1>7, <1>8, <1>9 DEF Startup

LEMMA RestartInv ==
  ASSUME Inv, Types', Restart
  PROVE  Inv'
  <1>1. Types /\ Shape /\ Flags
    BY DEF Inv
  <1>2. /\ sess' = Reloaded /\ disk' = disk /\ own' = own
        /\ op' = [t \in Slots |-> IF t = AnySlot THEN [Free EXCEPT !.kind = "startup"]
                                                  ELSE Free]
        /\ Mishap({IF Idle THEN "restarted" ELSE "crash"})
    BY DEF Restart, Chance
  <1>3. mishaps \subseteq mishaps' /\ ~Never({"restarted", "crash"})'
    BY <1>2 DEF Mishap, Never
  <1>4. \A t \in Slots :
          /\ op'[t].kind = IF t = AnySlot THEN "startup" ELSE "free"
          /\ op'[t].at = "" /\ ~op'[t].cur /\ op'[t].after = ""
          /\ op'[t].source = "user" /\ ~op'[t].skip /\ ~op'[t].opt
    <2>1. LET p == [Free EXCEPT !.kind = "startup"] IN
          /\ p.kind = "startup" /\ p.at = "" /\ ~p.cur /\ p.after = ""
          /\ p.source = "user" /\ ~p.skip /\ ~p.opt
      BY DEF Free
    <2> QED
      BY <1>2, <2>1, FreeIs
  <1>5. Shape'
    <2>1. \A t \in Slots : ~Forcing(t)' /\ ~Restoring(t)'
      BY <1>4 DEF Forcing, Restoring, Kinds
    <2>2. OneCurrent' /\ OnePulse' /\ Afters'
      BY <1>4, <2>1 DEF OneCurrent, OnePulse, Afters
    <2>3. Reloaded' = Reloaded
      BY <1>2 DEF Reloaded
    <2>4. StartsAlone'
      BY <1>2, <1>3, <1>4, <2>3 DEF StartsAlone
    <2> QED
      BY <2>2, <2>4 DEF Shape
  <1>6. Flags'
    <2>1. Never({"reserve"})' => Never({"reserve"})
      BY <1>3 DEF Never
    <2>2. Never({"optimizer"})' => Never({"optimizer"})
      BY <1>3 DEF Never
    <2>3. Unflagged(sess, disk)'
      BY <1>1, <1>2, <2>1, <2>2, ReloadedIs DEF Flags, Unflagged
    <2>4. \A t \in Slots : Unmarked(op[t])'
      BY <1>4 DEF Unmarked, SpareNone, UsersOwn
    <2> QED
      BY <1>1, <1>2, <2>1, <2>3, <2>4 DEF Flags
  <1>7. Lane => Lane'
    BY <1>1, LaneRestarts
  <1>8. Plain' /\ Lane /\ Good => Good'
    BY <1>1, GoodRestarts
  <1> QED
    BY <1>3, <1>5, <1>6, <1>7, <1>8, InvStep

-----------------------------------------------------------------------------
(* The invariant                                                           *)

LEMMA InitInv == Init => Inv
  <1> SUFFICES ASSUME Init PROVE Inv
    OBVIOUS
  <1>1. Types
    BY InitTyped
  <1>2. /\ hw = own /\ own.tariff = "own" /\ own.reserve = "own"
        /\ pref = "none" /\ mishaps = {} /\ disk.pending = "none"
        /\ disk.rec.kind = "none" /\ disk.rec.source = "user" /\ ~disk.rec.skip
        /\ disk.rec.saved = Blank
    BY DEF Init, NoRecord
  <1>3. \A k \in Kinds : /\ ~sess[k].active /\ sess[k].source = "user" /\ ~sess[k].skip
                         /\ sess[k].saved = Blank /\ sess[k].sites = Blank
    BY DEF Init, NoSession
  <1>4. \A s \in Slots : op[s] = Free
    BY DEF Init
  <1>5. \A s \in Slots : ~Forcing(s) /\ ~Restoring(s) /\ ~Fresh(s)
    BY <1>4, FreeIs DEF Forcing, Restoring, Fresh, Kinds
  <1>6. Active(sess) = {} /\ Before
    BY <1>3 DEF Active, Before
  <1>7. Shape
    BY <1>4, FreeIs DEF Shape, OneCurrent, OnePulse, Afters, StartsAlone
  <1>8. Flags
    BY <1>2, <1>3, <1>4, FreeIs DEF Flags, Unflagged, Unmarked, SpareNone, UsersOwn
  <1>9. Blank.rule = "none" /\ \A f \in Fields : Blank[f] = "none"
    BY DEF Blank, Fields
  <1>10. Lane
    BY <1>2, <1>3, <1>5, <1>9 DEF Lane, ForcesAlone, OneSession, Kinds
  <1>11. \A f \in Fields : hw[f] \in Usual[f]
    BY <1>1, <1>2, UsualIs DEF Fields, Never
  <1>12. Kept
    BY <1>2, <1>3, <1>5, <1>9 DEF Kept, Users, Fields
  <1>13. Covered
    BY <1>2, <1>3, <1>5, <1>6, <1>9, <1>11 DEF Covered, Fields, Kinds
  <1>14. Progress /\ Recording
    BY <1>2, <1>5, <1>6 DEF Progress, Recording, RecordIs
  <1> QED
    BY <1>1, <1>7, <1>8, <1>10, <1>12, <1>13, <1>14 DEF Inv, Good

\* Every step keeps the invariant.
LEMMA NextInv == Inv /\ [Next]_vars => Inv'
  <1> SUFFICES ASSUME Inv, [Next]_vars PROVE Inv'
    OBVIOUS
  <1>1. Types'
    BY TypeStep DEF Inv
  <1>2. CASE UNCHANGED vars
    BY <1>1, <1>2, SameInv DEF vars, known
  <1>3. ASSUME NEW s \in Slots, Answered(s)
        PROVE  Inv'
    BY <1>1, <1>3, LookAnswerInv, BaselineAnswerInv, ChargeAnswerInv, DischargeAnswerInv,
       RestoreAnswerInv, RuleRaisesInv, NoteAnswerInv, PulseBeginsInv, PulseSkippedInv,
       PulseAnswerInv, ReserveAnswerInv, StartupInv DEF Answered
  <1>4. ASSUME NEW k \in Kinds, NEW source \in Sources, ForceCommand(k, source)
        PROVE  Inv'
    BY <1>1, <1>4, ForceCommandInv
  <1>5. ASSUME NEW t \in Kinds \X (0..MaxRetries), Fire(t)
        PROVE  Inv'
    BY <1>1, <1>5, FireInv
  <1>6. CASE Restore
    BY <1>1, <1>6, RestoreInv
  <1>7. CASE SetReserve
    BY <1>1, <1>7, SetReserveInv
  <1>8. CASE Restart
    BY <1>1, <1>8, RestartInv
  <1> QED
    BY <1>2, <1>3, <1>4, <1>5, <1>6, <1>7, <1>8 DEF Next

LEMMA Invariant == Spec => []Inv
  BY InitInv, NextInv, PTL DEF Spec

-----------------------------------------------------------------------------
(* What the invariant gives                                                *)

LEMMA FieldsOfUsual ==
  ASSUME Types
  PROVE  DOMAIN Usual = Fields
  BY DEF Usual, Fields

\* What a session has saved is what the user had set.
THEOREM BaselineCorrect == Spec => []BaselineIsUsers
  <1>1. Inv => BaselineIsUsers
    BY FieldsOfUsual DEF Inv, BaselineIsUsers, Good, Kept, Users
  <1> QED
    BY <1>1, Invariant, PTL

\* When no session is left, the gateway is what the user has set.
THEOREM RestoreCorrect == Spec => []NormalAgain
  <1>1. Inv => NormalAgain
    BY FieldsOfUsual DEF Inv, NormalAgain, Rest, Good, Covered, Before
  <1> QED
    BY <1>1, Invariant, PTL

-----------------------------------------------------------------------------
(* The end of a superseded restore                                         *)

\* A step of the handler in s leaves the others where they are.
LEMMA OthersStay ==
  ASSUME Types, NEW s \in Slots, NEW o,
         op' = [op EXCEPT ![s] = o] \/ op' = [Superseded EXCEPT ![s] = o]
  PROVE  \A t \in Slots \ {s} : op'[t].kind = op[t].kind
  <1>1. ASSUME NEW t \in Slots \ {s} PROVE op'[t] \in {op[t], [op[t] EXCEPT !.cur = FALSE]}
    BY DEF Superseded, Types, HandlerTypes
  <1> QED
    BY <1>1, CurrentOnly

LEMMA AnsweredOthers ==
  ASSUME Types, NEW s \in Slots, Answered(s)
  PROVE  \A t \in Slots \ {s} : op'[t].kind = op[t].kind
  <1> DEFINE Put == \E o : op' = [op EXCEPT ![s] = o] \/ op' = [Superseded EXCEPT ![s] = o]
  <1>1. \A o, at : Go(s, o, at) => Put
    BY DEF Go
  <1>2. (\A d, t : Leave(s, d, t) => Put) /\ (End(s) => Put)
    BY DEF Leave, End
  <1>3. \A source, retry, after, keep, ss : StartRestore(s, source, retry, after, keep, ss) => Put
    <2> SUFFICES ASSUME NEW source, NEW retry, NEW after, NEW keep, NEW ss,
                        StartRestore(s, source, retry, after, keep, ss)
                 PROVE  Put
      OBVIOUS
    <2> DEFINE o == [Free EXCEPT !.kind = "restore", !.cur = TRUE, !.res = TRUE,
              !.skip = keep \/ \E k \in Kinds : ss[k].skip,
              !.opt = source = "optimizer" \/ \E k \in Kinds : ss[k].source = "optimizer",
              !.was = Active(ss), !.retry = retry, !.after = after]
    <2> DEFINE n == IF NothingToRestore(ss) THEN Free
                    ELSE IF o.was # {} THEN [o EXCEPT !.at = "handoff"]
                    ELSE IF cached THEN [o EXCEPT !.at = "tariff"]
                    ELSE [o EXCEPT !.at = "mode", !.goal.mode = ModeGoal(o, ss)]
    <2>1. op' = [Superseded EXCEPT ![s] = n]
      BY DEF StartRestore
    <2> HIDE DEF n
    <2> QED
      BY <2>1
  <1>4. \A k, source, after : Begin(s, k, source, after) => Put
    BY DEF Begin
  <1>5. \A keep, flag, ms : CleanUp(s, keep, flag, ms) => Put
    BY <1>3 DEF CleanUp
  <1>6. \A keep : Cleanup(s, keep) => Put
    BY <1>5 DEF Cleanup
  <1>7. \A o : Finish(s, o) => Put
    BY <1>1, <1>2 DEF Finish
  <1>8. \A o : AfterGrid(s, o) => Put
    BY <1>1, <1>7 DEF AfterGrid
  <1>9. \A o : AfterRule(s, o) => Put
    BY <1>1, <1>8 DEF AfterRule
  <1>10. \A o : AfterMode(s, o) => Put
    BY <1>1, <1>2, <1>9 DEF AfterMode
  <1>11. (Running(s) => Put) /\ (Fails(s) => Put) /\ (\A at : GoOn(s, at) => Put)
    BY <1>1, <1>2, <1>6 DEF Running, Fails, GoOn
  <1>12. \A ok : PulseOver(s, ok) => Put
    BY <1>2, <1>6, <1>7, <1>11 DEF PulseOver
  <1>20. Put
    <2>1. CASE LookAnswer(s)
      BY <1>2, <1>4, <2>1 DEF LookAnswer
    <2>2. CASE BaselineAnswer(s)
      BY <1>1, <1>2, <2>2 DEF BaselineAnswer
    <2>3. CASE ChargeAnswer(s)
      BY <1>1, <1>5, <1>6, <1>11, <2>3 DEF ChargeAnswer
    <2>4. CASE DischargeAnswer(s)
      BY <1>1, <1>2, <1>6, <1>11, <2>4 DEF DischargeAnswer
    <2>5. CASE RestoreAnswer(s)
      BY <1>1, <1>2, <1>8, <1>9, <1>10, <2>5 DEF RestoreAnswer
    <2>6. CASE RuleRaises(s)
      BY <1>2, <1>5, <2>6 DEF RuleRaises
    <2>7. CASE NoteAnswer(s)
      BY <1>2, <2>7 DEF NoteAnswer
    <2>8. CASE PulseBegins(s) \/ PulseSkipped(s) \/ PulseAnswer(s)
      BY <1>1, <1>12, <2>8 DEF PulseBegins, PulseSkipped, PulseAnswer
    <2>9. CASE ReserveAnswer(s) \/ Startup(s)
      BY <1>2, <1>3, <1>4, <2>9 DEF ReserveAnswer, Startup
    <2> HIDE DEF Put
    <2> QED
      BY <2>1, <2>2, <2>3, <2>4, <2>5, <2>6, <2>7, <2>8, <2>9 DEF Answered
  <1> QED
    BY <1>20, OthersStay

\* What NewerSurvives says of the timers.
Spares(s) == op[s].at # "note" => timers' \in {timers, timers \cup {<<op[s].after, 0>>}}

\* A superseded restore that ends leaves the sessions and the timers.
LEMMA SupersededEnds ==
  ASSUME Types, NEW s \in Slots, Restoring(s), ~op[s].cur, Answered(s), op'[s].kind = "free"
  PROVE  sess' = sess /\ Spares(s)
  <1>1. op[s].kind = "restore" /\ op[s].kind \notin Kinds
    BY DEF Restoring, Kinds
  <1>2. CASE RestoreAnswer(s)
    BY <1>1, <1>2, RestoreSteps DEF GoesOn, Ends, Spares
  <1>3. CASE LookAnswer(s) \/ BaselineAnswer(s)
    BY <1>1, <1>3, LooksAre DEF LookAnswer, BaselineAnswer
  <1>4. CASE ChargeAnswer(s) \/ DischargeAnswer(s) \/ ReserveAnswer(s) \/ Startup(s)
    BY <1>1, <1>4 DEF ChargeAnswer, DischargeAnswer, ReserveAnswer, Startup
  <1>5. CASE RuleRaises(s) \/ NoteAnswer(s) \/ PulseBegins(s)
    <2>1. CASE RuleRaises(s)
      BY <1>1, <2>1, EndIs DEF RuleRaises, Ends, Spares
    <2>2. CASE NoteAnswer(s)
      BY <2>2 DEF NoteAnswer, Spares
    <2>3. CASE PulseBegins(s)
      BY <2>3 DEF PulseBegins
    <2> QED
      BY <1>5, <2>1, <2>2, <2>3
  <1>6. CASE PulseSkipped(s) \/ PulseAnswer(s)
    <2>1. End(s)
      BY <1>6 DEF PulseSkipped, PulseAnswer, PulseOver
    <2> QED
      BY <2>1, EndIs DEF Ends, Spares
  <1> QED
    BY <1>2, <1>3, <1>4, <1>5, <1>6 DEF Answered

\* A superseded restore ends without ending a session, and, unless it ends with the
\* note of its failure, without a touch on a timer other than the start-up code's.
THEOREM NewerSurvivesCorrect == Spec => NewerSurvives
  <1> DEFINE Survives ==
        \A s \in Slots :
          /\ op[s].kind = "restore" /\ ~op[s].cur /\ op'[s].kind = "free"
          /\ restarts' = restarts
          => /\ Active(sess') = Active(sess)
             /\ op[s].at # "note" => timers' \in {timers, timers \cup {<<op[s].after, 0>>}}
  <1>1. Types /\ [Next]_vars => [Survives]_vars
    <2> SUFFICES ASSUME Types, Next,
                        NEW s \in Slots, op[s].kind = "restore", ~op[s].cur,
                        op'[s].kind = "free", restarts' = restarts
                 PROVE  Active(sess') = Active(sess) /\ Spares(s)
      BY DEF Spares
    <2>1. ASSUME NEW t \in Slots, Answered(t)
          PROVE  Active(sess') = Active(sess) /\ Spares(s)
      <3>1. t = s
        BY <2>1, AnsweredOthers
      <3> QED
        BY <2>1, <3>1, SupersededEnds DEF Restoring
    <2>2. ASSUME HasSlot, NEW o,
                 op' = [op EXCEPT ![Slot] = o] \/ op' = [Superseded EXCEPT ![Slot] = o]
          PROVE  FALSE
      BY <2>2, SlotIsFree, OthersStay
    <2>3. ASSUME NEW k \in Kinds, NEW source \in Sources, ForceCommand(k, source) PROVE FALSE
      BY <2>2, <2>3 DEF ForceCommand, Begin, Go
    <2>4. ASSUME NEW t \in Kinds \X (0..MaxRetries), Fire(t) PROVE FALSE
      <3>1. CASE op' = op
        BY <3>1
      <3>2. CASE op' # op
        BY <2>2, <2>4, <3>2 DEF Fire, StartRestore
      <3> QED
        BY <3>1, <3>2
    <2>5. CASE Restore
      BY <2>2, <2>5 DEF Restore, StartRestore
    <2>6. CASE SetReserve
      <3>1. \E t \in Slots : /\ op[t].kind = "free"
                             /\ \A u \in Slots \ {t} : op'[u].kind = op[u].kind
        BY <2>6, SetReserveIs DEF Spared
      <3> QED
        BY <2>6, <3>1, SetReserveIs
    <2>7. CASE Restart
      BY <2>7 DEF Restart, Types, CountTypes
    <2> QED
      BY <2>1, <2>3, <2>4, <2>5, <2>6, <2>7 DEF Next
  <1>2. Spec => []Types
    BY InitTyped, TypeStep, PTL DEF Spec
  <1> QED
    BY <1>1, <1>2, PTL DEF Spec, NewerSurvives

=============================================================================
