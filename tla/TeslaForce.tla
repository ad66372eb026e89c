----------------------------- MODULE TeslaForce -----------------------------
(***************************************************************************)
(* Force charge, force discharge and restore of one Tesla site             *)
(* (__init__.py): a command writes four or five settings of the gateway,   *)
(* one request after another, and a restore writes back what the command   *)
(* has found.                                                              *)
(*                                                                         *)
(* A step ends at an await: it is the answer of one request, which lands   *)
(* as it is answered, and all the code does before the next one.  Handlers *)
(* run side by side; only reserve writes exclude each other.               *)
(***************************************************************************)
EXTENDS Naturals, FiniteSetsExt

CONSTANTS
  Slots,       \* handlers that can be in flight at once
  Owns,        \* the settings a user may have: mode, grid, rule
  Tariffs,     \* whether the user's tariff is known at first: {TRUE}, {FALSE}, both
  Sources,     \* who gives force commands: "user", "optimizer"
  MaxRetries,  \* retries of a restore (3 in the code)
  Happens,     \* the mishaps that may happen
  MaxMishaps,  \* how many kinds of them in one behaviour
  MaxFailures, \* how many of them and failed requests together
  MaxCommands, MaxReserves, MaxRestarts

Mishaps ==
  {"overlap",    \* a command or a restore begins while a command is writing
   "overtaken",  \* and while a restore is
   "crash",      \* Home Assistant stops while a handler is in flight
   "restarted",  \* and while none is
   "switched",   \* a session takes over the other kind's
   "unread",     \* the settings cannot be read before a session
   "raised",     \* an export-rule request ends without an answer
   "gave_up",    \* a restore has failed MaxRetries + 1 times
   "idle",       \* a restore finds no session
   "low_soc",    \* the battery is below the reserve to restore
   "optimizer",  \* a session is the optimiser's
   "reserve",    \* the user sets the backup reserve
   "reserve_refused",
   "overwritten",  \* a force charge writes its reserve over a newer one
   "looked_late",  \* a command has looked at another's forced settings
   "forgotten"}    \* a restore at the start fails, and its session is not written down

ASSUME HappensAreMishaps == Happens \subseteq Mishaps
ASSUME SlotsExist == Slots # {}
ASSUME ParametersAreKnown ==
  /\ \A o \in Owns : /\ o.mode \in {"auto", "self"} /\ o.grid \in {"on", "off"}
                     /\ o.rule \in {"ok", "never"}
  /\ Tariffs \subseteq BOOLEAN /\ Sources \subseteq {"user", "optimizer"}
ASSUME BoundsAreNaturals ==
  {MaxRetries, MaxMishaps, MaxCommands, MaxReserves, MaxRestarts, MaxFailures}
    \subseteq Nat
ASSUME FailuresAreRetried == MaxRetries > 0

VARIABLES
  hw,        \* the gateway's tariff, mode, reserve, grid charging, export rule
  own,       \* what the user has set
  sess,      \* force_charge_state and force_discharge_state
  timers,    \* <<kind, 0>> expires a session, <<kind, n>> is the n-th retry
  disk,      \* force_mode_state, pending_tesla_restore
  pref,      \* the remembered grid-charging preference
  cached,    \* last_restorable_tesla_tariff is known
  op,        \* the handler in each slot
  kept,      \* a clean-up has spared the reserve for a newer command
  mishaps, commands, reserves, restarts, failures

vars == <<hw, own, sess, timers, disk, pref, cached, op, kept,
          mishaps, commands, reserves, restarts, failures>>

known  == <<pref, cached>>
counts == <<commands, reserves, restarts>>

Kinds == {"charge", "discharge"}
Other(k) == IF k = "charge" THEN "discharge" ELSE "charge"

Blank == [mode |-> "none", reserve |-> "none", grid |-> "none", rule |-> "none"]
NoSession == [active |-> FALSE, source |-> "user", skip |-> FALSE,
              saved |-> Blank, sites |-> Blank]
Free == [kind |-> "free", at |-> "", cur |-> FALSE, res |-> FALSE,
         source |-> "user", skip |-> FALSE, opt |-> FALSE, was |-> {}, base |-> Blank,
         retry |-> 0, failed |-> FALSE, goal |-> Blank, after |-> ""]

Settings == [mode : {"none", "auto", "self"},
             reserve : {"none", "own", "new", "zero", "full", "nudge"},
             grid : {"none", "on", "off"}, rule : {"none", "ok", "never"}]
Gateway == [tariff : {"own"} \cup Kinds, mode : {"auto", "self"},
            reserve : {"own", "new", "zero", "full", "nudge"},
            grid : {"on", "off"}, rule : {"ok", "never"}]
Sessions == [active : BOOLEAN, source : {"user", "optimizer"}, skip : BOOLEAN,
             saved : Settings, sites : Settings]
Stages == {"", "look", "baseline", "rule", "grid", "mode", "reserve", "tariff",
           "pulse", "pulsing", "handoff", "note"}
Handlers == [kind : {"free", "restore", "reserve", "startup"} \cup Kinds, at : Stages,
             cur : BOOLEAN, res : BOOLEAN, source : {"user", "optimizer"},
             skip : BOOLEAN, opt : BOOLEAN, was : SUBSET Kinds, retry : 0..MaxRetries,
             failed : BOOLEAN, goal : Settings, base : Settings, after : {"", "drop"} \cup Kinds]
Records == [kind : {"none"} \cup Kinds, source : {"user", "optimizer"},
            skip : BOOLEAN, saved : Settings]
NoRecord == [kind |-> "none", source |-> "user", skip |-> FALSE, saved |-> Blank]

TypeOK ==
  /\ hw \in Gateway /\ own \in Gateway /\ sess \in [Kinds -> Sessions]
  /\ timers \subseteq Kinds \X (0..MaxRetries)
  /\ disk \in [rec : Records, pending : {"none", "all", "skip"}]
  /\ pref \in {"none", "on", "off"} /\ {cached, kept} \subseteq BOOLEAN
  /\ op \in [Slots -> Handlers] /\ mishaps \subseteq Happens
  /\ commands \in 0..MaxCommands /\ reserves \in 0..MaxReserves
  /\ restarts \in 0..MaxRestarts /\ failures \in 0..MaxFailures

Init ==
  /\ \E o \in Owns : own = [tariff |-> "own", reserve |-> "own", mode |-> o.mode,
                            grid |-> o.grid, rule |-> o.rule]
  /\ hw = own /\ sess = [k \in Kinds |-> NoSession] /\ timers = {}
  /\ disk = [rec |-> NoRecord, pending |-> "none"] /\ pref = "none"
  /\ cached \in Tariffs /\ op = [s \in Slots |-> Free] /\ kept = FALSE
  /\ mishaps = {} /\ commands = 0 /\ reserves = 0 /\ restarts = 0 /\ failures = 0

-----------------------------------------------------------------------------
(* Handlers, requests and the disk                                         *)

\* The mishaps of a step that must be taken, and of one that need not be.
Mishap(ms) == ms \subseteq Happens /\ mishaps' = mishaps \cup ms
Few(ms, n) ==
  LET kinds == Cardinality(ms \ {"reserve"})
  IN  kinds <= MaxMishaps /\ kinds + n <= MaxFailures
Chance(ms) == Mishap(ms) /\ (ms \subseteq mishaps \/ Few(mishaps', failures))
If(cond, m) == IF cond THEN {m} ELSE {}
Never(ms) == mishaps \cap ms = {}

Writing(s) == op[s].kind \in {"restore"} \cup Kinds /\ op[s].at # "look"
Overlaps(s) ==
  LET others == {t \in Slots \ {s} : Writing(t)}
  IN  If(\E t \in others : op[t].kind # "restore", "overlap")
        \cup If(\E t \in others : op[t].kind = "restore", "overtaken")
Active(ss) == {k \in Kinds : ss[k].active}
Idle == \A s \in Slots : op[s].kind = "free"

\* What the gateway is when the request of handler o has landed.
Landed(o) ==
  IF o.at = "handoff" THEN [hw EXCEPT !.mode = "self"]
  ELSE IF o.at = "mode" THEN [hw EXCEPT !.mode = o.goal.mode]
  ELSE IF o.at = "grid" THEN [hw EXCEPT !.grid = o.goal.grid]
  ELSE IF o.at = "rule" THEN [hw EXCEPT !.rule = o.goal.rule]
  ELSE IF o.at \in {"reserve", "pulsing"} THEN [hw EXCEPT !.reserve = o.goal.reserve]
  ELSE IF o.at = "tariff"
    THEN [hw EXCEPT !.tariff = IF o.kind = "restore" THEN "own" ELSE o.kind]
  ELSE hw

\* What it may be when the request has failed: 100% has no stronger value that
\* a pulse could leave behind.
Missed(o) ==
  {hw} \cup (IF o.at = "pulsing" /\ o.goal.reserve # "full"
               THEN {[hw EXCEPT !.reserve = "nudge"]} ELSE {})

\* An answer: confirmed, refused, or landed without a confirmation.
Answers == {"ok", "refused", "lost"}
Answer(s, a) ==
  /\ hw' \in (IF a = "refused" THEN Missed(op[s]) ELSE {Landed(op[s])})
  /\ failures' = failures + (IF a = "ok" THEN 0 ELSE 1)
  /\ a # "ok" => Few(mishaps, failures + 1)

\* Mutant of Sent: a refused tariff is taken for one that was sent.
SentAnyway(a) == TRUE

\* send_tariff_to_tesla: an upload that lacks its confirmation is a success.
Sent(a) == a # "refused"

\* Mutant of Record: a discharge is not written down.
RecordCharge(ss) ==
  IF ss["charge"].active
    THEN [kind |-> "charge", source |-> ss["charge"].source,
          skip |-> ss["charge"].skip, saved |-> ss["charge"].saved]
    ELSE NoRecord

\* persist_force_mode_state; a charge is looked at first.
Record(ss) ==
  IF Active(ss) = {} THEN NoRecord
  ELSE LET k == IF ss["charge"].active THEN "charge" ELSE "discharge"
       IN  [kind |-> k, source |-> ss[k].source, skip |-> ss[k].skip,
            saved |-> ss[k].saved]
Recorded(ss) == [disk EXCEPT !.rec = Record(ss)]

\* A handler ends, and the start-up code that has called it, if any, goes on:
\* it drops the record, or arms the timer of the kind it has re-issued.
Leave(s, d, t) ==
  /\ op' = [op EXCEPT ![s] = Free]
  /\ disk' = (IF op[s].after = "drop" THEN [d EXCEPT !.rec = NoRecord] ELSE d)
  /\ timers' = (IF op[s].after \in Kinds THEN t \cup {<<op[s].after, 0>>} ELSE t)
End(s) == Leave(s, disk, timers) /\ UNCHANGED <<sess, kept>>

\* Mutant of Armed: the old timer is cancelled, the new one is not set.
Disarmed(k, n) == {t \in timers : t[1] # k}

Armed(k, n) == {t \in timers : t[1] # k} \cup {<<k, n>>}

Go(s, o, at) ==
  /\ op' = [op EXCEPT ![s] = [o EXCEPT !.at = at]]
  /\ UNCHANGED <<sess, timers, disk, kept>>

\* The command generation: what is in flight is no longer current.
Superseded == [t \in Slots |-> [op[t] EXCEPT !.cur = FALSE]]

-----------------------------------------------------------------------------
(* Restore                                                                 *)

\* The first of the places a restore looks in that has a value.
Setting(ss, f) ==
  LET places == <<ss["discharge"].sites[f], ss["charge"].sites[f],
                  ss["discharge"].saved[f], ss["charge"].saved[f]>>
      given == {i \in 1..4 : places[i] # "none"}
  IN  IF given = {} THEN "none" ELSE places[Min(given)]

OrElse(v, default) == IF v = "none" THEN default ELSE v

\* What a restore writes: the mode first, and when that is answered, the rest.
\* The reserve is left where it is if a discharge has left the battery below it;
\* battery_ok is never restored.
ModeGoal(o, ss) == IF o.opt THEN "self" ELSE OrElse(Setting(ss, "mode"), "auto")
Goal(o, low) ==
  LET rule == Setting(sess, "rule")
  IN  [o.goal EXCEPT !.reserve = IF low THEN "none" ELSE Setting(sess, "reserve"),
                     !.rule = IF rule = "ok" THEN "none" ELSE rule]

NothingToRestore(ss) ==
  /\ Active(ss) = {} /\ ~cached
  /\ \A k \in Kinds : \A f \in {"mode", "reserve", "grid"} : ss[k].saved[f] = "none"

\* handle_restore_normal up to its first request; ss is what it finds.
StartRestore(s, source, retry, after, keep, ss) ==
  LET o == [Free EXCEPT !.kind = "restore", !.cur = TRUE, !.res = TRUE,
              !.skip = keep \/ \E k \in Kinds : ss[k].skip,
              !.opt = source = "optimizer" \/ \E k \in Kinds : ss[k].source = "optimizer",
              !.was = Active(ss), !.retry = retry, !.after = after]
  IN  /\ sess' = ss /\ timers' = {}
      /\ op' = [Superseded EXCEPT ![s] =
                  IF NothingToRestore(ss) THEN Free
                  ELSE IF o.was # {} THEN [o EXCEPT !.at = "handoff"]
                  ELSE IF cached THEN [o EXCEPT !.at = "tariff"]
                  ELSE [o EXCEPT !.at = "mode", !.goal.mode = ModeGoal(o, ss)]]

\* Both sessions end; the charge's source stays what it was.
Cleared ==
  [k \in Kinds |-> [NoSession EXCEPT
     !.source = IF k = "charge" THEN sess[k].source ELSE "user"]]

\* Mutant of Finish: a failed write ends the session as well.
FinishAnyway(s, o) ==
  /\ sess' = Cleared /\ UNCHANGED kept
  /\ Leave(s, [rec |-> Record(Cleared), pending |-> "none"], timers)

Finish(s, o) ==
  IF o.failed THEN Go(s, o, "note")
  ELSE /\ sess' = Cleared /\ UNCHANGED kept
       /\ Leave(s, [rec |-> Record(Cleared), pending |-> "none"], timers)

AfterGrid(s, o) ==
  IF o.goal.reserve # "none" /\ ~o.skip THEN Go(s, o, "pulse") ELSE Finish(s, o)
AfterRule(s, o) ==
  LET grid == OrElse(Setting(sess, "grid"), pref)
  IN  IF grid = "none" THEN AfterGrid(s, o) ELSE Go(s, [o EXCEPT !.goal.grid = grid], "grid")
AfterMode(s, o) ==
  IF o.goal.rule # "none" THEN Go(s, o, "rule")
  ELSE IF o.cur THEN AfterRule(s, o) ELSE End(s)

\* The answers of a restore's requests.
RestoreAnswer(s) ==
  LET o == op[s] IN
  /\ o.kind = "restore"
  /\ \E a \in Answers :
       LET p == [o EXCEPT !.failed = @ \/ a # "ok"] IN
       /\ Answer(s, a)
       /\ \/ /\ o.at \in {"handoff", "tariff"} /\ o.cur
             /\ IF o.at = "handoff" /\ cached
                  THEN Go(s, p, "tariff")
                  ELSE Go(s, [p EXCEPT !.goal.mode = ModeGoal(o, sess)], "mode")
             /\ UNCHANGED mishaps
          \/ o.at \in {"handoff", "tariff"} /\ ~o.cur /\ End(s) /\ UNCHANGED mishaps
          \/ /\ o.at = "mode"
             /\ \E low \in BOOLEAN :
                  /\ low => "discharge" \in o.was
                  /\ Chance(If(low, "low_soc")) /\ AfterMode(s, [p EXCEPT !.goal = Goal(p, low)])
          \/ /\ o.at = "rule" /\ a # "lost" /\ UNCHANGED mishaps
             /\ IF o.cur THEN AfterRule(s, p) ELSE End(s)
          \/ /\ o.at = "grid" /\ UNCHANGED mishaps
             /\ IF o.cur THEN AfterGrid(s, p) ELSE End(s)
  /\ UNCHANGED <<own, known, counts>>

Retries(o) == o.retry < MaxRetries

\* The failure is recorded, and only then is the retry scheduled.
NoteAnswer(s) ==
  LET o == op[s]
      k == IF "charge" \in o.was \/ sess["charge"].active THEN "charge" ELSE "discharge"
      noted == [disk EXCEPT !.pending = IF o.skip THEN "skip" ELSE "all"]
  IN  /\ o.at = "note"
      /\ IF Retries(o)
           THEN Leave(s, [noted EXCEPT !.rec = Record(sess)], Armed(k, o.retry + 1))
           ELSE Leave(s, noted, timers)
      /\ Mishap(If(~Retries(o), "gave_up") \cup If(o.after = "drop", "forgotten"))
      /\ UNCHANGED <<hw, own, sess, known, kept, counts, failures>>

-----------------------------------------------------------------------------
(* Force commands                                                          *)

ForceGoal(k) ==
  IF k = "charge"
    THEN [mode |-> "auto", reserve |-> "full", grid |-> "on", rule |-> "none"]
    ELSE [mode |-> "auto", reserve |-> "zero", grid |-> "off", rule |-> "ok"]

\* A session that replaces the other kind's takes over what that one has saved,
\* but not, as a charge, the export rule.
Inherited(k) ==
  IF ~sess[Other(k)].active THEN sess
  ELSE [sess EXCEPT ![k].saved =
          [sess[Other(k)].saved EXCEPT !.rule =
             IF k = "charge" THEN "none" ELSE sess[k].saved.rule],
        ![Other(k)].active = FALSE, ![Other(k)].saved = Blank]

\* Mutant of First: the settings are read anew.
FirstReads(k) == "baseline"

\* The settings are read unless a session has saved them.
First(k) ==
  IF Active(sess) = {} THEN "baseline" ELSE IF k = "charge" THEN "mode" ELSE "grid"

\* A command takes the session, before its first request.
Begin(s, k, source, after) ==
  LET o == [Free EXCEPT !.kind = k, !.cur = TRUE, !.res = TRUE, !.source = source,
              !.goal = ForceGoal(k), !.after = after, !.at = First(k)]
  IN  /\ sess' = [Inherited(k) EXCEPT ![k].active = TRUE, ![k].source = source,
                    ![k].skip = FALSE]
      /\ timers' = {} /\ op' = [Superseded EXCEPT ![s] = o] /\ kept' = FALSE
      /\ Mishap(Overlaps(s) \cup If(sess[Other(k)].active, "switched")
                  \cup If(source = "optimizer", "optimizer")
                  \cup If(op[s].at = "look" /\ Active(sess) # {}, "looked_late"))
      /\ UNCHANGED disk

\* A command that fails writes its session down and restores.
CleanUp(s, keep, flag, ms) ==
  LET ss == [sess EXCEPT ![op[s].kind].skip = flag, ![op[s].kind].active = TRUE,
               ![op[s].kind].source = op[s].source]
  IN  /\ StartRestore(s, "user", 0, op[s].after, flag, ss)
      /\ disk' = Recorded(ss) /\ kept' = keep /\ Mishap(Overlaps(s) \cup ms)

\* Mutant of Cleanup: a newer reserve command is not spared.
CleanupAll(s, keep) == CleanUp(s, keep, FALSE, {})

Cleanup(s, keep) == CleanUp(s, keep, keep, {})

Slot == CHOOSE s \in Slots : op[s].kind = "free"
HasSlot ==
  /\ \E s \in Slots : op[s].kind = "free"
  /\ \A s \in Slots : op[s].kind # "startup"

\* A command whose grid-charging setting could not be restored is refused; only
\* a fresh session has to read it.
ForceCommand(k, source) ==
  /\ commands < MaxCommands /\ Few(mishaps, 0) /\ commands' = commands + 1 /\ HasSlot
  /\ IF sess[k].active \/ sess[Other(k)].active
       THEN /\ sess[k].active \/ sess[Other(k)].saved.grid # "none"
            /\ Begin(Slot, k, source, "")
       ELSE /\ Go(Slot, [Free EXCEPT !.kind = k, !.source = source], "look")
            /\ Mishap(If(source = "optimizer", "optimizer"))
  /\ Chance(mishaps' \ mishaps)
  /\ UNCHANGED <<hw, own, known, reserves, restarts, failures>>

LookAnswer(s) ==
  /\ op[s].at = "look"
  /\ \/ pref' = hw.grid /\ Begin(s, op[s].kind, op[s].source, "")
     \/ pref = "none" /\ pref' = pref /\ End(s) /\ UNCHANGED mishaps
  /\ UNCHANGED <<hw, own, cached, counts, failures>>

\* The settings before the session; force charge would leave 100%.
Read(k) == [mode |-> hw.mode, grid |-> hw.grid,
            reserve |-> IF hw.reserve = "full" THEN "zero" ELSE hw.reserve,
            rule |-> IF k = "discharge" THEN hw.rule ELSE "none"]

Save(s, k, b) == [sess EXCEPT ![k].saved = b, ![k].sites = b]

BaselineAnswer(s) ==
  LET k == op[s].kind
      Based(b) ==
        IF k = "charge"
          THEN /\ op' = [op EXCEPT ![s].at = "mode"] /\ sess' = Save(s, k, b)
               /\ UNCHANGED <<timers, disk, kept>>
          ELSE Go(s, [op[s] EXCEPT !.base = b], "rule")
  IN  /\ op[s].at = "baseline"
      /\ \/ /\ pref' = hw.grid /\ cached' = (cached \/ hw.tariff = "own")
            /\ Based(Read(k)) /\ UNCHANGED <<mishaps, failures>>
         \/ Based(Blank) /\ Chance({"unread"}) /\ UNCHANGED <<known, failures>>
         \/ /\ Few(mishaps, failures + 1) /\ failures' = failures + 1
            /\ sess' = [sess EXCEPT ![k].active = FALSE]
            /\ Leave(s, disk, timers) /\ UNCHANGED <<known, mishaps, kept>>
      /\ UNCHANGED <<hw, own, counts>>

\* _tesla_reserve_write_lock
Locked == \E s \in Slots : op[s].at = "pulsing"

\* A superseded command ends where it looks at its generation.
GoOn(s, at) ==
  /\ IF op[s].cur THEN Go(s, op[s], at) ELSE End(s)
  /\ UNCHANGED mishaps
Fails(s) == IF op[s].cur THEN Cleanup(s, FALSE) ELSE End(s) /\ UNCHANGED mishaps

ChargeAnswer(s) ==
  /\ op[s].kind = "charge"
  /\ \E a \in Answers :
       /\ Answer(s, a)
       /\ \/ op[s].at = "mode" /\ a = "ok" /\ GoOn(s, "grid")
          \/ op[s].at = "mode" /\ a # "ok" /\ Cleanup(s, FALSE)
          \/ op[s].at = "grid" /\ a = "ok" /\ Go(s, op[s], "reserve") /\ UNCHANGED mishaps
          \/ op[s].at = "grid" /\ a # "ok" /\ Fails(s)
          \/ op[s].at = "reserve" /\ ~Locked
               /\ LET over == If(~op[s].res /\ a # "refused", "overwritten") IN
                  IF a = "ok" THEN Go(s, op[s], "tariff") /\ Mishap(over)
                              ELSE CleanUp(s, FALSE, FALSE, over)
          \/ op[s].at = "tariff"
               /\ IF Sent(a) THEN Go(s, op[s], "pulse") /\ UNCHANGED mishaps
                             ELSE Cleanup(s, FALSE)
  /\ UNCHANGED <<own, known, counts>>

\* The saved settings are stored once the export rule is written.
DischargeAnswer(s) ==
  /\ op[s].kind = "discharge"
  /\ \E a \in Answers :
       /\ Answer(s, a)
       /\ \/ /\ op[s].at = "rule" /\ a # "lost"
             /\ sess' = Save(s, "discharge", op[s].base)
             /\ IF op[s].cur
                  THEN op' = [op EXCEPT ![s].at = "grid"] /\ UNCHANGED <<timers, disk>>
                  ELSE Leave(s, disk, timers)
             /\ UNCHANGED <<kept, mishaps>>
          \/ op[s].at = "grid" /\ a = "ok" /\ Go(s, op[s], "mode") /\ UNCHANGED mishaps
          \/ op[s].at = "grid" /\ a # "ok" /\ Fails(s)
          \/ op[s].at = "mode" /\ Go(s, op[s], "tariff") /\ UNCHANGED mishaps
          \/ op[s].at = "tariff"
               /\ IF Sent(a) THEN Go(s, op[s], "pulse") /\ UNCHANGED mishaps
                             ELSE Cleanup(s, FALSE)
  /\ UNCHANGED <<own, known, counts>>

\* A request for the export rule ends without an answer: a restore is over, a
\* discharge restores what it has not saved yet.
RuleRaises(s) ==
  /\ op[s].at = "rule" /\ hw' \in {hw, Landed(op[s])}
  /\ IF op[s].kind = "restore" THEN End(s) /\ Mishap({"raised"})
                               ELSE CleanUp(s, FALSE, FALSE, {"raised"})
  /\ Chance(mishaps' \ mishaps)
  /\ UNCHANGED <<own, known, counts, failures>>

\* The session runs: its timer is armed, and it is written down.
Running(s) ==
  LET k == op[s].kind
      ss == [sess EXCEPT ![k].active = TRUE, ![k].source = op[s].source]
  IN  /\ sess' = ss /\ UNCHANGED kept
      /\ Leave(s, Recorded(ss), Armed(k, 0))

-----------------------------------------------------------------------------
(* The reserve: the pulse that ends every handler, and the user's command  *)

\* Mutant of PulseOver: the pulse of a superseded handler counts as well.
PulseOverStale(s, ok) ==
  LET o == op[s] IN
  IF o.kind = "restore"
    THEN Finish(s, [o EXCEPT !.failed = @ \/ (o.res /\ ~ok)]) /\ UNCHANGED mishaps
  ELSE IF o.res /\ ok THEN Running(s) /\ UNCHANGED mishaps
  ELSE Cleanup(s, ~o.res)

\* The pulse of a superseded handler counts for nothing.  A newer reserve
\* command is left in place.
PulseOver(s, ok) ==
  LET o == op[s] IN
  IF ~o.cur THEN End(s) /\ UNCHANGED mishaps
  ELSE IF o.kind = "restore"
    THEN Finish(s, [o EXCEPT !.failed = @ \/ (o.res /\ ~ok)]) /\ UNCHANGED mishaps
  ELSE IF o.res /\ ok THEN Running(s) /\ UNCHANGED mishaps
  ELSE Cleanup(s, ~o.res)

PulseBegins(s) ==
  /\ op[s].at = "pulse" /\ ~Locked /\ op[s].cur /\ op[s].res
  /\ Go(s, op[s], "pulsing")
  /\ UNCHANGED <<hw, own, known, counts, failures, mishaps>>

PulseSkipped(s) ==
  /\ op[s].at = "pulse" /\ ~Locked /\ ~(op[s].cur /\ op[s].res)
  /\ PulseOver(s, FALSE)
  /\ UNCHANGED <<hw, own, known, counts, failures>>

PulseAnswer(s) ==
  /\ op[s].at = "pulsing"
  /\ \E a \in Answers : Answer(s, a) /\ PulseOver(s, a = "ok")
  /\ UNCHANGED <<own, known, counts>>

\* handle_set_backup_reserve
SetReserve ==
  /\ reserves < MaxReserves /\ Few(mishaps, 0) /\ reserves' = reserves + 1 /\ HasSlot
  /\ op' = [[t \in Slots |-> [op[t] EXCEPT !.res = FALSE]] EXCEPT
              ![Slot] = [Free EXCEPT !.kind = "reserve", !.at = "reserve",
                           !.goal = [Blank EXCEPT !.reserve = "new"]]]
  /\ Mishap({"reserve"})
  /\ UNCHANGED <<hw, own, sess, timers, disk, known, kept, commands, restarts, failures>>

ReserveAnswer(s) ==
  /\ op[s].kind = "reserve" /\ ~Locked
  /\ \/ /\ hw' = Landed(op[s]) /\ own' = [own EXCEPT !.reserve = "new"]
        /\ UNCHANGED <<mishaps, failures>>
     \/ /\ Few(mishaps, failures + 1) /\ failures' = failures + 1
        /\ Chance({"reserve_refused"}) /\ UNCHANGED <<hw, own>>
  /\ End(s) /\ UNCHANGED <<known, counts>>

-----------------------------------------------------------------------------
(* The user's restore, the timers, and Home Assistant                      *)

Restore ==
  /\ commands < MaxCommands /\ Few(mishaps, 0) /\ commands' = commands + 1 /\ HasSlot
  /\ StartRestore(Slot, "user", 0, "", FALSE, sess)
  /\ Chance(Overlaps(Slot) \cup If(Active(sess) = {}, "idle"))
  /\ UNCHANGED <<hw, own, disk, known, kept, reserves, restarts, failures>>

\* An expiry looks at its own session, a retry at both.
Fire(t) ==
  /\ t \in timers /\ HasSlot
  /\ IF IF t[2] = 0 THEN sess[t[1]].active ELSE Active(sess) # {}
       THEN /\ StartRestore(Slot, "user", t[2], "", FALSE, sess)
            /\ Chance(Overlaps(Slot))
       ELSE timers' = timers \ {t} /\ UNCHANGED <<sess, op, mishaps>>
  /\ UNCHANGED <<hw, own, disk, known, kept, counts, failures>>

AnySlot == CHOOSE s \in Slots : TRUE

\* What the requests in flight leave behind when Home Assistant stops.
Abandoned ==
  {hw} \cup UNION {Missed(op[s]) \cup {Landed(op[s])} : s \in Slots}

\* The session on the disk, as the start-up code sets it up.
Reloaded ==
  [k \in Kinds |->
     IF disk.rec.kind = k
       THEN [NoSession EXCEPT !.active = TRUE, !.source = disk.rec.source,
               !.skip = disk.rec.skip, !.saved = disk.rec.saved]
       ELSE [NoSession EXCEPT !.skip = disk.rec.skip]]

\* Home Assistant stops, and starts with what the disk says.
Restart ==
  /\ restarts < MaxRestarts /\ Few(mishaps, 0) /\ restarts' = restarts + 1
  /\ hw' \in Abandoned /\ sess' = Reloaded /\ timers' = {} /\ kept' = (kept /\ Idle)
  /\ op' = [t \in Slots |-> IF t = AnySlot THEN [Free EXCEPT !.kind = "startup"]
                                            ELSE Free]
  /\ Chance({IF Idle THEN "restarted" ELSE "crash"})
  /\ UNCHANGED <<own, disk, known, commands, reserves, failures>>

\* restore_force_mode_from_persistence: an optimiser's session and an expired
\* one are restored, another is commanded again, an unfinished restore is begun
\* again.
Startup(s) ==
  LET rec == disk.rec IN
  /\ op[s].kind = "startup"
  /\ IF rec.kind = "none"
       THEN /\ IF disk.pending = "none" THEN End(s)
               ELSE /\ StartRestore(s, "user", 0, "", disk.pending = "skip", sess)
                    /\ UNCHANGED <<disk, kept>>
            /\ UNCHANGED mishaps
       ELSE \/ /\ StartRestore(s, rec.source, 0, "drop", FALSE, sess)
               /\ UNCHANGED <<disk, kept, mishaps>>
            \/ rec.source = "user" /\ Begin(s, rec.kind, "user", rec.kind)
  /\ UNCHANGED <<hw, own, known, counts, failures>>

Answered(s) ==
  \/ LookAnswer(s) \/ BaselineAnswer(s) \/ ChargeAnswer(s) \/ DischargeAnswer(s)
  \/ RestoreAnswer(s) \/ RuleRaises(s) \/ NoteAnswer(s)
  \/ PulseBegins(s) \/ PulseSkipped(s) \/ PulseAnswer(s) \/ ReserveAnswer(s)
  \/ Startup(s)

Next ==
  \/ \E s \in Slots : Answered(s)
  \/ \E k \in Kinds, source \in Sources : ForceCommand(k, source)
  \/ \E t \in Kinds \X (0..MaxRetries) : Fire(t)
  \/ Restore \/ SetReserve \/ Restart

Spec == Init /\ [][Next]_vars

\* A request is answered or times out, a timer fires, and the reserve lock is
\* given to whoever waits longest.
FairSpec ==
  /\ Spec /\ \A s \in Slots : SF_vars(Answered(s))
  /\ WF_vars(\E t \in Kinds \X (0..MaxRetries) : Fire(t))

-----------------------------------------------------------------------------
(* Properties                                                              *)

Rest == Idle /\ Active(sess) = {}

\* What a setting of the user's may have become: an optimiser's restore leaves
\* self-consumption, one without a session the default, and some leave the
\* reserve where it is.
Usual ==
  [mode |-> {own.mode} \cup If(~Never({"optimizer", "overtaken"}), "self")
                       \cup If("idle" \in mishaps, "auto"),
   reserve |-> IF Never({"low_soc", "reserve"}) THEN {own.reserve}
               ELSE {"own", "new", "zero", "full", "nudge"},
   grid |-> {own.grid}, rule |-> {own.rule}]

\* What a session has saved, in memory and on the disk, is what the user had
\* set: a second command, a switch, a retry or a restart does not save the
\* forced settings over it.
Plain == /\ Never({"overlap", "crash", "unread", "raised", "looked_late", "forgotten"})
         /\ Never({"restarted"}) \/ Never({"overtaken", "switched"})

BaselineIsUsers ==
  Plain =>
    \A k \in Kinds : \A saved \in {sess[k].saved, sess[k].sites, disk.rec.saved} :
      \A f \in DOMAIN Usual : saved[f] \in {"none"} \cup Usual[f]

\* When no session is left, the gateway is what the user has set.
NormalAgain ==
  Rest /\ disk.pending = "none" /\ Plain
    => hw.tariff = "own" /\ \A f \in DOMAIN Usual : hw[f] \in Usual[f]

\* A gateway that is not the user's is on the disk as a session or as a
\* restore to finish.
UnfinishedIsOnDisk ==
  Idle /\ hw.tariff # "own" /\ Never({"overlap", "crash", "unread"})
       /\ (Never({"restarted"}) \/ Never({"overtaken", "raised"}))
    => disk.rec.kind # "none" \/ disk.pending # "none"

\* A reserve command that arrives while a force command waits for its reserve
\* stands, once it is answered, through the clean-up and its retries.
ReserveStands ==
  kept /\ (\A s \in Slots : op[s].kind # "reserve")
       /\ Never({"reserve_refused", "overwritten"})
       /\ (Never({"overlap"}) \/ Never({"idle"}))
    => hw.reserve = own.reserve

\* A session that waits for its expiry only is what the gateway does.
RunningIsForced ==
  \A k \in Kinds :
    Idle /\ sess[k].active /\ timers = {<<k, 0>>} /\ Never({"overlap", "overtaken"})
         /\ (Never({"restarted", "crash"}) \/ Never({"raised"}))
      => hw.tariff = k /\ hw.grid = ForceGoal(k).grid

\* A restore that a newer command has superseded ends without ending a session
\* and without a touch on the timers.  It has two exceptions for the timers: when
\* it ends with the note of its failure it arms its retry for the newer command
\* (RetrySparesNewer of MCTeslaForce), and the start-up code arms the expiry of
\* the session it has re-issued.
NewerSurvives ==
  [][\A s \in Slots :
       /\ op[s].kind = "restore" /\ ~op[s].cur /\ op'[s].kind = "free"
       /\ restarts' = restarts
       => /\ Active(sess') = Active(sess)
          /\ op[s].at # "note" => timers' \in {timers, timers \cup {<<op[s].after, 0>>}}]_vars

\* Every session ends, and what takes its place does.
SessionEnds == Active(sess) # {} ~> Active(sess) = {} \/ ~Never({"gave_up", "raised"})

=============================================================================
