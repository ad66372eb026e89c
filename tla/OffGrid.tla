------------------------------- MODULE OffGrid -------------------------------
(***************************************************************************)
(* Going off-grid instead of exporting (powerwall_local/                   *)
(* curtailment_fallback.py) and its two drivers: the optimiser's ticks,    *)
(* one at a time under _execute_lock, while the optimiser is enabled, and  *)
(* the price checks otherwise.  A user opens and closes the contactor      *)
(* without either of them.                                                 *)
(*                                                                         *)
(* A step ends at an await.  The clock counts units between two rounds of  *)
(* the driver (five minutes), far longer than a command takes.             *)
(***************************************************************************)
EXTENDS Naturals, FiniteSets

CONSTANTS
  Checks,       \* price checks that can be alive at once
  Cap,          \* the daily cap
  Limit,        \* where the counted durations saturate
  Happens,      \* the mishaps that may happen
  MaxMishaps,   \* how many kinds of them in one behaviour, restarts apart
  MaxDays, MaxRestarts, MaxRefusals, MaxChanges

Mishaps ==
  {"lost_answer",     \* a command is taken for refused and works
   "held",            \* a tick returns before it looks at the off-grid state
   "early_return",    \* and sets the marker as it does (spike protection)
   "act_failed",      \* the action that follows a reconnect fails
   "safety_refused",  \* the reconnect that check_safety asks for fails
   "release_refused", \* the reconnect a price check asks for fails
   "overlap",         \* a price check ends while another activates
   "toggled",         \* the optimiser is disabled or enabled
   "restarted",
   "cleanup_missed",  \* no telemetry at start-up, or the reconnect fails
   "taken_over",      \* the contactor a user has opened becomes the fallback's
   "user_closes"}

ASSUME HappensAreMishaps == Happens \subseteq Mishaps
ASSUME CapIsPositive == Cap \in Nat \ {0} /\ Limit \in Nat /\ Limit > Cap
ASSUME BoundsAreNaturals ==
  {MaxMishaps, MaxDays, MaxRestarts, MaxRefusals, MaxChanges} \subseteq Nat

VARIABLES
  active,     \* _active
  session,    \* time since _started_at
  used,       \* _daily_duration_s
  rolled,     \* _daily_reset_date is today
  contactor,  \* "closed", or who has opened it: "fallback", "user"
  soc,        \* "full", "high", or "low": below the floor, or unknown
  want,       \* the plan says off_grid; the export price is uneconomic
  enabled,    \* the optimiser is enabled and owns off-grid decisions
  marker,     \* _last_executed_action
  opt,        \* the await where the optimiser is
  at,         \* the await where each price check is
  rule,       \* the site's export rule
  due,        \* the driver has not had its round since the last unit
  today,      \* how long the fallback has kept the contactor open today
  mishaps, days, restarts, refusals, changes

vars == <<active, session, used, rolled, contactor, soc, want, enabled, marker,
          opt, at, rule, due, today, mishaps, days, restarts, refusals, changes>>

fallback == <<active, session, used, rolled>>
inputs   == <<soc, want, changes>>
clock    == <<today, days>>
faults   == <<mishaps, refusals>>

FallbackTypes ==
  /\ active \in BOOLEAN /\ rolled \in BOOLEAN
  /\ session \in 0..Limit /\ used \in 0..Limit

HouseTypes ==
  /\ contactor \in {"closed", "fallback", "user"}
  /\ soc \in {"full", "high", "low"} /\ want \in BOOLEAN
  /\ rule \in {"never", "battery_ok"}

DriverTypes ==
  /\ enabled \in BOOLEAN /\ due \in BOOLEAN
  /\ marker \in {"none", "off_grid", "other"}
  /\ opt \in {"idle", "starting", "cleanup", "activate", "release", "act",
              "safety"}
  /\ at \in [Checks -> {"idle", "never", "restore", "activate", "release"}]

CountTypes ==
  /\ mishaps \subseteq Happens /\ today \in 0..Limit /\ days \in 0..MaxDays
  /\ restarts \in 0..MaxRestarts /\ refusals \in 0..MaxRefusals
  /\ changes \in 0..MaxChanges

TypeOK == FallbackTypes /\ HouseTypes /\ DriverTypes /\ CountTypes

Init ==
  /\ active = FALSE /\ session = 0 /\ used = 0 /\ rolled = FALSE
  /\ contactor = "closed" /\ soc = "full" /\ want \in BOOLEAN
  /\ enabled \in BOOLEAN /\ marker = "none" /\ opt = "idle"
  /\ at = [c \in Checks |-> "idle"] /\ rule = "battery_ok"
  /\ due = TRUE /\ today = 0 /\ mishaps = {} /\ days = 0 /\ restarts = 0
  /\ refusals = 0 /\ changes = 0

Mishap(m) ==
  /\ m \in Happens /\ mishaps' = mishaps \cup {m}
  /\ Cardinality(mishaps' \ {"restarted"}) <= MaxMishaps
MishapIf(m, cond) == IF cond THEN Mishap(m) ELSE UNCHANGED mishaps
Never(ms) == mishaps \cap ms = {}

UpToLimit(n) == IF n > Limit THEN Limit ELSE n

-----------------------------------------------------------------------------
(* The fallback                                                            *)

\* _maybe_reset_daily_counter, wherever the cap is looked at
UsedToday == IF rolled THEN used ELSE 0

LookAtCap == used' = UsedToday /\ rolled' = TRUE

\* Mutant of WithinCap: the running session does not count.
WithinCapPast == UsedToday < Cap

\* _within_daily_cap; session is 0 while no session runs
WithinCap == UsedToday + session < Cap

\* activate up to go_off_grid.  The option, the pairing and the client may
\* refuse as well.
Activate(Already, Refuse, Send) ==
  \/ active /\ Already /\ UNCHANGED <<used, rolled>>
  \/ ~active /\ Refuse /\ UNCHANGED <<used, rolled>>
  \/ ~active /\ soc = "full" /\ LookAtCap /\ IF WithinCap THEN Send ELSE Refuse

\* The answer of go_off_grid; a refused command may still have worked.
Opens(ok) ==
  LET opened == IF contactor = "closed" THEN "fallback" ELSE contactor
  IN  /\ active' = (ok \/ active) /\ session' = (IF ok THEN 0 ELSE session)
      /\ \/ /\ contactor' = (IF ok THEN opened ELSE contactor)
            /\ MishapIf("taken_over", ok /\ contactor = "user")
         \/ ~ok /\ contactor' = opened /\ Mishap("lost_answer")
      /\ UNCHANGED <<used, rolled, refusals>>

\* Mutant of Release: a contactor the fallback has not opened is closed too.
ReleaseForced(Nothing, Send) == Send

\* release up to reconnect_grid
Release(Nothing, Send) == IF active THEN Send ELSE Nothing

\* Mutant of Closes: the session ends whatever the answer.
ClosesAnyway(ok, m) ==
  /\ active' = FALSE /\ session' = 0 /\ used' = UpToLimit(used + session)
  /\ contactor' = (IF ok THEN "closed" ELSE contactor)
  /\ MishapIf(m, ~ok /\ m # "") /\ UNCHANGED rolled
  /\ refusals < MaxRefusals \/ ok
  /\ refusals' = refusals + (IF ok THEN 0 ELSE 1)

\* The answer of reconnect_grid.  A refusal is counted, or the mishap m.
Closes(ok, m) ==
  /\ IF ok THEN active' = FALSE /\ session' = 0 /\ used' = UpToLimit(used + session)
           ELSE UNCHANGED <<active, session, used>>
  /\ \/ contactor' = (IF ok THEN "closed" ELSE contactor)
        /\ MishapIf(m, ~ok /\ m # "")
     \/ ~ok /\ contactor' = "closed" /\ Mishap("lost_answer")
  /\ refusals < MaxRefusals \/ ok
  /\ refusals' = refusals + (IF ok THEN 0 ELSE 1)
  /\ UNCHANGED rolled

\* status, for the app
Status ==
  /\ LookAtCap
  /\ UNCHANGED <<active, session, contactor, inputs, enabled, marker, opt, at,
                 rule, due, clock, faults, restarts>>

-----------------------------------------------------------------------------
(* The optimiser: _execute_optimizer_action                                *)

OptGoesTo(pc, mark) == opt' = pc /\ marker' = mark

\* Mutant of Hold: a running session is not looked at.
HoldUnchecked == UNCHANGED <<opt, marker, used, rolled>>

\* check_safety while the plan still says off_grid
Hold ==
  \/ ~active /\ UNCHANGED <<opt, marker, used, rolled>>
  \/ /\ active /\ soc = "low"
     /\ OptGoesTo("safety", marker) /\ UNCHANGED <<used, rolled>>
  \/ /\ active /\ soc # "low" /\ LookAtCap
     /\ IF WithinCap THEN UNCHANGED <<opt, marker>> ELSE OptGoesTo("safety", marker)

Tick ==
  /\ enabled /\ opt = "idle" /\ due /\ due' = FALSE
  /\ \/ /\ UNCHANGED <<opt, used, rolled>>
        /\ \/ UNCHANGED marker /\ Mishap("held")
           \/ ~want /\ marker' = "other" /\ Mishap("early_return")
     \/ /\ ~want /\ UNCHANGED <<used, rolled, mishaps>>
        /\ IF marker = "off_grid"
             THEN Release(OptGoesTo("act", marker), OptGoesTo("release", marker))
             ELSE OptGoesTo("idle", "other")
     \/ /\ want /\ UNCHANGED mishaps
        /\ IF marker = "off_grid"
             THEN Hold
             ELSE Activate(OptGoesTo("idle", "off_grid"), OptGoesTo("idle", "other"),
                           OptGoesTo("activate", marker))
  /\ UNCHANGED <<active, session, contactor, inputs, enabled, at, rule, clock,
                 restarts, refusals>>

Activated(ok) == OptGoesTo("idle", IF ok THEN "off_grid" ELSE "other")

\* Mutant of Released: a failed reconnect is not retried.
ReleasedAnyway(ok) == OptGoesTo("act", marker)

\* "staying off-grid": the next tick tries again
Released(ok) == OptGoesTo(IF ok THEN "act" ELSE "idle", marker)

OptAnswer ==
  /\ \E ok \in BOOLEAN :
       \/ opt = "activate" /\ Opens(ok) /\ Activated(ok)
       \/ opt = "release" /\ Closes(ok, "") /\ Released(ok)
       \/ opt = "safety" /\ Closes(ok, "safety_refused") /\ OptGoesTo("idle", "other")
       \/ opt = "cleanup" /\ Closes(ok, "cleanup_missed") /\ OptGoesTo("idle", marker)
  /\ UNCHANGED <<inputs, enabled, at, rule, due, clock, restarts>>

\* The action that needed the grid.
Act ==
  /\ opt = "act"
  /\ \/ OptGoesTo("idle", "other") /\ UNCHANGED mishaps
     \/ OptGoesTo("idle", marker) /\ Mishap("act_failed")
  /\ UNCHANGED <<fallback, contactor, inputs, enabled, at, rule, due, clock,
                 restarts, refusals>>

\* Mutant of Start: the clean-up relies on the session it has forgotten.
StartUnforced ==
  /\ opt = "starting" /\ OptGoesTo("idle", marker)
  /\ UNCHANGED <<fallback, contactor, inputs, enabled, at, rule, due, clock,
                 faults, restarts>>

\* enable: a contactor that is open without a session is closed.
Start ==
  /\ opt = "starting"
  /\ IF ~active /\ contactor # "closed"
       THEN \/ OptGoesTo("cleanup", marker) /\ UNCHANGED mishaps
            \/ OptGoesTo("idle", marker) /\ Mishap("cleanup_missed")
       ELSE OptGoesTo("idle", marker) /\ UNCHANGED mishaps
  /\ UNCHANGED <<fallback, contactor, inputs, enabled, at, rule, due, clock,
                 restarts, refusals>>

-----------------------------------------------------------------------------
(* The price checks                                                        *)

GoTo(c, pc) == at' = [at EXCEPT ![c] = pc]

\* apply_inverter_curtailment with no inverter to curtail
Apply(c, curtail) ==
  IF enabled THEN GoTo(c, "idle") /\ UNCHANGED <<used, rolled, mishaps>>
  ELSE IF curtail
    THEN /\ Activate(GoTo(c, "idle"), GoTo(c, "idle"), GoTo(c, "activate"))
         /\ UNCHANGED mishaps
    ELSE /\ Release(GoTo(c, "idle"), GoTo(c, "release"))
         /\ MishapIf("overlap", \E d \in Checks : at[d] = "activate")
         /\ UNCHANGED <<used, rolled>>

\* While the price is uneconomic the site's rule is "never", sent again from
\* time to time.  The checks that begin while the optimiser is enabled write
\* the rule and nothing else: they are left out.
Check(c) ==
  /\ at[c] = "idle" /\ ~enabled /\ due' = FALSE
  /\ \/ want /\ GoTo(c, "never") /\ UNCHANGED <<used, rolled, mishaps>>
     \/ want /\ rule = "never" /\ Apply(c, TRUE)
     \/ ~want /\ rule = "never" /\ GoTo(c, "restore") /\ UNCHANGED <<used, rolled, mishaps>>
     \/ ~want /\ rule # "never" /\ UNCHANGED <<at, used, rolled, mishaps>>
  /\ UNCHANGED <<active, session, contactor, inputs, enabled, marker, opt, rule,
                 clock, restarts, refusals>>

\* The rule is written, and the contactor follows it; a failure ends the check.
Posted(c) ==
  /\ at[c] \in {"never", "restore"}
  /\ \/ /\ rule' = (IF at[c] = "never" THEN "never" ELSE "battery_ok")
        /\ Apply(c, at[c] = "never") /\ UNCHANGED refusals
     \/ /\ refusals < MaxRefusals /\ refusals' = refusals + 1
        /\ GoTo(c, "idle") /\ UNCHANGED <<rule, used, rolled, mishaps>>
  /\ UNCHANGED <<active, session, contactor, inputs, enabled, marker, opt, due,
                 clock, restarts>>

CheckAnswer(c) ==
  /\ \E ok \in BOOLEAN :
       \/ at[c] = "activate" /\ Opens(ok)
       \/ at[c] = "release" /\ Closes(ok, "release_refused")
  /\ GoTo(c, "idle")
  /\ UNCHANGED <<inputs, enabled, marker, opt, rule, due, clock, restarts>>

-----------------------------------------------------------------------------
(* The user, the prices, time and Home Assistant                           *)

Opening == opt = "activate" \/ \E c \in Checks : at[c] = "activate"
Closing == opt \in {"release", "safety", "cleanup"} \/ \E c \in Checks : at[c] = "release"

\* PowerwallOffGridView
User ==
  /\ IF contactor = "closed"
       THEN contactor' = "user" /\ MishapIf("taken_over", active \/ Opening)
       ELSE contactor' = "closed" /\ Mishap("user_closes")
  /\ changes < MaxChanges /\ changes' = changes + 1
  /\ UNCHANGED <<fallback, soc, want, enabled, marker, opt, at, rule, due, clock,
                 restarts, refusals>>

Change ==
  /\ changes < MaxChanges /\ changes' = changes + 1
  /\ \/ want' = ~want /\ UNCHANGED soc
     \/ soc' \in {"full", "high", "low"} \ {soc} /\ UNCHANGED want
  /\ UNCHANGED <<fallback, contactor, enabled, marker, opt, at, rule, due, clock,
                 faults, restarts>>

\* The driver's next round comes when this one is over.
Pass ==
  /\ ~due /\ due' = TRUE /\ opt = "idle" /\ \A c \in Checks : at[c] = "idle"
  /\ session' = UpToLimit(IF active THEN session + 1 ELSE 0)
  /\ today' = UpToLimit(IF contactor = "fallback" THEN today + 1 ELSE today)
  /\ UNCHANGED <<active, used, rolled, contactor, inputs, enabled, marker, opt, at,
                 rule, days, faults, restarts>>

Midnight ==
  /\ days < MaxDays /\ days' = days + 1
  /\ rolled' = FALSE /\ today' = 0
  /\ UNCHANGED <<active, session, used, contactor, inputs, enabled, marker, opt, at,
                 rule, due, faults, restarts>>

\* What a command that nobody waits for any more leaves behind.
Abandoned ==
  {contactor} \cup (IF Opening /\ contactor = "closed" THEN {"fallback"} ELSE {})
              \cup (IF Closing THEN {"closed"} ELSE {})

\* disable cancels the polling task; an execution from elsewhere goes on.  One
\* toggle in a behaviour is the bound.
Toggle ==
  /\ "toggled" \notin mishaps /\ Mishap("toggled") /\ enabled' = ~enabled
  /\ IF enabled
       THEN /\ marker' = "none" /\ rule' \in {"never", "battery_ok"}
            /\ \/ opt' = "idle" /\ contactor' \in Abandoned
               \/ UNCHANGED <<opt, contactor>>
       ELSE opt = "idle" /\ OptGoesTo("starting", marker) /\ UNCHANGED <<contactor, rule>>
  /\ UNCHANGED <<fallback, inputs, at, due, clock, restarts, refusals>>

Restart ==
  /\ restarts < MaxRestarts /\ restarts' = restarts + 1 /\ Mishap("restarted")
  /\ active' = FALSE /\ session' = 0 /\ used' = 0 /\ rolled' = FALSE
  /\ contactor' \in Abandoned /\ at' = [c \in Checks |-> "idle"]
  /\ OptGoesTo(IF enabled THEN "starting" ELSE "idle", "none")
  /\ UNCHANGED <<inputs, enabled, rule, due, clock, refusals>>

Optimiser == Tick \/ OptAnswer \/ Act \/ Start
Price(c) == Check(c) \/ Posted(c) \/ CheckAnswer(c)

Next ==
  \/ Optimiser \/ \E c \in Checks : Price(c)
  \/ Status \/ User \/ Change \/ Pass \/ Midnight \/ Toggle \/ Restart

Spec == Init /\ [][Next]_vars

\* Both drivers are periodic, an awaited command returns, and time passes
\* however often a price arrives.
FairSpec ==
  /\ Spec /\ WF_vars(Optimiser) /\ SF_vars(Pass)
  /\ \A c \in Checks : WF_vars(Posted(c) \/ CheckAnswer(c)) /\ WF_vars(due /\ Check(c))

-----------------------------------------------------------------------------
(* Properties                                                              *)

Interrupted == {"toggled", "restarted"}

\* The fallback's session and the contactor it has opened are one thing: no
\* refused or failed command leaves one without the other.
SessionOwnsContactor ==
  Never({"lost_answer", "taken_over", "user_closes"} \cup Interrupted)
    => (active <=> contactor = "fallback")

\* The optimiser keeps the house off-grid for at most a round beyond the cap,
\* and a round more for each reconnect that fails.
DailyCapHolds ==
  enabled /\ Never({"lost_answer", "held", "early_return", "safety_refused"}
                     \cup Interrupted)
    => today <= Cap + 1 + refusals

\* A contactor the user has opened stays open.
OnlyOwnReleased ==
  [][contactor = "user" /\ contactor' # "user"
       => mishaps' \cap ({"user_closes", "taken_over"} \cup Interrupted) # {}]_vars

\* When the plan or the price no longer asks for it, the house goes back to the
\* grid, and a reconnect that fails is tried again.
ComesBack ==
  contactor = "fallback" /\ ~want
    ~> \/ contactor # "fallback" \/ want
       \/ ~Never({"lost_answer", "held", "early_return", "safety_refused",
                  "release_refused", "overlap"} \cup Interrupted)

\* Below the floor the optimiser reconnects.
FloorReconnects ==
  contactor = "fallback" /\ enabled /\ soc = "low"
    ~> \/ contactor # "fallback" \/ soc # "low"
       \/ ~Never({"lost_answer", "held", "early_return", "safety_refused",
                  "toggled", "cleanup_missed"})

\* A restart that finds the contactor open while the optimiser is enabled
\* closes it, although the session is forgotten.
RestartReconnects ==
  opt = "starting" /\ contactor = "fallback"
    ~> contactor # "fallback" \/ ~Never({"cleanup_missed", "toggled"})

\* The floor of a session holds whoever drives it.  (It does not: check_safety
\* is called by the optimiser only.)
FloorHolds ==
  contactor = "fallback" /\ soc = "low" ~> contactor # "fallback" \/ soc # "low"

\* Nothing strands the house off-grid for good.
ComesBackAlways == contactor = "fallback" /\ ~want ~> contactor # "fallback" \/ want

\* Only the user closes what the user has opened.  ("reconnect logic only
\* releases what it owned")
OnlyOwnEver ==
  [][contactor = "user" /\ contactor' # "user" => "user_closes" \in mishaps']_vars

=============================================================================
