# Verification of PowerSync

TLA+ models, TLC runs and TLAPS proofs about the Home Assistant integration in
`src/custom_components/power_sync` (paths below are relative to that directory).
The integration runs a home battery and EV chargers: it follows price forecasts,
plans, and commands inverters, Powerwalls and cars.

Apart from one price client's thread, and blocking calls handed to an executor and
awaited, everything runs as tasks of **one asyncio event loop**. State is not shared
between threads; what goes wrong goes wrong *between two awaits*: a
handler reads state, awaits an inverter or a file, and acts on what it read. The
models therefore cut every handler at its awaits and let TLC interleave the
pieces. The other sources of trouble are timers that are already due when they
are cancelled, calls that are refused, raise or arrive late, and restarts of
Home Assistant between two saves.

## How to run

    tlasany ForceMode.tla
    tlc -workers 2 -config MCForceModeOverlap.cfg MCForceMode
    tlapm ForceModeProofs.tla

`PROJECT.json` names the runs, all of which must pass, a mutant of the code for each
property, the source lines of every definition and the hazards the properties are
for. The other `.cfg` files are refuted by TLC: they show where the code and its own
words disagree (see there).

## Inventory

| Component | Code | State | Operations | Module |
|---|---|---|---|---|
| Force modes | `__init__.py` (service handlers 33251-39010, persistence 30785-31760) | four mode records, expiry timers, command generation, stored record | force charge, force discharge, hold SoC, self consumption, restore normal; expiry; start-up recovery | `ForceMode` |
| EV loadpoint ownership | `automations/ev_ownership.py`, `observed_tesla_sessions.py` | lease, last command, stop hold, restart evidence, stored snapshot | claim, release, record command, ensure external, confirm stop, set policy, save, restore | `EvOwnership` |
| Dynamic EV sessions | `automations/actions.py`, `ev_charging_session.py` | per-entry dictionary of sessions, update timers, start lock, history lock | start, stop, Solar Surplus toggle, restore of a manual session | `EvSessions` |
| Sungrow export control | `coordinator.py` 7122-7545, `__init__.py` 29230-29420 | captured baseline, owner, stored record, registers | export, hold, restore, roll back, curtail, lift, recover | `SungrowExport`, `RestorableSetting` |
| Capability probe | `automations/ev_capability_refresh.py` | stored phase, running tasks | request, start, confirm, stop, recover | `CapabilityProbe` |
| Off-grid fallback | `powerwall_local/curtailment_fallback.py`, its drivers in `__init__.py` and `optimization/coordinator.py` | contactor session, daily total | activate, safety check, release, start-up release | `OffGrid` |
| Tesla force and restore | `__init__.py` (33251-38300, 30785-31900) | two sessions, timers, baseline, two stored records, the gateway's settings | force charge, force discharge, restore, retry, reserve, start-up recovery | `TeslaForce` |
| Tesla grid-charging write, local dispatch | `tesla_grid_control.py`, `powerwall_local/dispatch.py` | newest request, readbacks | write, confirm, retry, fall back to the cloud | their outcomes, in `TeslaForce` |
| Export envelope and guard | `network_envelope.py` | versioned snapshot, latched limit, faults | refresh, approve, guarded write | no: its writer is switched off |
| Quota ledger | `quota.py`, `tariff_quota.py`, `zerohero.py` | day, used energy, confidence | settle a sample, reset, correct | planned |
| Pairing | `powerwall_local/pairing.py` | attempt, window | start, verify, cancel, expire | planned |
| Automation rounds | `automations/__init__.py`, `triggers.py` | edge memory of triggers | evaluate, act | planned |
| Phase allocator, external energy ledger | `automations/ev_phase_allocator.py`, `optimization/external_energy_resource.py` | pure | allocate | planned |
| Optimisation coordinator, executor | `optimization/` | plan, last action | poll, solve, act | through its calls only |
| Auto-update | `auto_update.py` | day of the last run | check, install | planned, last |
| Optimiser, tariff conversion, drivers, price clients, entities, views, front end | many | numbers, registers, caches | compute, convert, present | not planned (below) |

**How they interact.** Users, automations and the optimiser call the force-mode
handlers, which share the generation counter, one stored record and one inverter.
Automations, the planner, the optimiser's EV coordinator and the user start and
stop car charging through the EV sessions; each start first claims the
loadpoint's lease and each stop releases it. Telemetry feeds the ownership module
in the other direction: a charge nobody here started becomes an external lease
which the same starts must respect. The capability probe starts and stops the car
through the lease as well. Export control and fallback are driven twice: by the
optimiser's plan, and by the price handlers while the optimiser is disabled or asks
for nothing. Force modes of a Tesla write the gateway one setting after another,
next to the user's own reserve commands.

**What makes each of the modelled components correct**

* *Force modes*: the last command wins (two force modes that overlap excepted: the
  older may come back beside it); charge and discharge are not both on; a
  mode that is on has somebody who will end it; what is on disk is what a restart
  should resume, and it is dropped only once the inverter is back to normal.
* *Ownership*: charging of its own is never taken for somebody else's; somebody
  else's charging is left alone for as long as the policy says; a user's stop
  holds, also over restarts; nothing provisional lasts.
* *Sessions*: lease, stored session and update loop belong together; a stop ends
  the session it meant and no other; the locks are let go.

* *Tesla force*: what a session saved is what the user had set, however commands
  follow on each other; when no session is left the gateway is the user's again, or
  the disk says what is still to do; a restore that a newer command has overtaken ends
  no session (its retry may: see the disagreements).
* *Export control*: the record on disk always leads back to the user's limit, and the
  limit is given back before it is forgotten; curtailment does hold.
* *Probe*: at most one start per episode; a charge it began is recorded and ends;
  nobody else's charge is touched.
* *Fallback*: session and contactor agree; the house comes back to the grid, below the
  floor and after the cap in particular; the user's own off-grid session is left alone.

The hazards are in `PROJECT.json`, each at the line where it bites with the properties
that watch it. Smaller ones, for which there is no property:

* *Force modes*: writes that complete in the opposite order leave the timer of the older
  generation (`__init__.py:33486`); a replayed command's own timer is overwritten
  (`:31688`); a force command cancels the timer of a hold and leaves it on (`:30461`); self
  consumption writes although its preliminary restore was superseded (`:38888`).
* *Ownership*: the snapshot's time is that of the last change, so that a long steady
  charge leaves old evidence (`ev_ownership.py:359`); the anonymous loadpoint overlaps every
  VIN (`:559`); the save is delayed (`:395`).
* *EV sessions*: a start whose session was stopped meanwhile leaves its history entry
  active (`actions.py:13776`); a start claims after an await (`:13777`); a session handed over
  in place is ended by an earlier stop (`:13991`); a physical stop in flight may reach the
  charger after the next start (`:14070`); the record of a stop precedes the call (`:14015`); a
  dictionary is created before an await and filled after it (`:6545`); the optimiser's
  coordinator claims without a second look (`ev_coordinator.py:903`).
* *Export control*: the restore for a surplus-charging car may fail half-way
  (`__init__.py:29282`); the baseline is taken from the last published data
  (`coordinator.py:7404`).
* *Elsewhere*: a late sample of an earlier day rolls the quota ledger back (`quota.py:354`),
  settlement splits at midnight and saturates at the cap (`:346`), faults, corrections and
  resets come in any order (`:407`); a pairing attempt must end once (`pairing.py:251`); a
  failed update waits a day (`auto_update.py:424`); the automations of a round share one
  reading (`automations/__init__.py:456`); the price client's `stop` reads what its thread is
  creating (`websocket_client.py:338`).

## ForceMode

**Code.** `handle_force_charge`, `handle_force_discharge`,
`handle_hold_battery_soc`, `handle_set_self_consumption`, `handle_restore_normal`
and their expiry callbacks, `_cancel_all_force_timers`, the command generation,
`persist_force_mode_state` and `restore_force_mode_from_persistence`, in the
FoxESS branch.

**Correspondence.** A handler is cut at its awaits. `ForceCommand`, `HoldCommand`,
`SelfCommand` and `RestoreCommand` are the segment before the inverter write (they
take a generation, cancel timers and queue the write); `ForceWritten`,
`RestoreConfirmed`, `RestoreSuperseded`, `RestoreSwallowed`, `RestoreRefused` and
the others are the segment after it, one for each outcome; `SaveCompletes` is the
end of a save. `armed[m]` is the timer a cancel would reach; when it falls due
(`BecomesDue`) its callback moves to `loose`, where no cancel reaches it, and runs
later (`ExpiryRestores`, `ExpirySkipped`). A timer overwritten without a cancel
goes there too. `Restart` forgets memory and may or may not apply the writes in
flight; `Resume*` are the branches of the start-up recovery.

**Abstractions.** No clock: a pending timer may fall due at any moment, and a
stored session may or may not have expired. Powers, durations, reserve levels and
tariffs are left out. Gates that turn a call away before it changes state are no
step. Saves complete in call order, as the store does them. A restore sends a push
notification between clearing the flags and its save (`:37167`); that await is left out, so the
two are one step. `InOrder` tells a
Modbus link (one lock, FIFO) from overlapping cloud calls; `Outcomes` are what a
write may do.

**Runs**

| Run | Question | Bounds | Distinct states |
|---|---|---|---|
| `force_overlap` | Do overlapping commands, expiries and restarts leave a mode that nobody ends, or an older command in effect (`ForceModeIsTimed`; `LastCommandWins`, which excepts what follows once both force modes wait for the inverter together)? Does the inverter do what the flags say (`InverterFollowsFlags`), and does every session end (`ForceModeEnds`)? | charge, discharge, restore; 4 generations, 3 writes in flight, restart, fairness | 106 051 |
| `force_disk` | With hold SoC too: is the stored record at rest a session that runs, and has every session that runs one, a force mode first? (`DiskMatchesMemory`) | all five commands, 3 generations, 2 in flight | 2 025 614 |
| `force_failing` | Whatever writes do (succeed, refuse, raise), are charge and discharge never both on? (`MutualExclusion`, `TypeOK`) | all five, all outcomes, 3 generations, one at a time, restart | 356 834 |
| `force_refused` | Is a session whose expiry failed kept on disk for the next start, and dropped only once the inverter is normal? (`StrandedSessionIsOnDisk`, `RecordDroppedOnlyWhenNormal`) | charge, discharge, restore; ok or refused, 4 generations, one at a time, restart | 9 665 |

*Why the bounds are enough.* A generation is a command; every race found involves
two or three (a command, the one that overtakes it, and an old timer), so three
or four generations with two or three writes in flight contain all of them. Larger
instances found nothing new: `force_overlap` without liveness but with self consumption
(815 230 states), with 5 generations (6.8 M), and all five commands with restarts (6.8 M).

*What the bounds and premises leave out.* With all five commands and four
generations, `ForceModeIsTimed` fails through a due hold callback that is delayed
past three later commands; `DiskMatchesMemory` with restarts fails when the
start-up's clearing save overtakes a newer snapshot; `InverterFollowsFlags` fails
with self consumption, whose preliminary restore may be superseded and still writes
"normal" (a hazard at `__init__.py:38888`); `StrandedSessionIsOnDisk` fails when
writes raise. These cases are hazards, not covered by the properties above.

*Fairness* (`FairSpec`): the event loop runs what is ready (`CallbackRuns`,
`Resume`), a timer falls due (`BecomesDue`), and every inverter or store call
returns (`WriteCompletes`, `SaveCompletes`; they carry timeouts). Commands and
restarts are not fair.

**Proofs** (`ForceModeProofs.tla`, for every number of generations, overlaps,
expiries and restarts)

* `TypeCorrect`: `Spec => []TypeOK`, with every outcome.
* `ForceModesAreTimed`: `[]ForceModeIsTimed`, assuming an in-order link, writes that
  succeed, and no hold SoC; the three premises are needed (see the disagreements).
  `ForceModeIsTimed` speaks of rest only and is not inductive. `TimedInvariant` adds
  what holds in between: waiting handlers hold increasing generations and no callback
  is from the future (`GenerationsInOrder`); once the newest command has armed its
  timer no older one is still writing (`NewestArmsLast`); a mode that is on, or on its
  way, has the newest command still writing or a live callback of an active mode
  (`ForceIsWatched`); while Home Assistant is down nothing is pending
  (`DownIsEmpty`). The lemmas about queues (`RemoveAtOne`, `OrderedTail`,
  `OrderedAppend`) carry the first part; there is one preservation lemma for each
  kind of step.

*At rest.* All four properties speak of moments when no
handler is at work, and none is inductive: each is extended by what the handlers on
their way are about to do.

* `ForceModesExclude`: `[]MutualExclusion`, whatever the writes do, with one write in
  flight at a time (`MaxInFlight = 1`; `MCForceModeBothOn` shows two). `ExclusionFacts`: a
  force command that waits excludes the opposite mode as well, on or waiting.
* `RecordMatchesMemory`: `[]DiskMatchesMemory`, all five commands, where writes succeed and
  nothing restarts. Either the record matches, or some handler will still write it
  (`WillSave`: a save under way, a force or hold write, or the newest restore); only a
  force mode whose write is on its way is on without an expiry (`UntimedIsForced`); and no
  handler is a remnant of a recovery (`NoRecovery`).
* `LastCommandHolds`: `LastCommandWins`, in-order link, writes that succeed, no hold.
  Its first part, the last command's flag is on, has no exception: `LastFacts` says what
  each kind of last command has reached so far (a restore waits or no force is on or
  waiting; self consumption is on or a handler will engage it). Its second, no other
  force flag is on, holds from a rest with one force flag at most, or a start, until both
  modes wait for the inverter together (`BothWrite`): `OnlyLastFacts` says that a mode
  that is on or waiting (`Claims`) is the last asked for, or that a restore after it is on
  its way; `FlagSteps` sorts the steps by what they do to flags and writes, so that each
  class is looked at once.
* `InverterIsInForce`: `[]InverterFollowsFlags`, the same without self consumption, whose
  superseded preliminary restore writes "normal" over a force mode. `HwFacts` relates the
  inverter to the write of the newest generation.

*Over refusals and restarts*, for any number of refused
writes, retries and restarts, with force and restore commands, one write at a time, and
no write that raises (`MCForceModeSwallowed` shows why):

* `StrandedSessionsAreOnDisk`: `[]StrandedSessionIsOnDisk`.
* `RecordOutlivesSession`: `RecordDroppedOnlyWhenNormal`.

Both follow from `Recoverable`. Its core is `SoloFacts`: a force command or the cleanup of
an expired session waits alone, bears the newest generation, and no callback of that
generation is alive, so that no save and no old timer gets between it and its record;
another attempt comes due only when nobody is at work. `StoredFacts` then says who holds
the session: the record, a save, or a waiting force write; and that a save that follows
the last flag finds the inverter normal.

## EvOwnership

**Code.** `automations/ev_ownership.py` with the parts of
`observed_tesla_sessions.py`, `ev_charging_planner.py` and `actions.py` that call
it, for one loadpoint.

**Correspondence.** The module's functions are synchronous, so each is one step:
`Start`, `StartRefused`, `UserStops`, `SetPolicy`, `Persist`, `Restart`. A stop that
PowerSync orders is recorded twice, as begun (with success false) and as answered
(`StopBegins`, `StopEnds`). The tracker and the planner poll telemetry
(`TrackerSeesCharging`, `TrackerSeesIdle`, `PlannerSeesCharging`). `lease`, `cmd`,
`held`, `recovered` and `disk` are the fields of the runtime state and its snapshot;
`idle` is the tracker's counter. The car (who charges, when an accepted stop takes
effect), its telemetry and the cable are the environment and are marked external in
the map. `owned` and `promised` are history variables: until when the code's own
evidence of a charge counts, and until when a hold already on disk must last.

**Abstractions.** Time is counted in ticks of about 45 seconds where the settling
time (90 s) matters, with the 15-minute durations (confirmation, age of evidence,
stop hold) scaled down to a few ticks that keep their order: `Settle` < `Confirm`,
and telemetry plus stop latency shorter than the confirmation time. Left out: the
anonymous loadpoint that overlaps every VIN, session identities, resumable quick
controls, Boost, a policy set again to what it was, the release of a lease by a stop of
untracked charging whoever owns it, the handover between two solar modes inside a session.

**Runs**

| Run | Question | Bounds | Distinct states |
|---|---|---|---|
| `own_stays` | Can a charge of its own become a lasting external lease? (`OwnChargingStaysOwn`) | settling 2, confirmation and evidence 3, latency and lag 1, time 5, one restart, outside charges, yield policy | 1 827 405 |
| `own_lasts` | Do external leases last exactly as long as the policy says (`ExternalLasts`, `OverrideKeepsControl`) and provisional ones lapse (`SettlingLapses`)? | both policies, changed at any time, refused starts, outside charges, all modes, time 6 | 212 610 |
| `own_hold` | Does a saved stop hold outlive restarts? (`SavedHoldHolds`) | two restarts, hold 2, time 4 | 454 981 |

*Why the bounds are enough.* Each hazard is about the order of one stop, one sample,
one start and one restart against the end of one window; the time bound lets every
window open, expire and be followed by another poll (`SettlingLapses` needs two polls
after the window), and the durations are the smallest that keep the windows distinct.
`own_stays` with both policies holds too (5.0 M states). These runs have no liveness
and no fairness: `SettlingLapses` is bounded by the polls the code makes, which the
model's clock waits for (`Tick`).

**Proofs** (`EvOwnershipProofs.tla`, for all durations, modes, policies and events)

* `OverrideControl`: `[]OverrideKeepsControl`. Not inductive alone: a provisional
  lease is recognised by its end being positive, so the end of a window must be, and
  that follows from every recorded command bearing a positive time and every policy
  being known; `ControlInvariant` says this.
* `ExternalStands`: `ExternalLasts`. The steps that touch a sticky lease are examined
  one by one; a restart is excluded because it changes a counter that is a natural
  number (`RestartsAreCounted`).
* `HoldStands`: `SavedHoldHolds`. `HoldInvariant` relates the three copies of the hold:
  promised is at most what memory holds, which is at most `now + Hold`, and what is
  on disk is what was promised. `OnlyStartsStart` shows that only `Start` can produce
  the step the property speaks of.
* `TypeCorrect`: `Spec => []TypeOK`.
* `SettlingEnds`: `[]SettlingLapses`, where the tracker follows the car (`Tracked`;
  `MCEvOwnershipUntracked` is the other case). `ClockFacts`: nothing lies in the future,
  telemetry lags by at most `Lag`. `LapseFacts`: while a provisional lease settles the sample
  is newer than the stop, so an idle car is counted; one poll past the window has counted
  it once, and the second ends it.
* `OwnChargesStayOwn`: `OwnChargingStaysOwn`, from `OwnPremises`: `Latency + Lag <= Settle`,
  `Latency + Lag < Confirm`, no event but outside charges, external charging yielded to,
  at most one restart. A charge of its own that is seen or goes on without a lease
  (`Stray`) is covered, by fresh restart evidence or by a stop that is open or settles,
  to which the car and its telemetry answer in time (`OwnIsCovered`); `SavedFacts` and
  `OwnedFacts` carry that over the one restart. Each premise is needed:
  `MCEvOwnershipRefused` and the rows after it drop one at a time. The override policy is
  excluded because switching to it while a stop settles forgets the stop; TLC finds that
  with a latency above 1, and finds nothing at 1 (the instance above).

## EvSessions

**Code.** `_action_start_ev_charging_dynamic`, `_action_stop_ev_charging_dynamic`,
`stop_solar_surplus_ev_charging`, `record_manual_ev_charging_session` and the update
loop's decision to stop, in `automations/actions.py`; the lock and file of
`ChargingSessionManager`; the takeover rules of `ev_ownership.py`.

**Correspondence.** An operation is a task with its local variables in `op[o]`; an
action is what it does between two awaits that suspend. Look-ups that never suspend
split nothing. The code compares sessions and dictionaries by identity; here they bear
the name of the operation that created them, so that "the dictionary fetched before
the await" and "the one in use now" can differ (`op[o].dict`, `entry`). The history
lock is an `asyncio.Lock`, a FIFO queue; `Runnable` gives its holder precedence where
the code would not suspend. The recheck of ownership before a start records its
session is modelled as the Tesla and generic chargers have it; OCPP and some others
skip it. `saw` serves the properties only.

**Abstractions.** One loadpoint; rates, charge limits, the choice among vehicles, the
chargers themselves and the order in which physical commands reach them are left out.

**Runs**

| Run | Question | Bounds | Distinct states |
|---|---|---|---|
| `ev_shared` | Do lease, session and timer stay together when two starts, two stops and the toggle overlap (`LeaseIsSessions`, `OneUpdateLoop`)? Does the toggle end only its own (`ToggleSparesOthers`)? Is the start lock always freed (`LockIsFreed`)? The same when a manual session is restored at start-up while stops arrive. | 2 starts, 2 stops, a toggle, a restoration, another history writer; 3 owner modes (solar, automated solar, manual), all takeover permissions | 370 968 |

*Why the bounds are enough.* The races need a session, its replacement, and two stops
that found the same one; a third start adds only a repetition. The owner modes of
`ev_shared` are one of each family that the takeover rules tell apart.

*Premise.* `LeaseIsSessions` and `OneUpdateLoop` do not hold when a history writer of
another vehicle or a restoration is combined with starts: `ApartSafely` keeps them apart
(`Apart`), and the rows `MCEvSessionsVanish` and `MCEvSessionsRestore` show why.

*Fairness* (`FairSpec`): files and chargers answer (`HistoryAnswers` and the second
segments of starts and stops), and a stop the update loop has decided on proceeds.
Starting an operation is not fair.

**Proofs** (`EvSessionsProofs.tla`, for any number of starts, stops, toggles and other
writers, all owner modes and permissions)

* `TypeCorrect`: `Spec => []TypeOK`, restorations next to starts included.
* `SessionHasItsLease`: `[]LeaseIsSessions`; `SessionHasItsLoop`: `[]OneUpdateLoop`;
  `ToggleEndsItsOwn`: `ToggleSparesOthers`. All three under `ApartSafely`, with at most one
  manual session to restore (`Restores \subseteq {r}`, as the snapshot of one loadpoint has;
  with two, the second drops the first one's dictionary).

A task that has begun is never idle again (`NeverIdleAgain`), so a behaviour of
`ApartSafely` is in one of two cases, and `ApartFacts` has an invariant for each.
*Starts* (`StartFacts`): whoever is between the check of a start, or of the toggle, and its
end holds the start lock, and after its teardown no session is stored (`LockFacts`); those
in the history queue all wait to end one session, which is the stored one until the
first of them has ended it, after which they find neither session nor dictionary
(`QueueFacts`); a stored session is known to the history or its start waits for that
alone (`SessionFacts`). The toggle's session may be handed over in place only by a start,
which needs the lock the toggle holds: that is why it ends Solar Surplus's own.
*Restorations* (`RestoredFacts`): there is one dictionary and one session, the
restoration's, and every waiting stop waits for that one. `LookUpKeeps`, `EndedKeeps`,
`ConfirmedKeeps`, `TrackedKeeps` and `PlainKeeps` (and the `Restored...` lemmas) treat one
kind of step each; `QueueJoined` and `QueueLeft` are about the queue alone.

## SungrowExport and RestorableSetting

**Code.** `SungrowEnergyCoordinator`'s `force_grid_export`, `restore_normal`, its
rollback, the hold and the curtailment (`coordinator.py` 7122-7545), the recovery that
its first poll starts, and `handle_sungrow_curtailment` with its state
(`__init__.py` 29230-29420).

**Correspondence.** Every operation holds `_modbus_lock` from its first to its last
register write, so `op` is the one operation under way and a step is one write or one
save of the record (`ModeStep`, `RestoreLimitStep`, `CapStep`, the three `Clear*`,
`ExportWritesCap`, `ExportWritesLimit`, `ExportForces`, `CurtailWrites`). A write that is
answered with a failure may have taken effect (`Written`). `Answer` is what the caller
does with the result. `waiting` are the handler's tasks that have decided
(`HandlerDecides`) and wait for the lock (`CurtailBegins`, `UncurtailBegins`), so what they
decided may be stale. `Restart` keeps the record and the registers only. `wish`
serves the properties: what the user has set.

**Abstraction.** Powers are reduced to which of four limits is in the register (off,
the user's, zero, the export target). The plan, the price and surplus charging
change at any time. Premises, each a constant: export windows and curtailment do not
meet (`Overlap`), a restore for surplus charging does not fail (`HeadroomFails`), the user
changes nothing while a baseline is held (`UserWaits`), the handler does not act before
the record has been read (`Early`), and a poll has seen the limit that is captured (`Lag`).
Each is needed: the disagreements below turn them off. A poll is one step here; in the
code it lets go of the lock (`coordinator.py:6818`) and awaits saves (`:6982`, `:7058`)
before its data are published, so data may be published that are older than a write
in between, which counts under `Lag`. A poll's recovery that fails publishes here what
`RestoreLimit` has seen, in the code what was read before it. `HandlerDecides` reads the
curtailment state at the decision; the code reads it before its awaits
(`__init__.py:29227`), and besides the handler only the options flow changes it.

`RestorableSetting` is the abstract specification: a setting is borrowed, used, and
given back only when the user's value is there again. `GivenBack` says that the
export-limit register, with the record and the held baseline both counting as a loan,
implements it (`INSTANCE RestorableSetting WITH value <- limit, borrowed <- Borrowed`).

| Run | Question | Bounds | Distinct states |
|---|---|---|---|
| `sungrow_restores` | Does the record lead back to the user's limit after a crash at any moment (`WriteAhead`)? Is a loan ended only when the limit is back (`GivenBack`), and is it in the end, with mode and discharge limit (`Released`)? Is the limit zero where the handler takes it to be (`CurtailedIsCurtailed`), and does curtailment take hold (`Curtails`)? | 2 failures or changes, at most 1 of them a change or a call for headroom, 1 restart | 173 564 |

*Why the bounds are enough.* The longest chain in the code is a failed export, a failed
rollback, and a restore; a restart may fall between any two of their writes.

*Fairness.* Writes and saves have timeouts (`OpStep`); the poll, the optimiser and the
handler run periodically but find the lock taken now and then, and the lock is an
`asyncio.Lock`, first come first served: strong fairness.

**Proofs** (`SungrowExportProofs.tla`, for every number of failures, restarts and
changes)

* `TypeCorrect`: `Spec => []TypeOK`, without a premise. It needs to know that nothing is
  captured before the first poll (`UnseenIsQuiet`, `ReadyIsRecovered`).
* `RecordLeadsBack`: `[]WriteAhead`, and `LoanIsRestorable`: the export limit implements
  `RestorableSetting`. Both assume `UserWaits`, no `Early` and no `Lag`, and hold whether or
  not owners overlap and headroom restores fail: sharing one baseline confuses the
  owners (`MCSungrowExportOverlap`) but does not lose the user's limit.
  `WriteAhead` is not inductive. `LoanFacts` adds that the stored and the held baseline
  are the user's limit (`BaselineIsWish`); that what is captured when neither exists is it,
  too (`SeenIsWish`); that a record without a held baseline waits for the recovery
  (`UnheldIsRecovering`); and what an operation that is half done may rely on: the record
  while it writes, the user's limit in the register once it is about to clear the record
  without a failed write (`OpIsSound`). `UnborrowedIsUsers` says what the refinement gives:
  without a baseline or a record the limit is the user's own. `LoanStep` has one case per
  action, `LoanRefines` maps each action to borrowing, using, giving back, choosing, or a
  stutter.
* `CurtailmentIsInForce`: `[]CurtailedIsCurtailed`, from `KeptApart` (no `Overlap`, no
  `HeadroomFails`, no `Early`: the other premises of the passing run). `CurtailFacts`: until the
  recovery is over only the poll acts; each operation is its owner's; and while the site
  counts as curtailed the loan is curtailment's and the limit zero, but for a restore
  under way.

## CapabilityProbe

**Code.** `automations/ev_capability_refresh.py`: `request` and the task it creates, the
passive and the waking phase, the charge of last resort with its pending mark, start,
confirmation, measurement and stop, recovery, cancellation and persistence.

**Correspondence.** `Jobs` are the planner's requests and the tasks that come of them;
`at[j]` is the await where a job is, and an action is named after it. `rec` is the
episode's entry in memory, `disk` the saved one: a task that awaits `_persist` finds it
saved at its next step. `lease` is the loadpoint's owner; other owners come and go
(`OtherClaims`, `OtherCharges`, `OtherEnds`). A start that the car has accepted takes effect
later (`coming`, `CarBegins`). `started` counts the episode's accepted starts.

**Mishaps.** `Happens` lists what may go wrong, and `mishaps` what has; a property names
the ones it excepts. `OneStart` excepts a lost answer to the start;
`ChargeIsRecorded` a car that begins later than the probe waits, a lost answer, and a recovery
without a capability or a measurement; `SparesOthers` a claim while the probe's stop is
under way; `ProbeChargeEnds` every mishap but a late claim, each being shown to be needed. An exception
out of the compensating stop in the probe's `finally` is left out.

| Run | Question | Bounds | Distinct states |
|---|---|---|---|
| `probe` | Is the car started at most once per episode (`OneStart`)? Is a charge the probe began on disk (`ChargeIsRecorded`) and ended (`ProbeChargeEnds`)? Does the probe neither take nor stop what is somebody else's (`SparesOthers`)? | one job, 2 claims of others, 2 restarts, all mishaps | 30 833 |

*Why the bounds are enough.* A second restart meets the recovery that the first one
caused; a second claim follows the end of a first. Two jobs at once are a
disagreement (`MCCapabilityProbeRounds`), not a bound.

*Fairness.* The planner's rounds come every 30 s (`Request`) and what a task awaits returns
or times out (`Task`).

**Proofs** (`CapabilityProbeProofs.tla`, for any number of claims and restarts, with every
mishap)

* `TypeCorrect`: `Spec => []TypeOK`, for any number of jobs.
* With one round at a time (`Jobs = {k}`, see `MCCapabilityProbeRounds`): `AtMostOneStart`
  (`[]OneStart`), `ProbeChargeOnDisk` (`[]ChargeIsRecorded`), `OthersAreSpared` (`SparesOthers`).

`ProbeFacts` is the invariant: what the record says at each await (`RecordFacts`); whose
lease it can be (`LeaseFacts`); once the car was started the record in memory *and* the
one on disk keep it from being started again (`StartFacts`), so that a restart between
two saves changes nothing; and a charge of the probe's is owed a look in both
(`ChargeFacts`).

## OffGrid

**Code.** `PowerwallCurtailmentFallback` and its two drivers: the optimiser's tick
(`optimization/coordinator.py` 11659-11697, 12298-12348, start-up 5689-5715) and the
price check (`__init__.py` 25248-25295, 29684-29875), with the status and the off-grid
view a user reads and calls.

**Correspondence.** `active`, `session`, `used`, `rolled` are the fallback's fields; `opt` and
`at[c]` are the awaits where the optimiser and each price check are. `Tick`, `OptAnswer`,
`Act` and `Start` are the optimiser under `_execute_lock`; `Check`, `Posted` and `CheckAnswer` a
price check. `Activate` and `Release` take as parameters what their caller does with each
result. `Pass` is a unit of time between two rounds of the driver, five minutes,
`Midnight` the next day; `today` is how long the fallback has kept the contactor open.
Reading the status resets a total of yesterday's, as in the code (`LookAtCap`).

**Abstraction.** The state of charge is high, full or below the floor. One toggle of the
optimiser per behaviour is a bound. Left out: checks begun while the optimiser is
enabled, an activation that finds the option switched off while a session is active, and the path for an AC inverter that curtails itself. A restart in price mode
leaves the contactor open: nothing releases it until prices change.

| Run | Question | Bounds | Distinct states |
|---|---|---|---|
| `offgrid` | Do session and contactor agree (`SessionOwnsContactor`), is the day's cap kept (`DailyCapHolds`), is the user's contactor left alone (`OnlyOwnReleased`)? Does the house come back when nothing asks for it (`ComesBack`), below the floor (`FloorReconnects`) and after a restart (`RestartReconnects`)? | cap 1, durations up to 4, one midnight, one restart, one refused reconnect, 2 changes, any one kind of mishap | 221 989 |

*Why the bounds are enough.* A cap of one unit is passed within two rounds; a midnight
and a refusal on top of it reach three; four is where durations saturate. Each mishap
is looked at alone, together with a restart; the pairs that matter are disagreements.

*Fairness.* Commands return, rounds come (weak); time passes again and again although
commands interrupt it (strong, `Pass`).

**Proofs** (`OffGridProofs.tla`, for every cap, number of days, restarts, refusals and
changes, with every mishap)

* `TypeCorrect`: `Spec => []TypeOK`. `SessionAndContactor`: `[]SessionOwnsContactor`.
* `DailyCap`: `[]DailyCapHolds`. `CapFacts`: the optimiser finishes a tick before the next
  round, an open contactor has a session, and the day's time is what the fallback has
  counted but for the round under way and one for each refused reconnect.
* `UsersContactorStays`: `OnlyOwnReleased`, with at most one price check alive. `OwnFacts`: an
  active session has a contactor of its own and a reconnect is under way only for an
  active session. With two checks one may release while the other's reconnect is on its
  way, which then finds a contactor the user has opened.

## TeslaForce

**Code.** The Tesla branch of `handle_force_charge`, `handle_force_discharge`,
`handle_restore_normal` and its retries, `_schedule_tesla_restore_retry`, the reserve service,
`persist_force_mode_state`, `restore_force_mode_from_persistence` and the record of an unfinished
restore, in `__init__.py`.

**Correspondence.** A command writes four or five settings of the gateway, one request
after another: `hw` is what they are, `own` what the user set, `sess` the two session
dictionaries with the baseline they saved. Each handler in flight has a slot in `op`
with the request it awaits (`at`), whether it is still the newest (`cur`), and its local
variables; handlers run side by side, and only reserve writes exclude each other
(`Locked`). `LookAnswer`, `BaselineAnswer`, `ChargeAnswer`, `DischargeAnswer`, `PulseAnswer`,
`RestoreAnswer`, `NoteAnswer` and `ReserveAnswer` take the answer of a request (taken,
refused, or taken although it looks refused) and do all that the code does before the
next. `Fire` is an expiry or the next retry; `Restart` and `Startup` are the recovery.

**Abstraction.** Values are reduced to the ones restore tells apart; the reserve is the
user's, a newer one of the user's, zero, full, or the pulse's. Left out: the hold of the
state of charge, monitoring mode, demand protection, several sites, providers whose tariff
is synchronised, the charge command repeated after 60 s, the baseline that the optimiser
takes of the reserve at its start, and a reserve command that works without its
confirmation. A reserve command lands at once where it is answered; the code holds the
reserve lock from its request on (`:32526`). Saving takes no time, except for the record of an unfinished restore, and the start-up
task runs before other commands. Drivers (`dispatch.py`, `tesla_grid_control.py`)
appear as the answers they give.

**Mishaps** are named as in `CapabilityProbe`. One kind per behaviour, and two
failures, mishaps included.

| Run | Question | Bounds | Distinct states |
|---|---|---|---|
| `tesla_force` | Is what a session saved the user's (`BaselineIsUsers`), and the gateway again when no session is left (`NormalAgain`)? Until then, is it on the disk (`UnfinishedIsOnDisk`)? Does a reserve command given meanwhile stand (`ReserveStands`)? Is a running session what the gateway does (`RunningIsForced`)? Does a superseded restore end without ending a session or touching the timers, its note and the start-up's expiry apart (`NewerSurvives`), and does every session end (`SessionEnds`)? | two handlers in flight, two force commands, one reserve command, one retry (of 3), one restart, 2 failures of which one kind of mishap; a user whose every setting a session changes | 520 254 |

*Why the bounds are enough.* Every mishap involves two handlers, or one and a restart.
A second retry repeats the first. The instance with two users (`TwoOwns`, 1.2 M states)
holds too; one user whose settings differ from every forced one tells all
overwritten settings apart. With `MaxMishaps = 2` the invariants also hold for three
handlers in flight (2.5 M states) and for three commands (7.3 M), and so do the inductive
invariants named below.

*Fairness.* A request is answered or times out, and the reserve lock is first come
first served (strong, per handler); a timer fires.

**Premises of the properties.** Several mishaps are disagreements of their own (below), and
a property excepts those that break it. `Plain` collects them for `BaselineIsUsers` and
`NormalAgain`: no force command is overlapped by a restore, no crash, no unread setting, no
request that raises, no look at settings another command is forcing (`looked_late`), no
failed restore at the start that is forgotten (`forgotten`), and no restart together with a
switch of direction or an overtaken hand-off. Everything else (refused, lost and failed
requests, superseded handlers, retries, restarts, reserve commands) may happen any number
of times.

**Proved** (`TeslaForceProofs.tla`), for any number of handlers in flight, commands, reserve
commands, retries, failures and restarts, every user's settings, and every combination of
mishaps:

* `TypeCorrect`: `[]TypeOK`. `TypeOK` is made stronger by `Placed`: where each kind of
  handler can be, and that it has the setting its request is about to write.
* `BaselineCorrect`: `[]BaselineIsUsers`, and `RestoreCorrect`: `[]NormalAgain`. Both need
  one inductive invariant, `Inv`, checked by TLC on the instances above before it was
  proved: types; `Shape` (one handler at most is current, one write of the reserve in
  flight, and the start-up code acts alone on what it has read); `Flags` (what each
  mishap not yet recorded rules out); `Lane` (without overlaps, one handler
  writes at a time, and the newest one is a force command, a restore, or a
  superseded handler that writes nothing more); and under `Plain` the four parts
  of `Good`: `Kept` (what was saved, by a session, a record or a handler, is the user's),
  `Covered` (a setting of the gateway that is not the user's is one a session, a record
  or a handler will write back), `Progress` (a restore that has passed a setting has
  brought it back) and `Recording` (what a handler will write down).
* `NewerSurvivesCorrect`: `NewerSurvives`, from `Types` alone: a restore that has been
  superseded ends without ending a session, and leaves the timers. Two exceptions are part
  of the formula: one that ends with the note of its failure arms its retry, for the
  newer command's generation (`:36760`), and that retry does end the newer session (see the
  disagreements); the start-up code arms the expiry of the session it has re-issued
  under the generation of that moment (`:31670`).

The other three (`TeslaForceRestProofs.tla`) speak of fewer variables, so their proofs first sort the steps into a few
classes, by what they change of those (`StepsAre`: a force command goes on, ends, lapses,
cleans up or runs; a restore goes on, ends or is written down as failed; one of them
starts; a bystander moves; a timer lapses; Home Assistant restarts). Each adds its own
invariant to `Inv`:

* `RunningCorrect`: `[]RunningIsForced`, from `Waited` (only after a restart does the
  start-up code wait for a handler, and for none that retries) and `Timed`: while a handler
  writes no timer is armed (`NoTimers`), a force command past its grid-charging write or its
  tariff has landed it (`HasForced`), so that an expiry alone means the gateway is forced
  (`Expires`).
* `UnfinishedCorrect`: `[]UnfinishedIsOnDisk`, from `Watched`: whoever may have to write
  the user's tariff back finds it known (`TariffKnown`), a restore that has not failed has
  written it before any later setting (`TariffBack`), and a tariff that is not the user's is
  on the disk or in the hands of a force command (`TariffNoted`). Without `TariffKnown` a
  restore could skip the tariff and end as a success.
* `ReserveCorrect`: `[]ReserveStands`, from `Newer` (a command that a reserve command has
  come after is the newest still, and the only session is its own) and `Standing`: the
  reserve command is still to be answered, or its value is in place and nobody holds the
  lock (`NewStands`); and what was spared is marked in memory and on the disk, so that every
  restore after it skips the reserve or has none to write (`Marked`).

The constants' assumptions are their types, one slot at least, and `MaxRetries > 0`
(`FailuresAreRetried`; the code gives up at `restore_retry_count >= 3`, `__init__.py:36744`):
without a retry a failed restore would leave an armed expiry over a gateway that is not
forced.

## Disagreements between code and words

Each row is a configuration TLC refutes; it finds the trace in seconds or a few minutes. A row that
names a configuration file can be re-run as it stands; the others change the
constants of the named one as described and check the one property. The premises of
the passing runs (which outcomes, mishaps and events are excepted) are the ones these rows
show to be necessary.

| Configuration | Property | What the code does | What is said |
|---|---|---|---|
| `MCForceModeBothOn` | `MutualExclusion` | A completed write turns its mode on without asking whether it is still the newest (`__init__.py:33460`) | "Mutual exclusion + baseline inheritance" (`:33288`, `:35082`) |
| the same | `OnlyLastIsShown` | The older force mode's flag comes on again beside the last command's, and both stay | same |
| the same | `RecordIsLast` | With both on the record is the charge, whichever came last (`:30859`) | same |
| the same with `Commands = {"charge", "self"}`, `MaxGen = 3` | `SelfIsAlone` | A self-consumption command whose restore was superseded goes on and engages beside the newer charge (`:38888`, `:38918`) | `:36725` "Restore normal superseded by newer force command during %s; leaving active force state untouched" |
| `MCForceModeCloud` | `ForceModeIsTimed` | The generation is read when the command starts (`:33281`), so out-of-order cloud answers leave the mode with a dead timer | `:30390` "Each auto-restore callback captures its generation at the time the timer is scheduled" |
| `MCForceModeHold` | `HoldIsTimed` | A force command cancels the hold's timer and leaves the hold on (`:30461`) | `:38533` "Hold SoC timer superseded by a newer user control - clearing stale tracking without restoring" |
| `MCForceModeSwallowed` | `RecordDroppedOnlyWhenNormal` | Exceptions of the start-up cleanup are swallowed (`:37182`) and the record is erased | `:31106` "Retry a failed expired FoxESS cleanup without losing ownership." |
| `MCForceModeRefused` with `Commands = {"hold"}` | `RecordDroppedOnlyWhenNormal` | The record of a hold is erased after a refused cleanup (`:31369`) | `:31366` logs "Expired Hold SoC cleanup remains stored for retry" |
| `MCEvOwnershipRefused` | `OwnChargingStaysOwn` | A refused start replaces the record of the stop that is settling; the charge still ending becomes an external lease | `ev_ownership.py:634` "Fresh restart evidence and a still-settling PowerSync command take priority, so delayed Tesla telemetry cannot turn PowerSync's own session into an external lease." |
| `MCEvOwnershipTwoRestarts` | `OwnChargingStaysOwn` | A restart saves empty ownership (`ev_ownership.py:487`), so a second one finds no evidence | same |
| `MCEvOwnershipRefused` with `Happens = {}`, `Latency = 2`, `Lag = 2` | `OwnChargingStaysOwn` | A sample older than the stop is disregarded for 90 s only (`ev_ownership.py:748`) | same |
| `MCEvOwnershipRefused` with `Happens = {"slow_stop"}` | `OwnChargingStaysOwn` | The stop is recorded as unsuccessful before the call (`actions.py:14015`); telemetry during it counts as external | same |
| `MCEvOwnershipRefused` with `Happens = {"user_stop"}` | `OwnChargingStaysOwn` | A user's stop is recorded as "release", which has no settling time (`actions.py:14008`) | same |
| `MCEvOwnershipConfirmed` | `ConfirmedStopIsOver` | A confirmed stop still counts as open (`ev_ownership.py:720`) | `src/tests/test_ev_ownership_runtime.py:678` |
| `MCEvOwnershipUntracked` | `SettlingLapses` | Where no tracker polls, a provisional lease never ends (`ev_charging_planner.py:8184`) | `src/tests/test_observed_tesla_sessions.py:223`: "A settled PowerSync stop must not poison the rest of the plug session." |
| `MCEvSessionsVanish` | `ReplacementIsLeft` | A stop fetches the entry's dictionary, awaits the history and then drops whichever dictionary is in use, with a session that was started meanwhile; its timer keeps running (`actions.py:14021`) | `actions.py:13994` logs that the session "was replaced during teardown; leaving the replacement untouched" |
| `MCEvSessionsRestore` | `ManualKeepsLease` | A start claims the lease after an await, over a manual session restored meanwhile (`actions.py:13777`) | `actions.py:6465` "Record a user-started EV session so automation modes do not fight it." |
| `MCEvSessionsVanish` with `Others` empty and `Modes = {"scheduled", "manual"}` | `ManualStartStands` | A stop under way ends a session that a manual start has taken over in place (`actions.py:13991`) | `actions.py:12784` "A manual dashboard start is an explicit user request and must be able to restart immediately after a user stop." |
| `MCSungrowExportOverlap` | `CurtailedIsCurtailed` | An export and a curtailment share one baseline: the end of the export drops it, or the export is taken for curtailed | `coordinator.py:7281` "Restoring (i.e. disabling) that limit here left the site exporting …"; `__init__.py:29328` "so re-apply unless PowerSync still owns it" |
| the same | `CurtailmentEndsItsOwn` | The restore of a curtailment lets go of a baseline that an export has taken | same |
| `MCSungrowExportStale` | `GivenBack` | A baseline that could not be saved stays held, and the next export reuses it over a limit the user has changed since (`coordinator.py:7153`) | the promise of `RestorableSetting` |
| `MCSungrowExport` with `HeadroomFails` | `CurtailedIsCurtailed` | The state stays "curtailed" after a failed restore for surplus charging has lifted the limit (`__init__.py:29282`) | `__init__.py:29328` |
| `MCSungrowExport` with `Early`, or with `Lag` | `WriteAhead` | The baseline is captured from published data: after a record that could not be read, or before a poll, that is not the user's limit (`coordinator.py:7404`) | `RestorableSetting` |
| `MCCapabilityProbeRounds` | `OneStart` | Two overlapping rounds both pass the look at the running tasks (`ev_capability_refresh.py:126`) and both start the car | one task per episode in `_tasks` |
| `MCCapabilityProbeRecovery` | `RecoverySparesOwners` | Recovery does not look at the lease again after its await (`ev_capability_refresh.py:457`) | its look at the lease before it |
| `MCCapabilityProbeRounds` with one job | `StartSparesOthers`, `LeaseEnds` | The car is started after an await during which another owner may have claimed (`ev_capability_refresh.py:341`); a probe that fails before the car charges keeps its lease, which only a confirmed probe gives back (`:397`) | `ev_capability_refresh.py:287` "so an external/manual claim cannot be overwritten in the final gap before this probe records its lease" |
| `MCOffGridStranded` | `ComesBackAlways` | A reconnect that fails is reported as a release, and the optimiser forgets the session (`curtailment_fallback.py:329`) | `curtailment_fallback.py`, "reconnect logic only releases what it owned" |
| `MCOffGridOverlap` | `ComesBackAlways` | A price check that ends while another activates finds nothing to release (`curtailment_fallback.py:179`) | same |
| `MCOffGridOwner` | `OnlyOwnEver` | The start-up clean-up, and a session begun on top of the user's, close the user's contactor | same |
| `MCOffGridStranded` with `Happens = {}` | `FloorHolds` | `check_safety` is called by the optimiser only; in price mode the floor does not end a session | the floor of the session |
| `MCTeslaForceOverlap` | `NormalAlways` | A restore that begins between two writes of a force command is overwritten by the later ones (`__init__.py:36110`) | `__init__.py:37708` on superseded handlers |
| the same with `Happens = {"overtaken"}`, `Owns <- TwoOwns` | `ModeAlways` | The hand-off of an older restore lands after a newer command's mode (`__init__.py:37851`) | same |
| the same with `Happens = {"overtaken"}` | `SupersededLeavesTimers` | A restore superseded while it notes its failure (`__init__.py:38302`) arms its retry for the newer command (`:36760`) | `:36773` "Tesla restore retry skipped; superseded by a newer force command" |
| the same with `Happens = {"overtaken", "switched"}`, `MaxMishaps = 2`, `MaxFailures = 3` | `RetrySparesNewer` | That retry passes the look at the generation (`:36771`) and ends the newer session before its expiry | same |
| `MCTeslaForceCrash` | `NormalAlways` | The session is written down after all its writes (`__init__.py:36380`) | `__init__.py:30826` on the unfinished restore |
| the same with `Happens = {"unread"}` | `NormalAlways` | Settings that could not be read are not restored: the reserve stays at 100 or 0, the mode autonomous | `__init__.py:33294` "TRUE pre-force state" |
| the same with `Happens = {"raised"}` | `NormalAlways` | An export-rule request that raises aborts the restore | same |
| the same with `Happens = {"looked_late", "idle"}`, `MaxMishaps = 2`, `MaxCommands = 3` | `NormalAlways` | A command that looks at the grid-charging setting while another session is already writing remembers the forced value (`__init__.py:30670`), and an idle restore writes it later | same |
| the same with `Happens = {"forgotten", "restarted"}`, `MaxMishaps = 2`, `MaxFailures = 4`, `MaxRestarts = 2` | `NormalAlways` | A failed restore at the start is swallowed and counts as done (`__init__.py:31510`), and the record is erased (`:31552`) | `:31590` "cleanup remains stored for retry" |
| `MCTeslaForceReserve` | `ReserveAlways` | A force charge writes its reserve over a newer command of the user's | `__init__.py:36272` |
| the same with `Slots = {1, 2, 3}`, `Happens = {"overlap", "idle", "reserve"}`, `MaxMishaps = 2`, `MaxCommands = 3` | `ReserveAlways` | A superseded force command saves its settings when they are answered (`__init__.py:34329`, `:36106`), and an idle restore writes that reserve over the user's newer one | same |
| `MCTeslaForceSwitched` | `BaselineAlways` | A session that has taken over the other kind's is resumed after a restart with the forced settings as its baseline | `__init__.py:33294` "TRUE pre-force state" |

## What is proved and what is only checked

Proved, for every value of the constants, are the theorems listed under each component:
the type invariants of `ForceMode`, `EvOwnership`, `EvSessions`, `SungrowExport`,
`CapabilityProbe` and `OffGrid`, every safety invariant and every action property without
fairness that the runs of these six check, and that the export limit implements
`RestorableSetting`; of `TeslaForce` the type invariant, its five safety invariants and
`NewerSurvives`. Where a theorem has premises they are assumptions about the
environment (one write in flight, writes that succeed, one round at a time), stated in
its `ASSUME` and satisfied by the instance of the run that checks the same property; the
table above and the paragraphs on bounds say what TLC finds without them.

Some proofs changed a model's form, not its meaning: `CASE` expressions in
`ForceMode.Snapshot`, `TeslaForce.Landed` and in `EvSessions` became `IF` chains, which the provers can expand,
and the disjointness of the calls in `EvSessions` no longer speaks of cardinalities.

Model-checked only are the liveness properties (`ForceModeEnds`, `LockIsFreed`, `Released`, `Curtails`,
`ProbeChargeEnds`, `ComesBack`, `FloorReconnects`, `RestartReconnects`, `SessionEnds`): the
prover handles neither fairness nor ENABLED.

## Plan

In order, the most consequential first. Stateful modules are written without
RECURSIVE operators so that theorems about them are possible.

1. `EvSessions`: the optimiser's EV coordinator as one more kind of operation.
2. `QuotaLedger`, `ExternalLedger`, `PhaseAllocator`: pure algorithms against reference
   definitions over bounded inputs; conservation and saturation at the caps.
3. `Pairing`, `AutomationRound`, `AutoUpdate`.
4. The probe composed with `EvOwnership` instead of a lease of its own.

Abstract specifications worth stating next to `RestorableSetting`: a *timed mode* (off,
on until ended, one owner) that `ForceMode` refines with `active`, generations and
timers mapped to one session; a *lease* (free, held by one owner, taken over only by
rank) that `EvSessions` and `EvOwnership` both refine, and which the probe then uses.
`OffGrid` does not implement `RestorableSetting` (`MCOffGridOwner`).

Theorems next: that `ForceMode` implements a timed mode, and `EvSessions` a lease.

## Not modelled, and why

* *Export envelope and guard*: `NETWORK_EXPORT_ACTIVE_MODE_RELEASED` is False
  (`network_envelope.py:21`), so that the guard observes and never writes.
* *Battery optimiser, load and efficiency estimators*: a linear programme and
  statistics over real numbers; no ordering to explore.
* *Tariff conversion, price sources*: stateless conversion and fetching; the websocket
  client's own thread is listed above.
* *Inverter and battery drivers, Powerwall transport, local dispatch, the grid-charging
  write*: register and protocol I/O with retries. Their outcomes (accepted, refused,
  raised, late, applied without an answer) are inputs of the models.
* *The planner's window search and forecasting*: data, apart from its calls on ownership
  and the probe.
* *Entities, configuration flow, views, front end*: they present state or request the
  operations modelled here.
* *Inside the modelled components*: in `ForceMode` the brand branches other than FoxESS
  (Tesla's has `TeslaForce`) and the optimiser's hardware-only calls; the overlap of the
  anonymous loadpoint in `EvOwnership`; rates and several vehicles at once in
  `EvSessions`; what each newer section lists under its abstraction.
