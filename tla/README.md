# A TLA+ model of the Huawei Solar integration

This directory is a verification development for the Home Assistant integration
`huawei_solar` (`src/`): TLA+ modules for the parts of it where interleavings,
failures and stale state decide correctness, TLC configurations that check them
on small instances, and TLAPS proofs of what can be proved for every instance.

- [1. The system](#1-the-system)
- [2. Modules and how they correspond to the code](#2-modules-and-how-they-correspond-to-the-code)
- [3. What the runs check](#3-what-the-runs-check)
- [4. Where the code and its documentation disagree](#4-where-the-code-and-its-documentation-disagree)
- [5. Bounds](#5-bounds)
- [6. Fairness](#6-fairness)
- [7. Proofs](#7-proofs)
- [8. What is not modelled](#8-what-is-not-modelled)
- [9. Plan](#9-plan)

## 1. The system

One inverter (or a chain of them behind one dongle) answers Modbus requests on
**one physical line**, one at a time, slowly, and not always. Everything below
shares that line. The program is asyncio code: one thread, and control changes
hands only at an `await`, so *the code between two awaits is atomic* and the
hazards are at the awaits.

| Component | State it keeps | Operations | Talks to |
|---|---|---|---|
| **Bus guard** `modbus_guard.py` | a FIFO lock, counters of requests in flight, priority airtime, the gap and depth in force and each device's contribution | `request()` (admit, shed, time out, pace, release), `update_gap`, `update_max_queue_depth`, `remove_source`, `acquire`/`release_endpoint` | everybody who reads or writes a register |
| **Register cache** `register_cache.py` | per register: value, time of the read, adaptive TTL, quality (GOOD / UNCERTAIN / BAD), reason, missed refreshes, since when uncertain; night mode | `filter_stale`, `update`, `record_attempt`, `invalidate`, `invalidate_all`, `merge`/`get`, `set_night_mode` | its coordinator; read by the synchronized power coordinator |
| **Update coordinator** `update_coordinator.py` | cache, `data` (what entities show), timeout counter and back-off cycle, busy transition, verification tasks | `_async_update_data` (the poll) and `_execute_batch`, `verify_write`, `on_connection_lost/restored`, `invalidate_cache` | guard, cache, adaptive controller, night mode, telemetry |
| **Write path** `types.py`, entity platforms, `services.py` | a lock per device | guarded write or sequence, then invalidate, verify, refresh | guard, coordinator |
| **Synchronized power coordinator** `synchronized_power_coordinator.py` | its last composite reading | cache shortcut, dedicated reads under an 18 s deadline, cache-only snapshot | guard, four caches |
| **Keep-alive** `modbus_keepalive.py` | healthy or not | probe every 45 s on the priority lane; lost / restored callbacks | guard, coordinators |
| **Entry lifecycle** `__init__.py` | registries by serial number and endpoint, reference counts | set-up with rollback, unload | all |
| **Night mode** `night_mode.py`, `bus_policy.py` | day/night, dark polls in a row, hold of a peer wake | `evaluate`, `force_day`; the coordinator's `_wake_bus_peers` | coordinator, cache, peers on the bus |
| **Adaptive controller** `adaptive_modbus.py` | learned slots and the firmware they were learned under, dirty flag and generation, learning switch, load regime | `async_load`, `record_request`, `note_*`, `_derive_params`, deferred save, `async_unload`, `stop` | guard, coordinators, storage |
| **Battery health** `battery_health.py`, `battery_health_manager.py` | counters, discharge segments, epochs, baselines, persisted state | `update`, `mark_gap`, `mark_recovery`, resets, save/restore | coordinator data, storage |
| **Services** `services.py` | entries with services, and with each capability; a write lock per device | set up and unload with an entry; validated commands of several registers in one hold of the bus | write path, entries, battery devices |
| **TOU periods** `tou_periods.py`, `text.py` | none / the schedule on the device | parse, validate, edit one slot, read-modify-write | write path |
| Optimizer coordinator, config flow, entities, telemetry, diagnostics | | | |

What is hard about it, and what would make it correct:

- *Guard.* Sixteen or more tasks queue on one lock, any of which may be cancelled
  at either of two awaits inside `__aenter__`. Correct: the lock and the slots
  are given back on every path, nobody is overtaken or forgotten, the queue is
  bounded, the line is paced whatever the parameters do.
- *Cache.* It decides what the user sees when the bus is bad. Correct: a value
  that is trusted is recent; a value is withdrawn for a cause, not by one missed
  poll; a value we know to be wrong (we wrote the register) is never served.
- *Poll.* It may fail in any chunk, be cut off by a deadline, cancelled, or have
  the link reported lost in between. Correct: every register is accounted for
  once, what is published is what the cache trusts, false zeros of energy
  counters stay out, back-off ends when the device answers.
- *Write path.* A write races the poll that is in progress and its own
  verification; its answer may be lost. Correct: the replaced value is not served,
  and in the end the entities show what the device has.

- *Synchronized power.* Parts captured at different instants make one balance.
  Correct: a reading not flagged uncertain is aligned, a fresh value is never
  lost to slow reads of others, a tick is bounded.
- *Entry lifecycle.* A set-up may fail or be cancelled at any await, and be
  retried beside its own unfinished rollback. Correct: every reference is given
  back once, one bus has one guard, nothing of a dead attempt keeps running.
- *Battery health.* Long sequences of legal inputs: counters that restart, registers
  that go missing, calibrations noticed late, pauses of learning, saves that are older
  than the state. Correct: no measurement spans a boundary, energy is counted
  once, a baseline belongs to one charge ceiling.
- *Night mode.* Detectors of several inverters wake each other over the bus.
  Correct: a woken one stays awake for its hold, and at night all sleep in the end.
- *Adaptive control.* A save runs while polls go on learning; unloads, roll-backs and
  crashes cut it off. Correct: clean means saved, an unload loses nothing, two firmware versions
  never count alike.
- *Services and TOU periods.* Commands of several registers, from calls, buttons and
  editors at once, beside entries that come and go. Correct: commands do not interleave, the
  last one decides, an edit undoes no other edit, a service stays as long as an entry provides it.

`PROJECT.json` lists the components with their status, and every hazard at its
line with the properties that cover it.

## 2. Modules and how they correspond to the code

```
 CacheContract ----- what a cache promises, without its clock
   ^        ^
   |        +--- RegisterCache    (refines it: INSTANCE ... WITH value, status)
   |               ^--- RegisterCacheProofs
   +-- PollCycle                  (EXTENDS it: the poll, over the contract)
          +-- WritePath           (EXTENDS it: device, writer, verifier + the poll)
                 ^--- WritePathProofs    (the poll too)

 ModbusGuard <-- ModbusGuardProofs
 SyncPower   <-- SyncPowerProofs   one composite reading over caches that change under it
 EntryLifecycle <-- EntryLifecycleProofs   set-up, rollback, unload; guard registry, keep-alive
 PeerWake    <-- PeerWakeProofs    the night detectors of one bus

 ServiceRegistry <-- DeviceWrites  (EXTENDS it: callers, lock, bus and inverter)
                        ^--- WritePathProofs
 BatterySegments <-- BatteryHealthProofs   discharge segments and the engine around them
 EnergyCounter   <-- BatteryHealthProofs   energy that is counted once
       ^
       +--- BatteryBaselines       (EXTENDS it: ceiling, efficiency, balance)
              ^--- BatteryHealthProofs
 AdaptiveLearning <-- AdaptiveLearningProofs
```

`PROJECT.json`, under `map`, gives the lines of every definition.

**ModbusGuard.** `pc[r]` is where the task is in `async with guard.request()`;
`holder` and `waiters` are `guard._lock` (asyncio.Lock: FIFO, no barging while
somebody waits, a cancelled woken waiter wakes the next one);
`queueDepth`, `priorityDepth`, `gapOf`, `depthOf`, `effectiveGap` and
`maxQueueDepth` are the fields of the same names. `Shed` and `Enter` are the
code of `__aenter__` up to its first await, `LockAcquired` up to its second,
`GapElapsed` the end of it, `Exit` is `__aexit__`, and `AdmissionTimeout`,
`CancelWaiting`, `CancelInGap` are the three ways into its `except
BaseException`. Time is ticks of the gap clock; `overBudget` abstracts the
sliding airtime window to its verdict, which may change whenever a priority
request ends or time passes.

**CacheContract.** Per register the last value and one of `never`, `good`,
`uncertain`, `expired`, `pending`. Operations are `Store`, `Miss`,
`Invalidate`, `LoseLink` and the passing of time, `Expire`. The contract says
which status may follow which: only an uncertain value expires, only a read
makes a pending one servable.

**RegisterCache.** The code's entry, with ages in ticks instead of timestamps
(capped at `MaxAge`, beyond every limit they are compared with). The tier given
by `classify_register` is chosen from a set per register. `Tick` lets time pass.
`ImplementsContract` is the refinement.

**PollCycle.** The poll's awaits are its phases (`backoff`, `asking`, `onwire`,
`busy`, `pause`). `StartPoll` is steps 1-4, `BackoffWakes` is step 5 after its
sleep, `AfterChunk` is the end of an iteration of the chunk loop and, after the
last one, `EndBatch` (the reconciliation, then `PollSucceeds` or `PollFails`) runs in the same step, because the
code awaits nothing in between. `ConnectionLost` and `ConnectionRestored` are
the keep-alive's callbacks and may come at any await. Which good values are due
is left open (`StaleSets`): it is decided by TTLs, and those are the subject of
RegisterCache. `outcome` is a history variable: what this poll has recorded
for each register.

**WritePath.** Adds the device's setting, one writer and the verification task;
the guard is reduced to what ModbusGuard guarantees, one request on the line at
a time. A write may be acknowledged and applied, acknowledged and ignored by the
inverter, refused, or lost without an answer after having been applied or not. An
acknowledged write of an entity is verified (`number.py`); one of a service is not
(`services.py:729-734`).

**SyncPower.** `cache[s]` is what `quality_of` would say of the source's register
in its regular cache; `Refreshed`, `Missed` and `Blanked` are that
coordinator at work, at any await of the poll. `TakeShortcut` and `CacheOnly` are whole
polls without an await. Otherwise `StartReads` begins the sequence and each
source is one `_read_one`: `FromCache`, `TooLate` or `Request`, and then `ReadAnswered`
or `ReadFails`; `Finish` is the end of `_async_update_data`. Times of
capture are kept as ages, so that the model needs no absolute clock:
`first_capture_at` is the largest age, `oldest`. `result` holds a reading only in the
state in which it is returned, and `fresh` is a history variable.

**EntryLifecycle.** `phase[e]` is the await at which the set-up or unload of the entry
is; `cleanup` is the list of callbacks the attempt has registered and `undo` the
rollback that runs them in reverse. A rollback after a failure runs in the
set-up's own task (`mode = "failure"`), one after a cancellation in a shielded task that may
outlive it (`"shielded"`). The registries are kept as in the code: by endpoint
(`guard`, `refs`) and by serial number (`telemetry`, `keepalive`), and
objects are told apart by the attempt that made them, so that a registry which
returns an old object is visible. `StartSetup` to `SetupDone` are the stretches
of `async_setup_entry` and `_setup_inverter_device_data` between their awaits;
`StartUnload` to `Teardown` those of `async_unload_entry`; `ProbeStarts`
and `ProbeEnds` are `_probe`; `FlowStarts` and `FlowEnds` stand for each of
the config flow's sessions, which only share the guard's reference with the
rest.

**BatterySegments.** One segment tracker, of the pack or of a unit (`kind`), inside
`BatteryHealthEngine.update`: `tracker` is the open segment with what has happened under it,
`segments` the closed ones, `calibSeen` and `calibSettle` what the engine knows of
a calibration, `settling` the pause after a disturbance. The engine sees the calibration
register up to `LATENCY` updates late; `calibrating`, `sinceCalibration` and the flags in a segment
are the truth beside it. `Tick` is one update with all its calls,
`UpdateFails` one without its inputs; `SetLearningEnabled`, `Write` and `RestartEngine` are
the manager's. Capacities are left out: a segment is what it reached across.

**EnergyCounter.** `CounterMonitor` alone: `Fed` is `feed`, with the tolerance, the glitch
and the restart; `raw` is the device's counter and `earlier` what it delivered before its last
restart.

**BatteryBaselines.** Follows one of three things, chosen at the start (`followed`): the
counter, the efficiency tracker or the balance tracker, the latter two under the charge ceiling and its
debounce (`Ceiling`). A window or a sample is the set of ceilings it was measured
under; `under` of a baseline is what it was made of. `ResetBaseline`, `Save`,
`Restart` and `Upgrade` are the engine's operations around them.

**PeerWake.** A detector per coordinator (`mode`, `below`, `hold`), the two things its
callback sets (`nightCache`, `interval`), and polls that are in flight (`polling`) while
peers end theirs. `EndPoll` is the end of `_async_update_data`: evaluation, callbacks and the wake
of sleeping peers, which the code does without an await. `sky` is the device's surroundings; the powers are
reduced to their side of the two thresholds. `sinceDawn` is a history variable.

**ServiceRegistry.** `_entries_with_services` and `_capability_entries`; the devices of an
entry may differ each time it is set up (`Compositions`, of each entry).

**DeviceWrites.** Callers (`call`) take the device's lock, validate, take the bus and write
their registers one step at a time, or break off: the service handlers, the stop button
(`async_press`, which does the same by other means) and the slot editor of `text.py`, which reads, edits and
validates under the same hold. A write is answered with True or with False (`Write`); the handlers and the
button do not look at the answer, write the next register and report the command complete, while the editor
raises on False, which is a `BreakOff`. `inverter` is the registers of the device, and `refused`, a history
variable, those that are not as their last answered write asked. A group of registers is chosen at the start (feed-in
control, forcible charge, schedule). `shown` is `coordinator.data`. `AppEdits` is the manufacturer's app,
which writes the schedule too.

**AdaptiveLearning.** `object` is every `AdaptiveModbusController` made since Home
Assistant started, `newest` the registry's; `phase` is where its entry is.
`Load` is `async_load` with `note_firmware_version` after it, `Record` `record_request` with its
`_schedule_save`, `Wake` the end of `_deferred_save`'s sleep, `Saved` and `SaveFails` the end of
`Store.async_save` (a write that finds the generation moved goes round again),
`Unload` is `async_unload` from an unload or a roll-back, `Ends` a crash or a
shutdown, which unloads nothing. What a slot has learned is the set of versions its full-weight
observations belong to. A poll that is in flight during an unload may still record on the removed
controller (`late`), and that controller's deferred save may overwrite its successor's
file: `apart` remembers it.

## 3. What the runs check

| Run | Question | Distinct states |
|---|---|---|
| `guard_bus` | Does any interleaving of three tasks, with gaps and depths that two devices keep moving inside and outside the clamps, lose the lock, leak a slot, overtake or forget a waiter, unpace the line or leave an unsafe value in force? `LockHeldByLiveRequest`, `CountersExact`, `SafestAggregate`, `NoOvertaking`, `PacedLine`, `WaiterIsServed` | 134 298 |
| `cache` | Is trust bounded in time, blanking justified, and every step one the contract allows? `GoodIsRecent`, `BlankedForCause`, `ImplementsContract` | 354 522 |
| `poll` | Is every register accounted for once, wherever the poll stops; is what is published what is trusted; does back-off end? `AccountedOnce`, `PublishesWhatItTrusts`, `ZeroGuarded`, `BackoffEnds`, `EveryRegisterRefreshed`, `PollTerminates` | 194 638 |
| `write` | Is a replaced value ever served by the cache, and is the device's value shown in the end? `ServedIsCurrent`, `WriteIsShown` | 545 496 |
| `sync` | Is an unflagged reading aligned, a fresh value published, a tick bounded, while caches change and reads crawl or fail? `UnflaggedIsAligned`, `FreshIsPublished`, `PollIsBounded` | 1 186 726 |
| `lifecycle` | Do failure, cancellation and retry at every await give back references, tasks and timers once, and settle? `ReferencesExact`, `NothingLeftRunning`, `NoProbeOnClosedLine`, `HealthIsKnown`, `EntrySettles` | 394 579 |
| `battery_segments` | Does an accepted segment ever span a counter restart, a new pack, a gap, a calibration or a time of settling? `NothingSpansABoundary`, `NoticedCalibrationExcluded`, `LearnsOnlyWhenCalm` | 75 693 |
| `battery_baselines` | Is energy counted once, and every baseline made under one ceiling, across jitter, restarts, resets, saves, upgrades and crashes? `NeverOvercounts`, `TotalNeverFalls`, `EpochHasOneCeiling` | 70 748 |
| `peer_wake` | Does a woken inverter stay awake, and do all sleep in the end? `SleepersStayAwake`, `EveryoneSleepsAtLast` | 32 768 |
| `device_writes` | Do commands of several registers interleave, does a poll see one half-written or a mode without its power, does an edit undo another, does a service outlive or miss its providers? `RegisteredIsProvided`, `LastCallWins`, `PolledWhole`, `NoEditLost` | 1 787 024 |
| `adaptive_learning` | Is what is learned saved or known to be unsaved, and is the firmware's discount ever lost? `CleanIsOnDisk`, `NothingLeftBehind`, `OneFirmwareAtFullWeight` | 5 076 830 |
| `poll_zero_fallback` | see section 4 | |

Eight more configurations are not among the runs; each refutes one statement of section 4
and is started by hand, e.g.
`tlc -config MCWritePathInFlight.cfg MCWritePath`. Further invariants are defined in the modules and
hold, and are not in a configuration since the ones that are, or the theorems, imply what matters of them: the type
invariants, `QueueIsTheWaiters`, `QueueBounded`, `GapIsCovered` (ModbusGuard), `UnreadIsNotGood`
(PollCycle; a theorem), `OneGuardPerBus`, `TelemetryArmed` (EntryLifecycle), `SamplesApart`,
`PoolIsTheWindows` (BatteryBaselines), `IntervalFollowsMode` (PeerWake; a theorem).

Each property is preceded in its module by a comment that says what it means for the
code, and that a passing run checks has a mutant in `PROJECT.json`: a plausible bug in a mapped
definition under which TLC finds the property violated. Many mutants are bugs
this code once had, named in its comments (the lock kept by a cancelled sleeper,
Defect P, Q, R, T, U and V, F03, F04, ICS-01, ICS-02, ICS-12, MOD-02, MOD-16, MOD-19,
HS-2302-001 and -004, HS-2310-004 and -005).

## 4. Where the code and its documentation disagree

The second is the run `poll_zero_fallback`; the others are shown by the
configurations named with them.

1. **A priority request can be shed by the normal queue** (`MCModbusGuardShed.cfg`).
   `request()` promises that the keep-alive probe "must always be able to run
   regardless of how many coordinators are waiting". Since the airtime budget was
   added, a priority request over budget is treated as a normal one and shed
   when the main queue is full.
2. **A suspicious zero reaches the entities when another chunk fails**
   (`poll_zero_fallback`). The guard against false zeros of energy counters
   runs only after a poll that succeeded as a whole, but each chunk has already stored its
   values in the cache, and the failure path publishes the cache. At the next
   poll the stored zero is the prior value, so the guard is silent then too.
3. **A poll publishes a setting's pre-write value** (`MCWritePathInFlight.cfg`). A poll
   of several chunks reads the setting; the user writes it; the entry becomes
   BAD/WRITE_PENDING; the poll ends and `merge(fresh, ...)` lets the value it
   had read win over the cache. It corrects itself at the next poll, which is why
   `WriteIsShown` holds.
4. **A failed read discards a value that has become fresh** (`MCSyncPowerFallback.cfg`). While
   `_read_one` waits for the bus, the regular coordinator reads the same register.
   If the dedicated read then fails, its fallback accepts only UNCERTAIN values, so the GOOD one is
   dropped and the source, with all that is derived from it, goes blank.
5. **A retried set-up gets the keep-alive of the failed attempt** (`MCEntryLifecycleRetry.cfg`).
   The rollback stops the keep-alive but leaves it in its registry, the defect
   that was found and fixed for telemetry (ICS-011). The retry revives the old
   object: it probes the device object that was stopped, through the old guard,
   and starts in the health state it was stopped in.
6. **A ceiling is confirmed by repeats of one reading** (`MCBatteryBaselinesCeiling.cfg`,
   `ConfirmedByReadings`). `battery_health.py:811-812` wants a change to persist "across
   consecutive polls", and line 855 logs "consistent readings"; the manager feeds the cached value on every update, so one
   reading that is served again from the cache confirms itself.
7. **The stop button ignores EMMA** (`MCDeviceWritesEmma.cfg`, `ServicesSpareEmma`).
   The forcible-charge services are not registered for an entry with an EMMA, because they
   "would let a user issue a write that conflicts with EMMA's control" (`services.py:1810-1813`). Services are
   global: once another entry without one has registered them, they accept the
   battery of the EMMA's entry too; and the stop button is created there in any case.
8. **The two learners are not frozen together** (`MCAdaptiveLearningFreeze.cfg`, `FrozenTogether`).
   The switch is a "maintenance inhibit shared with the battery-health engine"
   (`adaptive_modbus.py:774`). The engine's flag is written at once; the controller's is only
   marked dirty and no save is scheduled, so if Home Assistant ends before the next save, the switch comes
   back off while the Modbus learner learns.

9. **A refused register is ignored** (`MCDeviceWritesRefused.cfg`, `CommandsAreAtomic`).
   `services.py:746-748` speaks of "one atomic command (e.g. "start forcible charge": mode, power, and duration
   registers that only make sense applied together)". `device.set()` may answer False, which `text.py:311-316`
   treats as a rejected write; `services.py:779-783`, the handlers and `button.py:164-180` do not look at the answer, write the registers that follow
   and report the command complete. In the run's trace the device refuses the charge power and takes the
   command: it is left at CHARGE with the power off. `LastCallWins` and `PolledWhole` therefore speak of the registers that were not refused.

Seen while modelling, without a configuration of its own:

- The rollback of a *failed* set-up is not shielded as that of a cancelled one is:
  a cancellation during it drops the callbacks that are left. The reference to
  the guard is then never released; the model counts it (`leaked`), and
  `ReferencesExact` and `NothingLeftRunning` except these attempts by name.
- A second cancellation leaves the rollback running in the background, where it
  may stop the keep-alive and remove the telemetry of the *next* attempt, because
  both are found by serial number (`overtaken`; `TelemetryArmed` excepts it).
- Devices that are not inverters get coordinators without `bus_endpoint`
  (`__init__.py:1919-1935`), hence a guard of their own on the same bus, against
  the comment at lines 541-542.
- The span of a reading with one successful read is 0, not None as the
  data class says, and the failure count of the coordinator is reset by a poll served from the caches
  alone.
- *Battery health.* An open segment of the pack bridges a pause of learning and a
  unit reset, and a unit's survives a pack replacement that is noticed by serial number. A segment end ignores
  a stale counter, against the comment at `battery_health.py:742`. A load that times out is taken for an empty store,
  and the next save overwrites the file. A ceiling that goes from A to B and back while learning is
  off leaves an anchor that spans B. A calibration noticed later than `LATENCY` leaves segments in
  (the property says "within the latency"), and a counter glitch beyond the tolerance that goes back is counted
  twice (the model's jitter stays within it).
- *Peer wake.* The detector gets the merged, possibly cached result, though `night_mode.py:26-27`
  says "fresh"; the coordinator of an unloaded entry whose last poll ends after the unload still wakes peers; a peer
  with the option off is woken too; `_peer_wake_hold_until` is never used.
- *Writes.* `text.py:46-47` ("no other writer") does not hold for the app. A service of one entry may
  write to a device of another whose `CONF_ENABLE_PARAMETER_CONFIGURATION` is off, and then fails an
  assertion after the write. The stop button does not reset the charge power as the
  service does, and invalidates only after its last write. Edits address slots by position.
- *Adaptive controller.* A late record on a removed controller makes it save over its successor's
  file. A failed flush of a roll-back is not tried again. The comment at `__init__.py:1564-1568`, that a firmware update
  "brings this setup path back around", is not what happens: a lost connection fails polls and nothing
  sets up again, so an update goes unnoticed until the next reload (the device's true version is
  not in the model). A shutdown does not unload entries, so up to one debounce of learning is lost.

## 5. Bounds

- `guard_bus`: one normal and two priority tasks, a queue of two and a priority
  lane of one, so both checks are reached with requests waiting, in the gap and on the
  line; two devices; gaps of one or two ticks, and reports of 0 and 3 that are outside both clamps.
- `cache`: one register that may be NORMAL or SLOW beside a STATIC one, two
  values, limits of one to four ticks chosen so that every comparison has both
  outcomes: a cap above the base (NORMAL) and a base above the cap (SLOW, as an
  option allows), a floor above the base, a hard limit of two ceilings.
- `poll`: an energy counter (SLOW) in the first chunk and a FAST register in
  the second, the values 0 and 1, a back-off threshold of one with a counter to two (`TIMEOUT_CAP`;
  only the comparison with the threshold matters), one busy retry. No register is NORMAL,
  so the divisor of the back-off is 1.
- `write`: the setting alone, a NORMAL register that back-off reads every second poll, one
  verification retry and no busy retry (that is the poll run's) for the liveness run;
  the setting and a register in a later chunk for `MCWritePathInFlight.cfg`.

- `sync`: two inverters and a meter, so that a source comes before, between and
  after reads that wait; tolerance 1, deadline 2 and reads of up to two ticks: the
  deadline can pass in the first read, in the second, or never. Cached values reach age three,
  beyond the tolerance; the code's ceilings bound them likewise.
- `lifecycle`: one entry with two inverters and one discovery session, two set-up attempts and three
  guard objects: a failure after the first device, before the second, a retry,
  and a guard made anew after the last release. With `MaxAttempts = 2` an
  attempt meets what exactly one earlier attempt left; the code has no
  deeper memory than its registries. One rollback of an entry at a time.
- `battery_segments`: one closed segment is kept, since every property is of one segment at a
  time; a latency of one tick, a bridge of two, one settling tick and one after a calibration, so that an event falls before,
  within and after each of them. `MAX_IDLE` ages are capped where the code compares them.
- `battery_baselines`: two ceilings and a debounce of two; two windows and two samples make a baseline, the fewest
  that could mix; five units of energy with a tolerance of one and a jitter of one: a restart after
  counting, and another after that.
- `peer_wake`: two inverters, three dark polls and a hold of two ticks. A third adds no case: a wake reads
  and writes one peer's detector at a time. `PeerWakeProofs` has any number.
- `device_writes`: two tasks, as overlaps are of two callers and the lock makes of more a queue; two entries, one with
  the device; two periods that may clash, and a schedule of two. The device's entry is set up with one of three installations,
  the other one, which only adds and removes services, with the ordinary one. One register is refused at a time
  (`MAX_REFUSED`), at any step of any command, and stays so until it is written again; two at a time were checked
  as well (3 868 504 states), and the proofs have any number.
- `adaptive_learning`: two versions and two controllers in one run of Home Assistant: a controller has only one
  predecessor that still runs, as an unload waits for its flush; crashes are unlimited. Versions are symmetric.

Two registers suffice for the poll because the chunk loop treats a chunk as a set
and the properties relate one register with the fate of another chunk.

## 6. Fairness

Nothing is assumed of users, timeouts, cancellations or the device: these actions
are never fair. What is assumed:

- *Guard* (`FairSpec`): the event loop runs a task whose future is resolved, a
  sleep ends, and the body of `async with` ends, because every caller bounds its
  device call with a timeout.
- *Poll*: Home Assistant schedules the next poll after each one, and each await of
  a poll ends (admission by its own timeout, reads by the chunk timeout, sleeps).
  `BackoffEnds` and `EveryRegisterRefreshed` are conditional on the bus, the link
  and the device being fine from some time on (`calm`).
- *Write path*: the same for the writer and the verifier; and that the setting
  becomes due again and again, which is what `GoodIsRecent` of the cache shows
  (its TTL is capped) and the poll model leaves open.

- *Lifecycle*: the awaits of set-up, rollback and unload end, each being bounded
  by a timeout (`DEVICE_CONNECT_TIMEOUT`, `DISCONNECT_TIMEOUT`,
  `KEEPALIVE_STOP_TIMEOUT`); a step of them is enabled on a wedged connection
  too, which is what MOD-16 gave the code and `EntrySettles` checks. A
  cancelled keep-alive task ends or is given up. Nothing is assumed of
  probes, of failures, or of Home Assistant trying again.
- *Peer wake*: Home Assistant starts the polls of a loaded entry, the clock runs, and a device that
  is polled again and again answers again and again (strong fairness of `PollReads`). Nothing obliges
  the sky or an entry to change; `EveryoneSleepsAtLast` is conditional on a lasting night.
- `sync`, the battery, write and adaptive models state no liveness; the bound of `sync` is the invariant `PollIsBounded`.

## 7. Proofs

`ModbusGuardProofs` proves for every number of tasks, devices, bounds and
reports (from `TasksAssumption` and `BoundsAssumption`):

| Theorem | Property | Argument |
|---|---|---|
| `TypeCorrect` | `TypeOK` | inductive; the clamp and the maximum or minimum of the contributions stay in range |
| `LockNeverLost` | `LockHeldByLiveRequest` | inductive together with the type: every action that leaves the gap or the line frees the lock, and only the lock's taker enters them |
| `CountersAreExact` | `CountersExact` | lemmas on the cardinality of the set of requests in flight when one task joins or leaves (`FlightGrows`, `FlightShrinks`, `FlightKept`) |
| `QueueIsBounded` | `QueueBounded` | needs the exact counters: the code tests the counter, the property counts requests; a normal request enters only below `maxQueueDepth`, whatever priority ones add |
| `GapAlwaysCovered` | `GapIsCovered` | inductive with the type (the gap in force is at least the minimum) and the lock invariant (only the holder sleeps) |
| `ParametersAreSafest` | `SafestAggregate` | inductive with the type: the gap in force is the clamped maximum, and the depth the minimum, of the contributions after every report and withdrawal |
| `LineIsPaced` | `PacedLine` | from `GapAlwaysCovered`: the sleeper leaves at pause 0, and the fast path is taken only after the full gap |
| `QueueHoldsTheWaiters` | `QueueIsTheWaiters` | inductive with the type: a lemma for joining the end (`QueueGrows`), for the head that gets the lock (`QueueAdvances`) and for leaving from anywhere (`QueueShrinks`), each of which keeps the queue free of repetitions |
| `NobodyOvertakes` | `NoOvertaking` | from the previous one: the lock goes to the head of the queue, and without a queue to whoever asks only when nobody waits |

`SyncPowerProofs` proves all four invariants of `SyncPower` for every sequence of
sources, tolerance, deadline and read time (from `SyncAssumption`). They are one
induction over `IInv`; none of the last three is inductive by itself:

| Theorem | Property | What `IInv` adds and why |
|---|---|---|
| `TypeCorrect` | `TypeOK` | `AgesInTime`: the ages that a poll carries grow while it waits, so they are bounded only through the time the poll has taken |
| `UnflaggedReadingsAreAligned` | `UnflaggedIsAligned` | `oldest` and `newest` bound everything taken (in the type); `TookKeepsBounds` shows that a cache hit of any age keeps this, whatever the order of the captures |
| `FreshValuesArePublished` | `FreshIsPublished` | `FreshIsTaken`: a source that has stayed GOOD is so still, has been taken if its turn has passed, and is never the one that is read; needs that no source comes twice |
| `PollsAreBounded` | `PollIsBounded` | `InTime`: while a read waits, the time before its request is below the deadline |

`BatteryHealthProofs`, of the counter, for every tolerance, jitter and amount of energy (from
`CounterAssumption`):

| Theorem | Property | Argument |
|---|---|---|
| `CounterAccounted` | `IInv` | either the offset is of the counter's earlier lives and the last value of the present one, or the whole total is of earlier lives; the same for the saved copy |
| `CounterNeverOvercounts` | `NeverOvercounts` | from it; `NeverOvercounts` alone does not survive a restart of the counter |
| `CounterTotalNeverFalls` | `TotalNeverFalls` | by the cases of `Fed`: a small step back is ignored, a large one moves the offset by what it takes away |

and of the segments, for every settling time, latency, bridge, idle time and number of segments
(from `SegmentsAssumption`). The assumption relates the times as the defaults of `HealthConfig` do, none of
which is an option: 300 s after a calibration (`AFTER`) is no longer than the settling time (300 s) nor the latency
of the register (3600 s), and a bridged gap (3600 s) no longer than both together (3900 s). The proof needs each of these: with a
longer bridge a segment that a calibration has touched could be continued after the exclusion is over.

| Theorem | Property | Argument |
|---|---|---|
| `NothingEverSpansABoundary` | `NothingSpansABoundary` | `Clean(segments)`, of what is recorded and what is saved, with `GapsAreMarked`: every boundary closes, discards or marks the open segment before it can be appended |
| `AlwaysLearnsWhenCalm` | `LearnsOnlyWhenCalm` | `SettlingIsCalm`: when `settling` has run out nothing has disturbed the engine for that long |
| `NoticedCalibrationNeverCounts` | `NoticedCalibrationExcluded` | the heart of `SegmentsIInv`, an account of a calibration's time. `RegisterSeen`: the engine knows what the register showed last, or learning has been off. `EndedUnderIt`: before it is noticed, what has ended under it is younger than it, so the look back by `LATENCY` reaches it. `ExclusionLasts`: afterwards the exclusion outlasts the calibration and the time after it, or an outage or a fresh settling covers the rest. `ExposedIsWaiting`: an open segment it has touched and that is not excluded has a gap, and will be excluded when it is fed or be too old to be bridged |

and of the learned references, for every set of ceilings and every debounce, spacing, settling time and number of
windows and samples (from `BaselinesAssumption`; the baseline needs no more windows than are kept, as in `HealthConfig`).
`EpochHasOneCeiling` alone is not inductive: the open anchor and the store carry ceilings into later states. `BaselinesIInv`
says of the trackers in memory, and the same of those in the store under the store's own ceiling, that

- all they hold was measured under that ceiling (`EfficiencyOf`, `BalanceOf`), the open anchor included, while
  the tracker that is not followed has measured nothing;
- a pending efficiency baseline is pooled from all the windows, and they are too few as yet (`Pooled`), so that no window
  has been pushed out before the baseline is set;
- the youngest sample is no younger than the clock of the spacing, and the others are older by the spacing (`Apart`).

| Theorem | Property | Argument |
|---|---|---|
| `BaselinesInvariant` | `BaselinesIInv` | a lemma for each operation of the trackers (`RecordWindowKeeps`, `DropWindowsKeeps`, `ScoreKeeps`, ...), then one for each action. A ceiling that changes while learning is on begins a new epoch; otherwise what was known stays known (`CeilingIsKept`) |
| `ComparedUnderOneCeiling` | `EpochHasOneCeiling` | from the first part |
| `PoolHoldsTheWindows` | `PoolIsTheWindows` | from the second; no run checks it |
| `SamplesAreSpaced` | `SamplesApart` | from the third; no run checks it |

`Rederive` plays the windows again by a recursive function. Library induction takes an operator as a
parameter and is out of the provers' reach, so `ReplayExists` and `RederiveKeeps` argue by the least counterexample: the
set of numbers of windows for which the claim fails is empty, as otherwise it had a smallest member (`HasSmallest`, from
`NatLessThanWellFounded`).

`AdaptiveLearningProofs`, for every set of versions and any number of controllers (from
`AdaptiveAssumption`):

| Theorem | Property | Argument |
|---|---|---|
| `AdaptiveTypeCorrect` | `AdaptiveTypeOK` | inductive |
| `CleanMemoryIsOnDisk` | `CleanIsOnDisk` | the copy a writer holds is the memory unless the generation has moved, and only a write whose generation has not moved clears the dirty flag |
| `UnloadLosesNothing` | `NothingLeftBehind` | a loaded controller that is dirty is flushed before the entry counts as removed; what follows is a late record, which schedules, or a failure, which is remembered |
| `FirmwareNeverMixes` | `OneFirmwareAtFullWeight` | each memory's full-weight observations carry the version recorded in it, and the version the set-up has read is the recorded one or unknown; this holds of memories, copies and the file alike |

`RegisterCacheProofs`, for any registers, values, tiers, limits and factors (from
`CacheAssumption` and `NoEntryAssumption`):

| Theorem | Property | Argument |
|---|---|---|
| `CacheTypeCorrect` | `TypeOK` | `IInv` adds that BAD means pending and that the TTL stays within its tier's base or cap, which every operation keeps entry by entry |
| `BlankingHasACause` | `BlankedForCause` | from `IInv`: only an UNCERTAIN entry expires |
| `TrustIsRecent` | `GoodIsRecent` | from the bound on the TTL, which night mode stretches no further than the cap |
| `CacheImplementsContract` | `ImplementsContract` | a lemma per operation on what it does to the value and trust of one entry (`MissIsAllowed`, `AgeingIsAllowed`, ...), one that lifts it to all registers (`RecordAttemptMisses`, `TickExpires`, ...); a night mode change stutters. A first miss cannot expire a value, since `MIN_MISSED` is at least two and the uncertainty has just begun |

`PeerWakeProofs`, for any number of coordinators and any holds (from `PeerWakeAssumption`):

| Theorem | Property | Argument |
|---|---|---|
| `PeerWakeTypeCorrect` | `PeerWakeTypeOK` | inductive |
| `WokenStayAwake` | `SleepersStayAwake` | `HeldAwake`: what is left of the hold and the time since the wake make up the hold, while the detector is suppressed |
| `IntervalIsTheModes` | `IntervalFollowsMode` | inductive: the mode is changed by an evaluation or a wake, and either runs the callback |

`EntryLifecycleProofs`, for any number of entries, inverters, discovery sessions, attempts and guard
objects (from `LifecycleAssumption`: an entry has at least one inverter and none twice, which
`parse_unit_ids` and the discovery in the config flow see to; entries have different ones, as the unique id of an entry is
its inverter's serial number). Where the run has one entry, the theorems have any number on one endpoint. `LifecycleIInv`
is built in five layers, each kept with the help of those before it:

| Layer | What it says | What rests on it |
|---|---|---|
| `Bookkeeping` | a list of cleanups gives the reference back last and once, and is of devices of its own entry; which rollbacks may run in which phase; a rollback that is not of the current attempt was overtaken | `LifecycleTypes` and everything below |
| `References` | the count is the number of holders and of what cut rollbacks leaked; all hold the registered guard; `HeldWhileNeeded`: an attempt holds its reference exactly while it is active or its rollback has callbacks left | `ReferencesAreExact`, `OneGuard` |
| `Health` | an object of the current attempt tells the coordinators of this attempt, who know what it knows; ahead of the device that is being set up there are only older ones | `HealthIsAlwaysKnown` |
| `Teardowns` | `TaskOwed`, `TelemetryOwed`: what runs is on a list that will stop it, unless a rollback was cut short (and even then for a task of the attempt that runs); `LineOf`: who closes the line; `QuietOnClosedLine` | `NothingIsLeftRunning`, `NoProbeIsOnAClosedLine` |
| `Arms` | no stopped telemetry object is in the registry; the devices an attempt has passed have a running one | `TelemetryIsArmed` |

| Theorem | Property | Argument |
|---|---|---|
| `LifecycleInvariant` | `LifecycleIInv` | per layer, a lemma for each action; the cardinality of `Holders` changes by one as one user joins or leaves, so that a reference given back twice or not at all would show |
| `LifecycleTypes` | `LifecycleTypeOK` | the first layer; the guard is registered while there are references because of the second |
| `ReferencesAreExact` | `ReferencesExact` | an entry at rest has no rollback, so `Needs` is false for all its attempts |
| `OneGuard` | `OneGuardPerBus` | the second layer; a new guard is made only when nobody holds one, which is where F04 went wrong |
| `NothingIsLeftRunning` | `NothingLeftRunning` | at rest both lists are empty, so nothing can be owed, so nothing runs |
| `NoProbeIsOnAClosedLine` | `NoProbeOnClosedLine` | the line is closed only after all tasks of the attempt have been awaited, by either way down |
| `HealthIsAlwaysKnown` | `HealthIsKnown` | the third layer in the phase "loaded" |
| `TelemetryIsArmed` | `TelemetryArmed` | the fifth |

`WritePathProofs`, of the poll, for any registers, tiers, chunks and bounds (from `PollAssumption`
and `RegistersAssumption`):

| Theorem | Property | Argument |
|---|---|---|
| `PollTypeCorrect` | `TypeOK` | from `IInv` |
| `EveryRegisterAccounted` | `AccountedOnce` | `Balanced`, the books of a running poll: what is owed is exactly what of the batch is not recorded, and between chunks that is `todo`. `AfterChunkKeeps` and `EndBatchKeeps` show it for the cache, results and failures that any chunk hands on, so answered and failed chunks and the deadline share one proof |
| `MissedIsNotTrusted` | `UnreadIsNotGood` | nothing but a read makes a register good |
| `PublishedIsServed` | `PublishesWhatItTrusts` | `Balanced` keeps what was read in the cache and served until the poll ends (values of this poll do not expire in it), so the merge of both copies is the cache's view (`SuccessIsServed`) |
| `NoFalseZeroPasses` | `ZeroGuarded` | if nothing has failed all of the batch has been read, hence every counter with a positive prior value is compared |

and of the poll with the writes, for any registers, chunks, retries and values (from the assumptions of
`PollCycle` and `WriteAssumption`): `ServedStaysCurrent` states `ServedIsCurrent`, which with
the shape of the cache is inductive: every step of the poll but a read keeps the values
and serves no more of them (`NothingRegained`), a read takes the device's value, a
write is either acknowledged and marks the register or lost and remembered. The invariant of
the poll (`IInv`) does not hold here, because a write may mark a register the poll has
read already: that is the third point of section 4.

and of the services and the commands of several registers, for any entries and compositions, callers, periods and
schedules (from `RegistryAssumption` and `WritesAssumption`). `RegistryIInv` adds to `RegisteredIsProvided` that the two
counting dictionaries hold exactly the loaded entries and what each was set up with: `StillProvided` decides from those what
an unload takes away. `WritesIInv` is

| Part | What it says |
|---|---|
| `InTurn` | the calls under way are the queue of the write lock, once each and in the order in which they were called; only its head has got further |
| `OneOnTheBus` | who holds the bus is reading or writing |
| `CommandOf` | of a command that holds the bus each register is as it asks, was refused, or is still to be written, and what is left is in order (`Progress`, `InOrder`): what switches something off comes first, what switches something on last |
| `EditOf` | an edit that is about to be written is of the schedule the inverter has, unless the app came between |
| `Settled` | between two holds of the bus, unless a command was broken off, the inverter is as the latest command leaves it, refused registers aside |
| `Powered` | at every moment, what is switched on has its power or one of the two registers was refused |

| Theorem | Property | Argument |
|---|---|---|
| `ServicesFollowTheEntries` | `RegisteredIsProvided` | from `RegistryIInv`; the commands of `DeviceWrites` do not touch the registry |
| `WritesInvariant` | `WritesIInv` | a lemma per action; the last write of a command leaves nothing in `Progress`, which is `Settled` for its winner. A power is written before what needs it and taken away after (`InOrder`), so each single write keeps `Powered`, whatever follows it |
| `TheLastCallDecides` | `LastCallWins` | with no call under way the bus is free, and the winner is the last in the order of the calls: `Settled`. Nothing is assumed of which registers are refused |
| `NoCommandIsSeenHalfWritten` | `PolledWhole` | `Powered` for a command that broke off; `Settled`, and each command's registers make sense together, for the others |
| `EditsAreOfTheDevice` | `NoEditLost` | `EditOf` in the state before the write |

Only model-checked: all liveness (`WaiterIsServed`, `BackoffEnds`, `EveryRegisterRefreshed`, `PollTerminates`, `WriteIsShown`,
`EntrySettles`, `EveryoneSleepsAtLast`), which rests on fairness and so is out of the prover's reach. Every safety property of
a passing run has a theorem. What the theorems show of the cache's contract is what the poll and the write path
rest on, through `CacheContract`.

## 8. What is not modelled

- The vendor library, Home Assistant's scheduler (one refresh of a coordinator
  at a time) and the device are environment: what they may do is
  nondeterministic.
- The poll model leaves out the first-poll stagger, the grouping of registers
  into chunks by address (a fixed rank instead), the chunk-size adaptation, the adaptive
  poll interval and telemetry: none of them changes the cache or the data.
- Battery health: the regression that turns segments into a capacity, outlier rules on its numbers, cell statistics,
  resistance and temperature are floating-point arithmetic; the models keep when a value is taken, dropped, pooled or
  compared, and leave the numbers out.
- Adaptive controller: the slot statistics, the parameters derived from them, the load regime and the
  transition windows.
- Services: EMMA's own targets, capacity control and fixed-charge periods take the same path as the
  modelled ones. Parsing of TOU texts is left out; `Schedules` are parsed ones.
- Optimizer coordinator, battery health entities, telemetry and diagnostics: straight sequences, presentation and
  counters that decide nothing.
- An answered chunk of the poll has all its registers; one that the library answers in part is not in the model (the code
  records the whole chunk as read).
- Some properties say less than their subject: `PublishesWhatItTrusts` runs without writes (with them it is
  false: section 4, point 3); `ZeroGuarded` compares with the model's own snapshot of before the poll; `HealthIsKnown` would not notice a shed probe
  that is taken for a lost link; `CountersExact` says nothing of the bound itself, which is the theorem
  `QueueIsBounded`. In `NothingSpansABoundary` the clause on another pack holds of a unit by construction, as a unit's segment
  is never told of a replacement (section 4).
- TTLs in the poll and write models are open; in the cache model they are exact.
- `invalidate_all_including_static` and `set_slow_tier_ttl` have no caller in
  production code.
- Every component with its status and the reason is in `PROJECT.json`.

## 9. Plan

Done: the guard, the cache and its contract, the poll, the write path, the synchronized coordinator, the entry's life,
the battery engine's counters, segments and baselines, night mode, services and multi-register writes,
and what the adaptive controller remembers; with the proofs of section 7. What would come next:

1. The adaptive load regime and its transition windows, and the back-off promotion with a
   register that never answers.
2. Proofs: that the poll's cache operations are those of the register cache (today both are related through
   `CacheContract` only), and how long a register may be served under the poll's TTLs.
