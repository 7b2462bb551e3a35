--------------------------- MODULE BatterySegments ---------------------------
(* Capacity measurement from discharge segments (battery_health.py,         *)
(* battery_health_manager.py): how the engine opens, bridges, closes,       *)
(* discards and excludes segments while reads fail, counters reset, the     *)
(* BMS calibrates itself behind a register that is an hour old, learning is *)
(* switched off and on, packs are replaced and Home Assistant restarts.     *)
(*                                                                          *)
(* The engine has one SegmentTracker for the whole unit and one per pack.   *)
(* They are fed by the same update and do not touch each other, so one of   *)
(* them is followed; kind says which.  Of SOC only the movement is kept and *)
(* whether a segment is deep enough; whether its energy is plausible for    *)
(* its depth is left open.  A tick is MIN_SAVE_INTERVAL_S, five minutes.    *)
EXTENDS Integers, Sequences, SequencesExt

CONSTANTS
    SETTLING,       \* settling_period_s
    LATENCY,        \* CALIBRATION_DETECTION_LATENCY_S
    AFTER,          \* how long after a calibration SOC is not to be trusted
    BRIDGE,         \* max_gap_bridge_s
    MAX_IDLE,       \* segment_max_idle_s
    MAX_SEGMENTS    \* bound: segments that fit in capacity_window_days

(* How the defaults of HealthConfig relate (none of them is an option): a   *)
(* settling period is no shorter than what a calibration's end needs (both  *)
(* 300 s), the register is later than that (3600 s), a gap that is bridged  *)
(* (3600 s) is longer than a tick and shorter than the exclusion that       *)
(* follows a calibration (3900 s).                                          *)
ASSUME SegmentsAssumption ==
    /\ {LATENCY, AFTER, MAX_IDLE} \subseteq Nat
    /\ {SETTLING, BRIDGE, MAX_SEGMENTS} \subseteq Nat \ {0}
    /\ AFTER <= SETTLING /\ AFTER <= LATENCY
    /\ BRIDGE <= LATENCY + AFTER

VARIABLES
    kind,             \* the tracker that is followed: "unit" or "pack"
    calibrating,      \* the BMS is calibrating its SOH
    sinceCalibration, \* ticks since it ended
    calibRegister,    \* what the calibration register last showed
    lag,              \* ticks since that was the truth
    tracker,          \* SegmentTracker: the active segment
    segments,         \* SegmentTracker.segments
    learningEnabled,  \* learning_enabled
    settling,         \* ticks until _settling_until
    calibSeen,        \* _calib_prev_active
    calibSettle,      \* ticks until _calib_settle_until
    up,               \* the manager's _last_update_success
    saveDue,          \* the engine is dirty or its write is scheduled
    savedEngine,      \* the store
    noticed,          \* history: this calibration: "not yet", "in time", "late"
    calm              \* history: ticks since the system was last disturbed

bms     == <<calibrating, sinceCalibration, calibRegister, lag>>
engine  == <<tracker, segments, learningEnabled, settling, calibSeen,
             calibSettle>>
store   == <<saveDue, savedEngine>>
history == <<noticed, calm>>
segmentVars == <<kind, bms, engine, up, store, history>>

(* calibration_settle_s: the latency of the register and then some.         *)
SettleShort == AFTER    \* mutant: the five minutes it was before v2.3.2.0
CALIB_SETTLE == LATENCY + AFTER

Longer(age, limit) == IF age > limit THEN age ELSE age + 1
Sooner(left)      == IF left > 0 THEN left - 1 ELSE 0

Powers == {"discharging", "idle", "charging"}

(* SOC against the segment's last: "deeper" when the segment would now be   *)
(* recorded if it ended, being deep enough and of plausible energy.         *)
Moves  == {"deeper", "level", "up"}

(* What a successful poll found of the followed tracker: SOC, power and the *)
(* counter or only its carried-forward value; not all of these; or, for a   *)
(* pack, that it is offline.                                                *)
Read(power, move, stale) ==
    [online |-> TRUE, complete |-> TRUE, power |-> power, move |-> move,
     stale |-> stale]
Incomplete == [Read("idle", "level", TRUE) EXCEPT !.complete = FALSE]
Offline    == [Incomplete EXCEPT !.online = FALSE]

Reads ==
    {Read(power, move, stale) : power \in Powers, move \in Moves, stale \in BOOLEAN}
        \cup {Incomplete} \cup (IF kind = "pack" THEN {Offline} ELSE {})

(* The lifetime counters that restarted, or the serial number that changed. *)
Events == {"none", "unitReset", "packReset"} \cup
          (IF kind = "pack" THEN {"otherPackReset", "replaced"} ELSE {})

NoSegment == [active |-> FALSE, deep |-> FALSE, excluded |-> FALSE,
              gap |-> FALSE, idle |-> 0, good |-> 0,
              crossed |-> FALSE, calibration |-> FALSE]

(* What to_dict() writes and restore() brings back: nothing of the active   *)
(* segment and none of the engine's flags but the learning switch.          *)
Snapshot(ss, enabled) == [segments |-> ss, learningEnabled |-> enabled]
Fresh == Snapshot(<<>>, TRUE)

SegmentsInit ==
    /\ kind \in {"unit", "pack"}
    /\ calibrating = FALSE /\ sinceCalibration = LATENCY + 1
    /\ calibRegister = FALSE /\ lag = 0
    /\ tracker = NoSegment /\ segments = <<>>
    /\ learningEnabled = TRUE /\ settling = SETTLING + 1
    /\ calibSeen = FALSE /\ calibSettle = 0 /\ up = TRUE
    /\ saveDue = FALSE /\ savedEngine = Fresh
    /\ noticed = "not yet" /\ calm = 0

-----------------------------------------------------------------------------
(* SegmentTracker, as functions of a record with the tracker and segments.  *)

(* The truth about a tick, for the history fields only.                     *)
Unsettled == calibrating \/ sinceCalibration < AFTER

(* mark_gap: pending, to be bridged or not by the next good sample.         *)
MarkGap(r) == [r EXCEPT !.tracker.gap = r.tracker.active]

(* discard_active and _discard.                                             *)
DiscardBridges(r) == MarkGap(r)    \* mutant: as mark_recovery was before BH-03
Discard(r) == [r EXCEPT !.tracker = NoSegment]

(* _begin: the first tick counts for the exclusion as well.                 *)
Begin(in) ==
    [NoSegment EXCEPT !.active = TRUE, !.excluded = in.uncertain,
                      !.calibration = Unsettled]

(* prune() when the window is full: the oldest has expired.                 *)
AppendSegment(ss, seg) ==
    Append(IF Len(ss) < MAX_SEGMENTS THEN ss ELSE Tail(ss), seg)

(* _close: neither a shallow segment nor an implausible one is recorded.    *)
Recorded(t, in) ==
    [excluded |-> t.excluded, endAge |-> 0, crossed |-> t.crossed,
     calibration |-> t.calibration, trusted |-> in.trusted]

Close(r, in) ==
    [tracker  |-> NoSegment,
     segments |-> IF r.tracker.deep
                    THEN AppendSegment(r.segments, Recorded(r.tracker, in))
                    ELSE r.segments]

TooLong(t) == t.gap /\ t.good > BRIDGE

Ends(t, in) ==
    \/ in.move = "up"
    \/ in.power = "charging"
    \/ in.power = "idle" /\ t.idle > MAX_IDLE + 1

(* A sample with SOC, power and counter carries the segment on.             *)
Continued(t, in) ==
    [t EXCEPT !.gap = FALSE, !.good = 0,
              !.crossed = @ \/ t.good > BRIDGE,
              !.deep = @ \/ in.move = "deeper",
              !.idle = IF in.power # "idle" THEN 0 ELSE IF @ = 0 THEN 1 ELSE @]

(* feed(): the exclusion first, then a missing value, then the sample.  A   *)
(* segment is not opened on a carried-forward counter, except right after   *)
(* one that a gap ended.                                                    *)
Feed(r, in) ==
    LET q == IF r.tracker.active /\ in.uncertain
               THEN [r EXCEPT !.tracker.excluded = TRUE] ELSE r
        t == q.tracker
        discharging == in.power = "discharging"
        on == [q EXCEPT !.tracker = Continued(t, in)]
    IN  CASE ~in.complete -> MarkGap(q)
          [] in.complete /\ ~t.active ->
               IF discharging /\ ~in.stale
                 THEN [q EXCEPT !.tracker = Begin(in)] ELSE q
          [] in.complete /\ t.active /\ TooLong(t) ->
               [q EXCEPT !.tracker = IF discharging THEN Begin(in) ELSE NoSegment]
          [] in.complete /\ t.active /\ ~TooLong(t) ->
               IF Ends(t, in) THEN Close(on, in) ELSE on

(* _on_calibration_start: what ended within the latency is excluded.        *)
RetroExclude(ss) ==
    [i \in DOMAIN ss |->
        [ss[i] EXCEPT !.excluded = @ \/ ss[i].endAge <= LATENCY]]

-----------------------------------------------------------------------------
(* The battery and its BMS.                                                 *)

CalibrationStarts ==
    /\ ~calibrating /\ ~calibRegister /\ sinceCalibration > LATENCY
    /\ calibrating' = TRUE /\ lag' = 0 /\ noticed' = "not yet"
    /\ tracker'  = [tracker EXCEPT !.calibration = FALSE]
    /\ segments' = [i \in DOMAIN segments |->
                      [segments[i] EXCEPT !.calibration = FALSE]]
    /\ UNCHANGED <<kind, sinceCalibration, calibRegister, learningEnabled,
                   settling, calibSeen, calibSettle, up, saveDue, calm>>
    /\ savedEngine' = [savedEngine EXCEPT !.segments = [i \in DOMAIN @ |->
                      [@[i] EXCEPT !.calibration = FALSE]]]

CalibrationEnds ==
    /\ calibrating
    /\ calibrating' = FALSE /\ sinceCalibration' = 0 /\ lag' = 0
    /\ UNCHANGED <<kind, calibRegister, engine, up, store, history>>

(* What the register may show: the truth, or, for LATENCY ticks, what it    *)
(* showed before; an unreadable register counts as not calibrating.         *)
MayShow(shown) ==
    \/ shown = calibrating
    \/ lag < LATENCY /\ (shown => calibRegister)

ClockOfTheBms ==
    /\ sinceCalibration' = IF calibrating THEN sinceCalibration
                                          ELSE Longer(sinceCalibration, LATENCY)
    /\ lag' = IF calibRegister' = calibrating THEN 0 ELSE Longer(lag, LATENCY)
    /\ UNCHANGED calibrating

AgedSegments(ss) ==
    [i \in DOMAIN ss |-> [ss[i] EXCEPT !.endAge = Longer(@, LATENCY)]]

(* One tick later, and what it means for the history fields.                *)
Aged ==
    [tracker  |-> IF tracker.active
                    THEN [tracker EXCEPT !.good = Longer(@, BRIDGE),
                            !.idle = IF @ = 0 THEN 0 ELSE Longer(@, MAX_IDLE + 1),
                            !.calibration = @ \/ Unsettled]
                    ELSE tracker,
     segments |-> AgedSegments(segments)]

-----------------------------------------------------------------------------
(* BatteryHealthEngine and the manager's listener.                          *)

(* _handle_coordinator_update on a failed poll: mark_gap for the unit and   *)
(* every pack, once.                                                        *)
UpdateFails ==
    /\ ~saveDue
    /\ LET r == IF up THEN MarkGap(Aged) ELSE Aged
       IN  tracker' = r.tracker /\ segments' = r.segments
    /\ up' = FALSE
    /\ settling' = Sooner(settling) /\ calibSettle' = Sooner(calibSettle)
    /\ UNCHANGED calibRegister /\ ClockOfTheBms
    /\ savedEngine' = [savedEngine EXCEPT !.segments = AgedSegments(@)]
    /\ calm' = Longer(calm, SETTLING)
    /\ UNCHANGED <<kind, learningEnabled, calibSeen, saveDue, noticed>>

(* History: nothing disturbed the system for the settling period.           *)
Trusted(event) ==
    learningEnabled /\ up /\ event # "unitReset" /\ calm >= SETTLING

(* What the sample says to the followed tracker.  A counter that was never  *)
(* read is None where another is carried forward: neither opens a segment,  *)
(* and there is none to go on with.                                         *)
Sample(read, uncertain, trusted) ==
    [power |-> read.power, move |-> read.move, stale |-> read.stale,
     complete |-> read.complete, uncertain |-> uncertain, trusted |-> trusted]

(* mark_recovery after an outage is soft, after a reset of the unit's       *)
(* counters hard; both are decided before the trackers are fed.             *)
SettlingForgotten(event) ==    \* mutant: an outage needs no settling
    IF event = "unitReset" THEN SETTLING ELSE Sooner(settling)
SettlingNow(event) ==
    IF ~up \/ event = "unitReset" THEN SETTLING ELSE Sooner(settling)

PackResets == {"packReset", "otherPackReset"}

(* History: what happened just now must not lie inside a segment.           *)
Cross(r) == [r EXCEPT !.tracker.crossed = r.tracker.active]

(* How update() treats the unit's tracker; a pack's reset is noticed after  *)
(* the unit has been fed, and discards what is still open then.             *)
UnitStep(r0, event, learning, in) ==
    LET r1 == IF ~up THEN MarkGap(r0) ELSE r0
        r2 == IF event = "unitReset" THEN Discard(Cross(r1)) ELSE r1
        r3 == IF learning THEN Feed(r2, in) ELSE MarkGap(r2)
    IN  IF event \in PackResets THEN Discard(Cross(r3)) ELSE r3

(* PackCapacityTracker.feed() for the followed pack: another serial number  *)
(* brings a new tracker and new counters.                                   *)
PackStep(r0, event, learning, online, in) ==
    LET r1 == IF event = "replaced"
                THEN [tracker |-> NoSegment, segments |-> <<>>] ELSE r0
        r2 == IF event = "packReset" THEN Discard(Cross(r1)) ELSE r1
    IN  IF learning /\ online THEN Feed(r2, in) ELSE MarkGap(r2)

EngineStep(r, event, learning, online, in) ==
    IF kind = "unit" THEN UnitStep(r, event, learning, in)
                     ELSE PackStep(r, event, learning, online, in)

Update(read, shown, event) ==
    LET starts   == shown /\ ~calibSeen
        settle   == IF ~shown /\ calibSeen THEN CALIB_SETTLE ELSE Sooner(calibSettle)
        now      == SettlingNow(event)
        learning == learningEnabled /\ now = 0
        flagged  == IF starts THEN [Aged EXCEPT !.segments = RetroExclude(@)]
                              ELSE Aged
        after    == EngineStep(flagged, event, learning, read.online,
                        Sample(read, shown \/ settle > 0, Trusted(event)))
    IN  /\ ~saveDue /\ MayShow(shown)
        /\ tracker' = after.tracker /\ segments' = after.segments
        /\ calibSeen' = shown /\ calibSettle' = settle
        /\ settling' = IF event \in PackResets THEN SETTLING ELSE now
        /\ up' = TRUE
        /\ calibRegister' = shown /\ ClockOfTheBms
        /\ savedEngine' = [savedEngine EXCEPT !.segments = AgedSegments(@)]
        /\ saveDue' = (event # "none" \/ starts \/ segments' # Aged.segments)
        /\ noticed' = IF ~starts \/ noticed # "not yet" THEN noticed
                      ELSE IF lag <= LATENCY THEN "in time" ELSE "late"
        /\ calm' = IF ~up \/ event \in {"unitReset"} \cup PackResets THEN 1
                   ELSE Longer(calm, SETTLING)
        /\ UNCHANGED <<kind, learningEnabled>>

Tick == \E read \in Reads, shown \in BOOLEAN, event \in Events :
            Update(read, shown, event)

-----------------------------------------------------------------------------
(* The switch, the button, the store and restarts.                          *)

Now == Snapshot(segments, learningEnabled)

(* async_set_learning_enabled: re-enabling is a hard recovery, for the      *)
(* unit; both flush the store.                                              *)
SetLearningEnabled ==
    /\ learningEnabled' = ~learningEnabled
    /\ LET r == [tracker |-> tracker, segments |-> segments]
       IN  tracker' = IF kind = "pack" THEN tracker
                      ELSE IF learningEnabled THEN MarkGap(r).tracker
                      ELSE Discard(Cross(r)).tracker
    /\ settling' = IF learningEnabled THEN settling ELSE SETTLING + 1
    /\ calm' = IF learningEnabled THEN calm ELSE 0
    /\ savedEngine' = [Now EXCEPT !.learningEnabled = learningEnabled']
    /\ saveDue' = FALSE
    /\ UNCHANGED <<kind, bms, segments, calibSeen, calibSettle, up, noticed>>

(* The delayed write of _maybe_save.                                        *)
Write ==
    /\ saveDue
    /\ savedEngine' = Now /\ saveDue' = FALSE
    /\ UNCHANGED <<kind, bms, engine, up, history>>

(* Home Assistant stops, with async_unload's last flush or without it, and  *)
(* async_initialize loads the store or, failing that, starts afresh.        *)
RestartEngine ==
    \E kept \in {savedEngine, Now}, loaded \in BOOLEAN :
      LET from == IF loaded THEN kept ELSE Fresh
      IN  /\ segments' = from.segments
          /\ learningEnabled' = from.learningEnabled
          /\ savedEngine' = kept /\ saveDue' = FALSE
          /\ tracker' = NoSegment
          /\ settling' = SETTLING + 1 /\ calibSeen' = FALSE /\ calibSettle' = 0
          /\ up' = TRUE
          /\ calibRegister' = FALSE
          /\ lag' = IF calibrating THEN LATENCY + 1 ELSE 0
          /\ noticed' = "late" /\ calm' = 0
          /\ UNCHANGED <<kind, calibrating, sinceCalibration>>

SegmentsNext ==
    \/ CalibrationStarts \/ CalibrationEnds
    \/ UpdateFails \/ Tick
    \/ SetLearningEnabled \/ Write \/ RestartEngine

SegmentsSpec == SegmentsInit /\ [][SegmentsNext]_segmentVars

-----------------------------------------------------------------------------
(* Properties.                                                              *)

(* No recorded segment reaches across a restart of its counters, another    *)
(* pack, a re-enabled switch (the unit's) or a gap that is too long.        *)
NothingSpansABoundary ==
    \A i \in DOMAIN segments : ~segments[i].crossed

(* Once a calibration has been noticed, within the latency the register is  *)
(* read with, no segment that overlaps it or the time just after it counts: *)
(* not one that ended before it was noticed, not one still open, not one    *)
(* that starts after the register looks quiet again.                        *)
NoticedCalibrationExcluded ==
    noticed = "in time" =>
        \A i \in DOMAIN segments :
            segments[i].calibration => segments[i].excluded

(* No segment is recorded while the switch is off, or before the settling   *)
(* period has passed after whatever disturbed the system last.              *)
LearnsOnlyWhenCalm ==
    \A i \in DOMAIN segments : segments[i].trusted
=============================================================================
