------------------------------ MODULE PeerWake ------------------------------
(* Night mode of the coordinators on one RS485 bus: each one's              *)
(* NightModeDetector (night_mode.py), the poll interval and the cache's     *)
(* night flag that its callback sets, and the wake that a coordinator       *)
(* leaving night mode on its own evidence spreads to its peers              *)
(* (update_coordinator.py, HS-2310-004).  Polls are in flight while peers   *)
(* wake each other, config entries unload in the middle of a poll, reads    *)
(* fail or bring no usable value.  Time passes in ticks.                    *)
EXTENDS Integers

CONSTANTS
    Coordinators,     \* one per device on the bus
    NIGHT_ENTRY_HOLD, \* consecutive dark polls before night
    PEER_WAKE_HOLD    \* ticks for which a woken peer ignores the dark

ASSUME PeerWakeAssumption ==
    {NIGHT_ENTRY_HOLD, PEER_WAKE_HOLD} \subseteq Nat \ {0}

VARIABLES
    loaded,     \* a member of _BUS_MEMBERS, not _shutdown
    spreading,  \* _bus_policy.dawn_peer_wake, an option of its entry
    sky,        \* the device's surroundings: its PV power and what it reports
    mode,       \* NightModeDetector._mode
    below,      \* _below_threshold_count
    hold,       \* ticks left to _night_entry_suppressed_until
    nightCache, \* RegisterCache._night_mode
    interval,   \* update_interval, "day" or "night"
    polling,    \* _async_update_data is waiting for the bus
    sinceDawn   \* history: ticks since a peer's dawn found it asleep

detectors == <<mode, below, hold>>
wakeVars  == <<loaded, spreading, sky, detectors, nightCache, interval, polling, sinceDawn>>

(* PV input against the two thresholds; "standby" is a device status that   *)
(* forces the night, whatever the power.                                    *)
Skies == {"dark", "dim", "bright", "standby"}

(* Longer ago than any hold.                                                *)
LongAgo == PEER_WAKE_HOLD

PeerWakeTypeOK ==
    /\ loaded \in [Coordinators -> BOOLEAN]
    /\ spreading \in [Coordinators -> BOOLEAN]
    /\ sky \in [Coordinators -> Skies]
    /\ mode \in [Coordinators -> {"DAY", "NIGHT"}]
    /\ below \in [Coordinators -> 0 .. NIGHT_ENTRY_HOLD]
    /\ hold \in [Coordinators -> 0 .. PEER_WAKE_HOLD]
    /\ nightCache \in [Coordinators -> BOOLEAN]
    /\ interval \in [Coordinators -> {"day", "night"}]
    /\ polling \in [Coordinators -> BOOLEAN]
    /\ sinceDawn \in [Coordinators -> 0 .. LongAgo]

PeerWakeInit ==
    /\ loaded = [c \in Coordinators |-> TRUE]
    /\ spreading \in [Coordinators -> BOOLEAN]
    /\ sky \in [Coordinators -> {"dark", "bright"}]
    /\ mode = [c \in Coordinators |-> "DAY"]
    /\ below = [c \in Coordinators |-> 0]
    /\ hold = [c \in Coordinators |-> 0]
    /\ nightCache = [c \in Coordinators |-> FALSE]
    /\ interval = [c \in Coordinators |-> "day"]
    /\ polling = [c \in Coordinators |-> FALSE]
    /\ sinceDawn = [c \in Coordinators |-> LongAgo]

(***************************************************************************)
(* The detector.                                                           *)
(***************************************************************************)

(* evaluate(): what the merged result makes of one detector; "none" is a    *)
(* result without a usable power.                                           *)
Suppressed(d) == d.mode = "DAY" /\ d.hold > 0

ByStatus(d) == [d EXCEPT !.below = NIGHT_ENTRY_HOLD, !.mode = "NIGHT"]

ByPower(d, seen) ==
    CASE d.mode = "DAY" /\ seen = "dark" ->
             [d EXCEPT !.below = @ + 1,
                       !.mode = IF d.below + 1 >= NIGHT_ENTRY_HOLD THEN "NIGHT" ELSE @]
      [] d.mode = "DAY" /\ seen \in {"dim", "bright"} -> [d EXCEPT !.below = 0]
      [] d.mode = "NIGHT" /\ seen = "bright" -> [d EXCEPT !.below = 0, !.mode = "DAY"]
      [] OTHER -> d

Unsuppressed(d, seen) == IF seen = "standby" THEN ByStatus(d) ELSE ByPower(d, seen)

EvaluateStatusFirst(d, seen) ==
    IF seen = "standby" THEN ByStatus(d)
    ELSE IF Suppressed(d) THEN [d EXCEPT !.below = 0] ELSE ByPower(d, seen)

EvaluateSlidingHold(d, seen) ==
    IF Suppressed(d) THEN [d EXCEPT !.below = 0, !.hold = PEER_WAKE_HOLD]
    ELSE Unsuppressed(d, seen)

Evaluate(d, seen) ==
    IF Suppressed(d) THEN [d EXCEPT !.below = 0] ELSE Unsuppressed(d, seen)

(* force_day().                                                             *)
ForcedDayNoHold(d) ==
    IF d.mode = "NIGHT" THEN [mode |-> "DAY", below |-> 0, hold |-> 0] ELSE d

ForcedDay(d) ==
    IF d.mode = "NIGHT" THEN [mode |-> "DAY", below |-> 0, hold |-> PEER_WAKE_HOLD]
    ELSE d

Detector(c) == [mode |-> mode[c], below |-> below[c], hold |-> hold[c]]

(***************************************************************************)
(* The bus.                                                                *)
(***************************************************************************)

(* _bus_peers(), without those that _peer_wake() leaves alone: awake ones,  *)
(* and ones that shut down.                                                 *)
SleepingPeers(c) == {p \in Coordinators \ {c} : loaded[p] /\ mode[p] = "NIGHT"}

(* The detectors after coordinator c has evaluated a result: c's own, and,  *)
(* when that woke c, the peers that _wake_bus_peers() forces awake.         *)
Woken(c, own) ==
    IF mode[c] = "NIGHT" /\ own.mode = "DAY" /\ spreading[c]
    THEN SleepingPeers(c) ELSE {}

AfterEvaluation(c, own) ==
    [p \in Coordinators |->
        IF p = c THEN own
        ELSE IF p \in Woken(c, own) THEN ForcedDay(Detector(p))
        ELSE Detector(p)]

(* _on_mode_change(): the cache and the interval follow a detector whose    *)
(* mode changed, and keep what they have otherwise.                         *)
FollowMode(after) ==
    LET changed(p) == after[p].mode # mode[p]
        night(p)   == after[p].mode = "NIGHT"
    IN  /\ nightCache' = [p \in Coordinators |->
                             IF changed(p) THEN night(p) ELSE nightCache[p]]
        /\ interval' = [p \in Coordinators |->
                           IF ~changed(p) THEN interval[p]
                           ELSE IF night(p) THEN "night" ELSE "day"]

(***************************************************************************)
(* Polls.                                                                  *)
(***************************************************************************)

(* Step 1 of _async_update_data(): outside night mode the adaptive          *)
(* parameters set the interval; then the poll waits for the bus.            *)
PollIntervalAlways(c) == "day"

PollInterval(c) == IF nightCache[c] THEN interval[c] ELSE "day"

StartPoll(c) ==
    /\ loaded[c] /\ ~polling[c]
    /\ polling' = [polling EXCEPT ![c] = TRUE]
    /\ interval' = [interval EXCEPT ![c] = PollInterval(c)]
    /\ UNCHANGED <<loaded, spreading, sky, detectors, nightCache, sinceDawn>>

(* The end of a poll that returns a result.  An entry may have unloaded     *)
(* meanwhile: nothing stops the poll, nor its evaluation.                   *)
EndPoll(c, seen) ==
    LET own   == Evaluate(Detector(c), seen)
        after == AfterEvaluation(c, own)
    IN  /\ polling[c]
        /\ polling' = [polling EXCEPT ![c] = FALSE]
        /\ mode' = [p \in Coordinators |-> after[p].mode]
        /\ below' = [p \in Coordinators |-> after[p].below]
        /\ hold' = [p \in Coordinators |-> after[p].hold]
        /\ FollowMode(after)
        /\ sinceDawn' = [p \in Coordinators |->
                            IF p \in Woken(c, own) THEN 0 ELSE sinceDawn[p]]
        /\ UNCHANGED <<loaded, spreading, sky>>

PollReads(c)        == EndPoll(c, sky[c])
PollReadsNoPower(c) == EndPoll(c, "none")

(* UpdateFailed, or an exception on the way: no evaluation.                 *)
PollFails(c) ==
    /\ polling[c]
    /\ polling' = [polling EXCEPT ![c] = FALSE]
    /\ UNCHANGED <<loaded, spreading, sky, detectors, nightCache, interval, sinceDawn>>

(***************************************************************************)
(* Config entries, the sky and the clock.                                  *)
(***************************************************************************)

(* _on_entry_unload().                                                      *)
Unload(c) ==
    /\ loaded[c]
    /\ loaded' = [loaded EXCEPT ![c] = FALSE]
    /\ UNCHANGED <<spreading, sky, detectors, nightCache, interval, polling, sinceDawn>>

(* A new coordinator object takes the place of the one that unloaded, with  *)
(* the options as they are now.  The old one's last poll is over by then.   *)
Load(c) ==
    /\ ~loaded[c] /\ ~polling[c]
    /\ loaded' = [loaded EXCEPT ![c] = TRUE]
    /\ \E option \in BOOLEAN : spreading' = [spreading EXCEPT ![c] = option]
    /\ mode' = [mode EXCEPT ![c] = "DAY"]
    /\ below' = [below EXCEPT ![c] = 0]
    /\ hold' = [hold EXCEPT ![c] = 0]
    /\ nightCache' = [nightCache EXCEPT ![c] = FALSE]
    /\ interval' = [interval EXCEPT ![c] = "day"]
    /\ sinceDawn' = [sinceDawn EXCEPT ![c] = LongAgo]
    /\ UNCHANGED <<sky, polling>>

SkyChanges(c, s) ==
    /\ sky' = [sky EXCEPT ![c] = s]
    /\ UNCHANGED <<loaded, spreading, detectors, nightCache, interval, polling, sinceDawn>>

Tick ==
    /\ \E c \in Coordinators : hold[c] > 0 \/ sinceDawn[c] < LongAgo
    /\ hold' = [c \in Coordinators |-> IF hold[c] > 0 THEN hold[c] - 1 ELSE 0]
    /\ sinceDawn' = [c \in Coordinators |->
                        IF sinceDawn[c] < LongAgo THEN sinceDawn[c] + 1 ELSE LongAgo]
    /\ UNCHANGED <<loaded, spreading, sky, mode, below, nightCache, interval, polling>>

PeerWakeNext ==
    \/ \E c \in Coordinators :
           \/ StartPoll(c) \/ PollReads(c) \/ PollReadsNoPower(c) \/ PollFails(c)
           \/ Unload(c) \/ Load(c)
           \/ \E s \in Skies : SkyChanges(c, s)
    \/ Tick

PeerWakeSafety == PeerWakeInit /\ [][PeerWakeNext]_wakeVars

(* Home Assistant starts a poll whenever the interval has passed, every     *)
(* poll comes to an end because its requests have timeouts, a device that   *)
(* is polled for ever answers again and again, and the clock runs.  Nothing *)
(* obliges the sky to change or an entry to unload.                         *)
PeerWakeSpec ==
    /\ PeerWakeSafety
    /\ WF_wakeVars(Tick)
    /\ \A c \in Coordinators :
           WF_wakeVars(StartPoll(c)) /\ SF_wakeVars(PollReads(c))

(***************************************************************************)
(* Properties.                                                             *)
(***************************************************************************)

(* HS-2310-004, const.py:853-858: a coordinator that a peer's dawn found    *)
(* asleep stays awake for PEER_WAKE_HOLD, whatever its own device still     *)
(* reports, however the polls of the two interleave.                        *)
SleepersStayAwake ==
    \A c \in Coordinators :
        loaded[c] /\ sinceDawn[c] < PEER_WAKE_HOLD => mode[c] = "DAY"

(* The poll interval and the cache's night flag are those of the detector's *)
(* mode, in the middle of a poll too: a peer's wake lands while this        *)
(* coordinator's own poll waits, between step 1 that sets the interval and  *)
(* the evaluation that may set it again.                                    *)
IntervalFollowsMode ==
    \A c \in Coordinators :
        /\ nightCache[c] <=> mode[c] = "NIGHT"
        /\ interval[c] = IF mode[c] = "NIGHT" THEN "night" ELSE "day"

(* Once the sun is down for every device and the entries stay loaded, every *)
(* coordinator goes to night mode for good: the holds run out and the peers *)
(* do not keep waking each other.                                           *)
EveryoneSleepsAtLast ==
    <>[](\A c \in Coordinators : loaded[c] /\ sky[c] = "dark")
        => <>[](\A c \in Coordinators : mode[c] = "NIGHT")
=============================================================================
