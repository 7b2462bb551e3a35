--------------------------- MODULE BatteryBaselines ---------------------------
(* The learned references of battery_health.py: the debounced charge        *)
(* ceiling, the round-trip efficiency windows and the pack balance samples, *)
(* each with the baseline it is compared with, while the ceiling changes or *)
(* is misread, learning pauses, calibrations are noticed late, baselines    *)
(* are reset and Home Assistant restarts from an older store.               *)
(*                                                                          *)
(* The two trackers share the ceiling and nothing else, and the energy      *)
(* counters (EnergyCounter) share nothing with them: one of the three is    *)
(* followed.  Learning and an uncertain calibration are inputs here: when   *)
(* they hold is the subject of BatterySegments.  A window or a sample is    *)
(* represented by the ceilings it was measured under.                       *)
EXTENDS EnergyCounter, Sequences, FiniteSets, SequencesExt

CONSTANTS
    Ceilings,       \* plausible values of register 47081
    DEBOUNCE,       \* ceiling_debounce_samples
    SERVED,         \* polls a value may be served from the cache, once read
    WINDOWS,        \* the maxlen of the windows
    EFF_BASELINE,   \* eff_baseline_windows
    SAMPLES,        \* balance_sample_count
    BAL_BASELINE,   \* balance_baseline_min_samples
    SETTLE,         \* balance_rest_settle_s
    SPACING         \* balance_min_sample_spacing_s

ASSUME BaselinesAssumption ==
    /\ {DEBOUNCE, WINDOWS, EFF_BASELINE, SAMPLES, BAL_BASELINE, SPACING}
           \subseteq Nat \ {0}
    /\ {SERVED, SETTLE} \subseteq Nat
    /\ EFF_BASELINE <= WINDOWS

VARIABLES
    followed,    \* "efficiency", "balance" or "counter"
    register,    \* 47081 as the cache holds it: the value, how often served
    ceiling,     \* CeilingMonitor
    lastCeiling, \* the tracker's last_ceiling
    efficiency,  \* EfficiencyTracker: anchor, windows, pool, baseline
    balance,     \* BalanceTracker: rest, samples, pool, baseline, scores
    saved,       \* the store: what to_dict() wrote of all this
    reads        \* history: separate reads behind the candidate ceiling

trackers == <<register, ceiling, lastCeiling, efficiency, balance, saved, reads>>
vars     == <<followed, trackers, counterVars>>

Unknown     == "unknown"
Implausible == "implausible"

(* No baseline is set, or one that was measured under these ceilings.       *)
Pending     == [set |-> FALSE, under |-> {}]
Learned(us) == [set |-> TRUE, under |-> us]

NoAnchor == [open |-> FALSE, tier |-> 0, under |-> {}]

NewEfficiency ==
    [anchor |-> NoAnchor, windows |-> <<>>, pool |-> <<>>, baseline |-> Pending]

NewBalance ==
    [rested |-> -1, sampled |-> FALSE, since |-> SPACING,
     samples |-> <<>>, pool |-> <<>>, baseline |-> Pending, scores |-> <<>>]

NoRegister == [value |-> Unknown, served |-> SERVED]
NewMonitor == [value |-> Unknown, candidate |-> Unknown, streak |-> 0]

Store(value, last, e, b) ==
    [value |-> value, last |-> last, efficiency |-> e, balance |-> b]

Init ==
    /\ followed \in {"efficiency", "balance", "counter"}
    /\ register = NoRegister
    /\ ceiling = NewMonitor /\ lastCeiling = Unknown
    /\ efficiency = NewEfficiency /\ balance = NewBalance
    /\ saved = Store(Unknown, Unknown, NewEfficiency, NewBalance)
    /\ reads = 0
    /\ CounterInit /\ (followed # "counter" => raw = 0)

-----------------------------------------------------------------------------
(* CeilingMonitor.feed().                                                   *)

(* What the cache serves as GOOD: the value just read, or for a while the   *)
(* one that was read before; nothing once it is uncertain.                  *)
Polls ==
    {[value |-> v, served |-> 0] : v \in Ceilings \cup {Implausible}}
      \cup (IF register.served < SERVED
              THEN {[register EXCEPT !.served = @ + 1]} ELSE {})
      \cup {NoRegister}

Agreed(m, v) == IF m.candidate = v THEN m.streak + 1 ELSE 1

(* The floor, the first value, and the debounce.                            *)
Ceiling(m, v) ==
    CASE v \in {Unknown, Implausible} -> m
      [] v \in Ceilings /\ m.value = Unknown -> [m EXCEPT !.value = v]
      [] v \in Ceilings /\ m.value = v -> [NewMonitor EXCEPT !.value = v]
      [] v \in Ceilings /\ m.value \notin {Unknown, v} ->
           IF Agreed(m, v) >= DEBOUNCE
             THEN [NewMonitor EXCEPT !.value = v]
             ELSE [m EXCEPT !.candidate = v, !.streak = Agreed(m, v)]

(* A tracker starts a new epoch when the accepted ceiling is not its last,  *)
(* but only while it learns.                                                *)
NewEpoch(c, learn) == learn /\ c # Unknown /\ lastCeiling \notin {Unknown, c}

LastCeilingAlways(c, learn) ==   \* mutant: taken over while paused as well
    IF c # Unknown THEN c ELSE lastCeiling
LastCeiling(c, learn) ==
    IF c # Unknown /\ (learn \/ lastCeiling = Unknown) THEN c ELSE lastCeiling

Known(c) == {c} \ {Unknown}

-----------------------------------------------------------------------------
(* EfficiencyTracker.                                                       *)

Capped(s, max) == IF Len(s) > max THEN Tail(s) ELSE s

(* _record_window: while the baseline is pending its pool grows with the    *)
(* windows.                                                                 *)
RecordWindow(e, w) ==
    LET pool == IF e.baseline.set THEN e.pool ELSE Append(e.pool, w)
    IN  [e EXCEPT !.windows = Capped(Append(@, w), WINDOWS),
                  !.pool = pool,
                  !.baseline = IF ~@.set /\ Len(pool) >= EFF_BASELINE
                                 THEN Learned(UNION ToSet(pool)) ELSE @]

(* What becomes of an anchor that follows an open one.                      *)
Outcomes == {"too little charge", "mismatched", "implausible", "window"}

(* feed() at a qualifying anchor (tier 1 or 2): too little charge since the *)
(* open one leaves it open, with only its time moved; a tier 2 pair may not *)
(* match; the ratio may be implausible or an outlier.                       *)
FeedAnchor(e, tier, c, outcome) ==
    LET new  == [open |-> TRUE, tier |-> tier, under |-> Known(c)]
        next == [e EXCEPT !.anchor = new]
    IN  CASE ~e.anchor.open -> next
          [] e.anchor.open /\ outcome = "too little charge" -> e
          [] e.anchor.open /\ outcome \in {"mismatched", "implausible"} -> next
          [] e.anchor.open /\ outcome = "window" ->
               RecordWindow(next, e.anchor.under \cup Known(c))

MayHappen(e, tier, outcome) ==
    /\ outcome = "mismatched" => e.anchor.open /\ 2 \in {tier, e.anchor.tier}
    /\ tier = 0 \/ ~e.anchor.open => outcome = "window"

(* drop_windows_since: the windows that closed within the latency of the    *)
(* register, n of them, and the open anchor.                                *)
DropWindowsOnly(e, n) ==    \* mutant: the pool keeps what is dropped
    [e EXCEPT !.anchor = NoAnchor, !.windows = SubSeq(@, 1, Len(@) - n)]
DropWindows(e, n) ==
    [e EXCEPT !.anchor = NoAnchor,
              !.windows = SubSeq(@, 1, Len(@) - n),
              !.pool = IF e.baseline.set \/ n = 0 THEN @
                       ELSE SubSeq(@, 1, IF n > Len(@) THEN 0 ELSE Len(@) - n)]

(* rederive: the windows are played again under today's rules, which may    *)
(* reject some of them.                                                     *)
Rederive(e, kept) ==
    LET replay[n \in 0..Len(e.windows)] ==
            IF n = 0 THEN [NewEfficiency EXCEPT !.anchor = e.anchor]
            ELSE IF n \in kept THEN RecordWindow(replay[n - 1], e.windows[n])
            ELSE replay[n - 1]
    IN  replay[Len(e.windows)]

(* invalidate_anchor, when an energy counter restarted.                     *)
InvalidateAnchor(e) == [e EXCEPT !.anchor = NoAnchor]

(* A counter's restart and a calibration's start (dropped is -1 when there  *)
(* is none) come first, learning or not, then the ceiling, then the anchor. *)
(* Tier 0: the battery is not at rest at the top, a value is missing or a   *)
(* calibration uncertain.                                                   *)
FeedEfficiency(c, learn, restarted, dropped, tier, outcome) ==
    LET e  == IF restarted THEN InvalidateAnchor(efficiency) ELSE efficiency
        e0 == IF dropped >= 0 THEN DropWindows(e, dropped) ELSE e
        e1 == IF NewEpoch(c, learn) THEN NewEfficiency ELSE e0
    IN  /\ MayHappen(e1, tier, outcome)
        /\ efficiency' = IF learn /\ tier > 0 THEN FeedAnchor(e1, tier, c, outcome)
                                              ELSE e1

-----------------------------------------------------------------------------
(* BalanceTracker.                                                          *)

(* A tick later, by the timestamps.                                         *)
Older(age) == IF age < SPACING THEN age + 1 ELSE age

Later(b) ==
    [b EXCEPT !.samples = [i \in DOMAIN @ |-> Older(@[i])],
              !.since   = Older(@),
              !.rested  = IF @ \in 0..(SETTLE - 1) THEN @ + 1 ELSE @]

(* One sample per rest, once the pack has settled, and not too soon after   *)
(* the last one.                                                            *)
SampleDue(b) == ~b.sampled /\ b.rested >= SETTLE /\ b.since >= SPACING

(* A sample's deviation from the baseline is a score; without a baseline it *)
(* goes into the pool, and enough of them set it.                           *)
Score(b, c) ==
    LET pool == Append(b.pool, Known(c))
    IN  IF b.baseline.set
          THEN [b EXCEPT !.scores = Capped(Append(@, Known(c)), SAMPLES)]
        ELSE IF Len(pool) >= BAL_BASELINE
          THEN [b EXCEPT !.pool = <<>>, !.baseline = Learned(UNION ToSet(pool))]
        ELSE [b EXCEPT !.pool = pool]

(* new_epoch keeps the raw samples and the rest.                            *)
BalanceEpoch(b) ==
    [b EXCEPT !.pool = <<>>, !.baseline = Pending, !.scores = <<>>]

(* restart_sampling, of the upgrade to schema 4.                            *)
RestartSampling(b) == NewBalance

(* A poll without SOC or power changes nothing, not even the ceiling; one   *)
(* with the battery active or below the gate ends the rest; one with fewer  *)
(* than two packs to compare only lets it go on.                            *)
BalanceReads == {"incomplete", "active", "too few packs", "resting"}

TakeSample(b, c, scored) ==
    LET b1 == [b EXCEPT !.sampled = TRUE, !.since = 0,
                        !.samples = Capped(Append(@, 0), SAMPLES)]
    IN  IF scored THEN Score(b1, c) ELSE b1

FeedBalance(c, learn, scored, read) ==
    LET b0 == Later(balance)
        b1 == IF NewEpoch(c, learn) THEN BalanceEpoch(b0) ELSE b0
        b2 == IF b1.rested = -1 THEN [b1 EXCEPT !.rested = 0] ELSE b1
    IN  balance' = CASE read = "incomplete" -> b0
                     [] read = "active" -> [b1 EXCEPT !.rested = -1, !.sampled = FALSE]
                     [] read = "too few packs" -> b2
                     [] read = "resting" ->
                          IF SampleDue(b2) THEN TakeSample(b2, c, scored) ELSE b2

-----------------------------------------------------------------------------
(* BatteryHealthEngine.                                                     *)

(* The ceiling as the trackers see it.  The cache keeps what it may serve.  *)
MonitorStep(poll) ==
    LET m == Ceiling(ceiling, poll.value)
        differs == poll.value \in Ceilings /\ ceiling.value \notin {Unknown, poll.value}
        first   == ceiling.candidate # poll.value
    IN  /\ register' = IF poll.served < SERVED THEN poll ELSE NoRegister
        /\ ceiling' = m
        /\ reads' = CASE differs /\ first -> 1
                     [] differs /\ ~first ->
                          IF poll.served = 0 THEN reads + 1 ELSE reads
                     [] ~differs -> IF m.streak = 0 THEN 0 ELSE reads

UpdateEfficiency ==
    \E poll \in Polls, learn, restarted \in BOOLEAN, tier \in 0..2, outcome \in Outcomes,
       dropped \in -1..Len(efficiency.windows) :
      LET c == Ceiling(ceiling, poll.value).value
      IN  /\ restarted => ~learn      \* mark_recovery: settling
          /\ dropped >= 0 \/ ~learn => tier = 0
          /\ tier = 2 => c # Unknown
          /\ MonitorStep(poll)
          /\ FeedEfficiency(c, learn, restarted, dropped, tier, outcome)
          /\ lastCeiling' = LastCeiling(c, learn)
          /\ UNCHANGED <<balance, saved>>

UpdateBalance ==
    \E poll \in Polls, learn, scored \in BOOLEAN, read \in BalanceReads :
      LET c == Ceiling(ceiling, poll.value).value
      IN  /\ scored => learn    \* and the calibration is certain
          /\ MonitorStep(poll)
          /\ FeedBalance(c, learn, scored, read)
          /\ lastCeiling' = IF read = "incomplete" THEN lastCeiling
                                                   ELSE LastCeiling(c, learn)
          /\ saved' = [saved EXCEPT !.balance = Later(@)]
          /\ UNCHANGED efficiency

(* The reset buttons.                                                       *)
ResetBaseline ==
    /\ efficiency' = IF followed = "efficiency" THEN NewEfficiency ELSE efficiency
    /\ balance' = IF followed = "balance" THEN BalanceEpoch(balance) ELSE balance
    /\ UNCHANGED <<register, ceiling, lastCeiling, saved, reads>>

(* to_dict() and restore(): neither the rest that is going on is kept, nor  *)
(* the candidate ceiling or the cache.                                      *)
ForgetSpacing(b) ==    \* mutant: last_sample_ts is not restored
    [b EXCEPT !.rested = -1, !.sampled = FALSE, !.since = SPACING]
Kept(b) == [b EXCEPT !.rested = -1, !.sampled = FALSE]

Save ==
    /\ saved' = Store(ceiling.value, lastCeiling, efficiency, Kept(balance))
    /\ UNCHANGED <<register, ceiling, lastCeiling, efficiency, balance, reads>>

Restart ==
    /\ ceiling' = [NewMonitor EXCEPT !.value = saved.value]
    /\ lastCeiling' = saved.last
    /\ efficiency' = saved.efficiency /\ balance' = saved.balance
    /\ register' = NoRegister
    /\ reads' = 0
    /\ UNCHANGED saved

(* _apply_upgrade_2320, on a store of schema 3.                             *)
Upgrade ==
    /\ \E kept \in SUBSET DOMAIN saved.efficiency.windows :
         efficiency' = IF followed = "efficiency"
                         THEN Rederive(saved.efficiency, kept) ELSE efficiency
    /\ balance' = IF followed = "balance" THEN RestartSampling(balance) ELSE balance
    /\ ceiling' = [NewMonitor EXCEPT !.value = saved.value]
    /\ lastCeiling' = saved.last
    /\ register' = NoRegister
    /\ reads' = 0
    /\ saved' = Store(saved.value, saved.last, efficiency', balance')

EngineNext ==
    \/ followed = "efficiency" /\ UpdateEfficiency
    \/ followed = "balance" /\ UpdateBalance
    \/ ResetBaseline \/ Save \/ Restart \/ Upgrade

Next ==
    \/ followed # "counter" /\ EngineNext /\ UNCHANGED <<followed, counterVars>>
    \/ followed = "counter" /\ CounterNext /\ UNCHANGED <<followed, trackers>>

Spec == Init /\ [][Next]_vars

-----------------------------------------------------------------------------
(* Properties.                                                              *)

(* Whatever is compared with one another was measured under one ceiling,    *)
(* the tracker's last: no window, score, pooled sample or baseline survives *)
(* a change that happened while learning was paused or the engine was down, *)
(* and none spans one.                                                      *)
EpochHasOneCeiling ==
    LET under(s) == UNION ToSet(s)
        measured == under(efficiency.windows \o efficiency.pool)
                      \cup under(balance.scores \o balance.pool)
                      \cup efficiency.baseline.under \cup balance.baseline.under
    IN  measured \subseteq Known(lastCeiling)

(* While the efficiency baseline is pending it is collected from exactly    *)
(* the windows that count: none that a late-noticed calibration removed,    *)
(* and none that the upgrade rejected.                                      *)
PoolIsTheWindows ==
    ~efficiency.baseline.set => efficiency.pool = efficiency.windows

(* Two balance samples are at least the spacing apart, across epochs and    *)
(* restarts, so that no baseline is made of one afternoon's rest.           *)
SamplesApart ==
    \A i \in DOMAIN balance.samples :
        i < Len(balance.samples) => balance.samples[i] >= SPACING

(* battery_health.py:855: "change confirmed ... after %d consistent         *)
(* readings", and :811: "a genuine setting change persists across           *)
(* consecutive polls; a transient does not": as many separate readings of   *)
(* the register agree before the ceiling changes.                           *)
ConfirmedByReadings ==
    [][ceiling'.value # ceiling.value /\ ceiling.value # Unknown
          /\ reads' > 0
        => reads' >= DEBOUNCE]_vars
=============================================================================
