------------------------- MODULE BatteryHealthProofs -------------------------
(***************************************************************************)
(* The battery health engine.  EnergyCounter: for every tolerance, jitter  *)
(* within it and amount of energy the continuous total never exceeds what  *)
(* was delivered and no reading lets it fall.  BatterySegments: what a     *)
(* recorded segment never reaches across, for any settling period, latency *)
(* and bridge that relate as SegmentsAssumption says.                      *)
(* BatteryBaselines: whatever is compared was measured under one ceiling,  *)
(* for any debounce, spacing and length of the windows.                    *)
(***************************************************************************)
EXTENDS BatteryBaselines, BatterySegments, SequenceTheorems,
        WellFoundedInduction, TLAPS

(***************************************************************************)
(* The counter of lifetime energy.                                         *)
(***************************************************************************)

TypeOK ==
    /\ raw \in Nat /\ earlier \in Nat
    /\ counter \in Monitors /\ savedCounter \in Monitors

(* What makes NeverOvercounts inductive: the last value was read since the  *)
(* counter last restarted, and the offset is of its earlier lives; or it    *)
(* was read in one of those, and all of the total is.                       *)
Accounted(c) ==
    c.known => \/ c.last <= raw /\ c.offset <= earlier
               \/ c.last + c.offset <= earlier

UnreadIsZero(c) == ~c.known => c.last = 0 /\ c.offset = 0

IInv ==
    /\ TypeOK
    /\ Accounted(counter) /\ Accounted(savedCounter)
    /\ UnreadIsZero(counter) /\ UnreadIsZero(savedCounter)

(* A reading keeps a monitor's type, its account and the zeros of one that  *)
(* was never read: the three cases of CounterMonitor.feed().                *)
LEMMA FedAccounts ==
    ASSUME raw \in Nat, earlier \in Nat,
           NEW c \in Monitors, Accounted(c), UnreadIsZero(c),
           NEW reading \in Readings
    PROVE  /\ Fed(c, reading) \in Monitors
           /\ Accounted(Fed(c, reading))
           /\ UnreadIsZero(Fed(c, reading))
           /\ c.known => Total(Fed(c, reading)) >= Total(c)
<1>1. /\ reading \in Nat /\ reading <= raw /\ reading >= raw - JITTER
      /\ TOLERANCE \in Nat /\ JITTER \in Nat /\ JITTER <= TOLERANCE
  BY CounterAssumption DEF Readings
<1>2. /\ c.known \in BOOLEAN /\ c.last \in Nat /\ c.offset \in Nat
      /\ c.stale \in BOOLEAN
  BY DEF Monitors
<1>3. CASE c.known /\ reading < c.last - TOLERANCE
  <2> DEFINE d == [c EXCEPT !.offset = @ + c.last, !.last = reading, !.stale = FALSE]
  <2>1. Fed(c, reading) = d
    BY <1>1, <1>2, <1>3 DEF Fed
  <2>2. PICK sum \in Nat : sum = c.offset + c.last
    BY <1>2
  <2> HIDE DEF d
  <2>3. d = [c EXCEPT !.offset = sum, !.last = reading, !.stale = FALSE]
    BY <2>2 DEF d
  <2>4. /\ d \in Monitors /\ d.known = c.known /\ d.last = reading
        /\ d.offset = sum
    BY <1>1, <2>3 DEF Monitors
  <2>5. c.last + c.offset <= earlier
    BY <1>1, <1>2, <1>3 DEF Accounted
  <2>6. QED
    BY <1>1, <1>2, <1>3, <2>1, <2>2, <2>4, <2>5 DEF Accounted, UnreadIsZero, Total
<1>4. CASE c.known /\ reading < c.last /\ reading >= c.last - TOLERANCE
  <2> DEFINE d == [c EXCEPT !.stale = TRUE]
  <2>1. Fed(c, reading) = d
    BY <1>1, <1>2, <1>4 DEF Fed, Missed
  <2>2. d \in Monitors /\ d.known = c.known /\ d.last = c.last /\ d.offset = c.offset
    BY <1>2 DEF Monitors
  <2> HIDE DEF d
  <2>3. QED
    BY <1>2, <2>1, <2>2 DEF Accounted, UnreadIsZero, Total
<1>5. CASE ~c.known \/ reading >= c.last
  <2> DEFINE d == [c EXCEPT !.known = TRUE, !.last = reading, !.stale = FALSE]
  <2>1. Fed(c, reading) = d
    BY <1>1, <1>2, <1>5 DEF Fed
  <2>2. d \in Monitors /\ d.known = TRUE /\ d.last = reading /\ d.offset = c.offset
    BY <1>1, <1>2 DEF Monitors
  <2>3. c.offset <= earlier
    BY <1>2 DEF Accounted, UnreadIsZero
  <2> HIDE DEF d
  <2>4. QED
    BY <1>1, <1>2, <1>5, <2>1, <2>2, <2>3 DEF Accounted, UnreadIsZero, Total
<1>6. QED
  BY <1>1, <1>2, <1>3, <1>4, <1>5

(* A missed reading changes nothing but the staleness.                      *)
LEMMA MissedAccounts ==
    ASSUME NEW c \in Monitors, Accounted(c), UnreadIsZero(c), NEW b \in BOOLEAN,
           NEW d, d = [c EXCEPT !.stale = b]
    PROVE  d \in Monitors /\ Accounted(d) /\ UnreadIsZero(d) /\ Total(d) = Total(c)
<1>1. d \in Monitors /\ d.known = c.known /\ d.last = c.last /\ d.offset = c.offset
  BY DEF Monitors
<1>2. QED
  BY <1>1 DEF Accounted, UnreadIsZero, Total

LEMMA InitIInv == CounterInit => IInv
<1> SUFFICES ASSUME CounterInit PROVE IInv
  OBVIOUS
<1>1. MAX_ENERGY \in Nat
  BY CounterAssumption
<1>2. QED
  BY <1>1 DEF CounterInit, IInv, TypeOK, Accounted, UnreadIsZero, Unread, Monitors

LEMMA NextIInv == IInv /\ [CounterNext]_counterVars => IInv'
<1> SUFFICES ASSUME IInv, [CounterNext]_counterVars PROVE IInv'
  OBVIOUS
<1> USE DEF IInv, TypeOK
<1>1. CASE Deliver
  <2>1. \A c \in Monitors : Accounted(c) =>
            (c.known => \/ c.last <= raw + 1 /\ c.offset <= earlier
                        \/ c.last + c.offset <= earlier)
    BY DEF Accounted, Monitors
  <2>2. QED
    BY <1>1, <2>1 DEF Deliver, Accounted, UnreadIsZero
<1>2. CASE CounterRestarts
  <2>1. \A c \in Monitors : Accounted(c) =>
            (c.known => c.last + c.offset <= earlier + raw)
    BY DEF Accounted, Monitors
  <2>2. QED
    BY <1>2, <2>1 DEF CounterRestarts, Accounted, UnreadIsZero
<1>3. CASE FeedCounter
  <2>1. raw' = raw /\ earlier' = earlier /\ savedCounter' = savedCounter
    BY <1>3 DEF FeedCounter
  <2>2. counter' \in Monitors /\ Accounted(counter') /\ UnreadIsZero(counter')
    <3>1. CASE counter' = Missed(counter)
      BY <3>1, MissedAccounts DEF Missed
    <3>2. ASSUME NEW reading \in Readings, counter' = Fed(counter, reading)
          PROVE  counter' \in Monitors /\ Accounted(counter') /\ UnreadIsZero(counter')
      BY <3>2, FedAccounts
    <3>3. QED
      BY <1>3, <3>1, <3>2 DEF FeedCounter
  <2>3. QED
    BY <2>1, <2>2 DEF Accounted, UnreadIsZero
<1>4. CASE SaveCounter
  BY <1>4 DEF SaveCounter, Accounted, UnreadIsZero
<1>5. CASE RestoreCounter
  <2>1. /\ counter' \in Monitors /\ Accounted(counter') /\ UnreadIsZero(counter')
        /\ raw' = raw /\ earlier' = earlier /\ savedCounter' = savedCounter
    BY <1>5, MissedAccounts DEF RestoreCounter
  <2>2. QED
    BY <2>1 DEF Accounted, UnreadIsZero
<1>6. CASE UNCHANGED counterVars
  BY <1>6 DEF counterVars, Accounted, UnreadIsZero
<1>7. QED
  BY <1>1, <1>2, <1>3, <1>4, <1>5, <1>6 DEF CounterNext

(* What the total is made of, at every moment.                              *)
THEOREM CounterAccounted == CounterSpec => []IInv
<1>1. CounterInit => IInv
  BY InitIInv
<1>2. IInv /\ [CounterNext]_counterVars => IInv'
  BY NextIInv
<1>3. QED
  BY <1>1, <1>2, PTL DEF CounterSpec

(* However often the counter restarts, is misread or is restored from an    *)
(* older store, the total never exceeds the energy delivered.               *)
THEOREM CounterNeverOvercounts == CounterSpec => []NeverOvercounts
<1>1. IInv => NeverOvercounts
  BY DEF IInv, TypeOK, Accounted, NeverOvercounts, Total, Monitors
<1>2. QED
  BY <1>1, CounterAccounted, PTL

(* No reading lets the total fall.                                          *)
THEOREM CounterTotalNeverFalls == CounterSpec => TotalNeverFalls
<1>1. ASSUME IInv, FeedCounter, counter.known
      PROVE  Total(counter') >= Total(counter)
  <2>1. CASE counter' = Missed(counter)
    <3>1. Total(counter') = Total(counter) /\ Total(counter) \in Nat
      BY <1>1, <2>1, MissedAccounts DEF Missed, IInv, TypeOK, Total, Monitors
    <3>2. QED
      BY <3>1
  <2>2. ASSUME NEW reading \in Readings, counter' = Fed(counter, reading)
        PROVE  Total(counter') >= Total(counter)
    BY <1>1, <2>2, FedAccounts DEF IInv, TypeOK
  <2>3. QED
    BY <1>1, <2>1, <2>2 DEF FeedCounter
<1>2. IInv /\ [CounterNext]_counterVars
        => [FeedCounter /\ counter.known => Total(counter') >= Total(counter)]_counterVars
  BY <1>1
<1>3. QED
  BY <1>2, CounterAccounted, PTL DEF CounterSpec, TotalNeverFalls

-----------------------------------------------------------------------------
(***************************************************************************)
(* Segments.                                                               *)
(***************************************************************************)

Segment ==
    [excluded : BOOLEAN, endAge : 0..LATENCY + 1, crossed : BOOLEAN,
     calibration : BOOLEAN, trusted : BOOLEAN]

Tracker ==
    [active : BOOLEAN, deep : BOOLEAN, excluded : BOOLEAN, gap : BOOLEAN,
     idle : Nat, good : 0..BRIDGE + 1, crossed : BOOLEAN, calibration : BOOLEAN]

SegmentsTypeOK ==
    /\ kind \in {"unit", "pack"}
    /\ calibrating \in BOOLEAN /\ sinceCalibration \in 0..LATENCY + 1
    /\ calibRegister \in BOOLEAN /\ lag \in 0..LATENCY + 1
    /\ tracker \in Tracker /\ segments \in Seq(Segment)
    /\ learningEnabled \in BOOLEAN /\ settling \in Nat
    /\ calibSeen \in BOOLEAN /\ calibSettle \in Nat
    /\ up \in BOOLEAN /\ saveDue \in BOOLEAN
    /\ savedEngine \in [segments : Seq(Segment), learningEnabled : BOOLEAN]
    /\ noticed \in {"not yet", "in time", "late"} /\ calm \in 0..SETTLING + 1

(* Recorded segments that neither cross a boundary nor were learned in a    *)
(* disturbed time.                                                          *)
Clean(ss) == \A i \in DOMAIN ss : ~ss[i].crossed /\ ss[i].trusted

(* A sample that was missed leaves a mark: without one the last good sample *)
(* is of this very tick, and after a failed poll there always is one.       *)
GapsAreMarked ==
    /\ ~tracker.crossed
    /\ tracker.active /\ ~tracker.gap => tracker.good = 0
    /\ ~up /\ tracker.active => tracker.gap

(* What is left of the settling and the calm since make up the settling.    *)
SettlingIsCalm == calm + settling > SETTLING

(* What the engine has seen of the register, and how long it has been wrong.*)
RegisterSeen ==
    /\ calibSeen <=> calibRegister
    /\ (calibRegister <=> calibrating) => lag = 0
    /\ noticed = "not yet" => ~calibRegister

(* Until a calibration is noticed, what ended under it is younger than it.  *)
EndedUnderIt ==
    noticed = "not yet" /\ calibrating /\ lag <= LATENCY =>
        \A i \in DOMAIN segments : segments[i].calibration => segments[i].endAge < lag

(* Afterwards the exclusion lasts at least as long as the calibration and   *)
(* the time after it, or an outage has stopped learning for that long.      *)
ExclusionLasts ==
    noticed = "in time" /\ ~calibRegister =>
        /\ calibrating =>
             /\ lag <= LATENCY => calibSettle + lag > LATENCY + AFTER
             /\ lag > LATENCY => ~up
        /\ ~calibrating /\ sinceCalibration < AFTER =>
             \/ calibSettle + sinceCalibration > AFTER
             \/ ~up
             \/ settling + sinceCalibration > AFTER

(* An open segment the calibration has touched and that is not excluded has *)
(* not been fed since, and will be excluded when it is, or be too old.      *)
Exposed(t) == t.active /\ t.calibration /\ ~t.excluded

ExposedIsWaiting ==
    noticed = "in time" =>
        /\ Unsettled /\ tracker.active => tracker.calibration
        /\ Exposed(tracker) =>
             tracker.gap /\ (calibSeen \/ calibSettle + tracker.good > BRIDGE)

SegmentsIInv ==
    /\ SegmentsTypeOK
    /\ Clean(segments) /\ Clean(savedEngine.segments)
    /\ GapsAreMarked
    /\ SettlingIsCalm
    /\ RegisterSeen
    /\ EndedUnderIt
    /\ ExclusionLasts
    /\ ExposedIsWaiting
    /\ NoticedCalibrationExcluded

-----------------------------------------------------------------------------
Steps == [tracker : Tracker, segments : Seq(Segment)]

LEMMA Constants ==
    /\ SETTLING \in Nat \ {0} /\ LATENCY \in Nat /\ AFTER \in Nat
    /\ BRIDGE \in Nat \ {0} /\ MAX_IDLE \in Nat /\ MAX_SEGMENTS \in Nat \ {0}
    /\ AFTER <= SETTLING /\ AFTER <= LATENCY /\ BRIDGE <= LATENCY + AFTER
    /\ CALIB_SETTLE = LATENCY + AFTER
BY SegmentsAssumption DEF CALIB_SETTLE

LEMMA LongerIsBounded ==
    ASSUME NEW limit \in Nat, NEW age \in 0..limit + 1
    PROVE  Longer(age, limit) \in 0..limit + 1
BY DEF Longer

(* A sequence of segments changed one by one is one of the same length.     *)
LEMMA MappedSegments ==
    ASSUME NEW ss \in Seq(Segment), NEW f,
           DOMAIN f = DOMAIN ss, f = [i \in DOMAIN f |-> f[i]],
           \A i \in DOMAIN ss : f[i] \in Segment
    PROVE  f \in Seq(Segment)
<1>1. Len(ss) \in Nat /\ DOMAIN ss = 1..Len(ss)
  BY LenProperties
<1>2. f \in [1..Len(ss) -> Segment]
  BY <1>1
<1>3. QED
  BY <1>1, <1>2, SeqDef

LEMMA AgedSegmentsType ==
    ASSUME NEW ss \in Seq(Segment)
    PROVE  /\ AgedSegments(ss) \in Seq(Segment)
           /\ DOMAIN AgedSegments(ss) = DOMAIN ss
           /\ \A i \in DOMAIN ss : AgedSegments(ss)[i] =
                 [ss[i] EXCEPT !.endAge = Longer(ss[i].endAge, LATENCY)]
<1>1. \A i \in DOMAIN ss : ss[i] \in Segment
  BY ElementOfSeq, LenProperties
<1>2. \A i \in DOMAIN ss :
        [ss[i] EXCEPT !.endAge = Longer(ss[i].endAge, LATENCY)] \in Segment
  <2> TAKE i \in DOMAIN ss
  <2>1. ss[i].endAge \in 0..LATENCY + 1
    BY <1>1 DEF Segment
  <2>2. Longer(ss[i].endAge, LATENCY) \in 0..LATENCY + 1
    BY <2>1, Constants, LongerIsBounded
  <2>3. QED
    BY <1>1, <2>2 DEF Segment
<1> DEFINE f == [i \in DOMAIN ss |->
                   [ss[i] EXCEPT !.endAge = Longer(ss[i].endAge, LATENCY)]]
<1>3. AgedSegments(ss) = f
  BY DEF AgedSegments
<1>4. f \in Seq(Segment)
  BY <1>2, MappedSegments
<1>5. QED
  BY <1>3, <1>4

LEMMA AgedSegmentsFields ==
    ASSUME NEW ss \in Seq(Segment)
    PROVE  /\ DOMAIN AgedSegments(ss) = DOMAIN ss
           /\ \A i \in DOMAIN ss :
                 /\ ss[i].endAge \in 0..LATENCY + 1
                 /\ AgedSegments(ss)[i].endAge = Longer(ss[i].endAge, LATENCY)
                 /\ AgedSegments(ss)[i].crossed = ss[i].crossed
                 /\ AgedSegments(ss)[i].trusted = ss[i].trusted
                 /\ AgedSegments(ss)[i].calibration = ss[i].calibration
                 /\ AgedSegments(ss)[i].excluded = ss[i].excluded
<1>1. \A i \in DOMAIN ss : ss[i] \in Segment
  BY ElementOfSeq, LenProperties
<1>2. /\ DOMAIN AgedSegments(ss) = DOMAIN ss
      /\ \A i \in DOMAIN ss : AgedSegments(ss)[i] =
            [ss[i] EXCEPT !.endAge = Longer(ss[i].endAge, LATENCY)]
  BY AgedSegmentsType
<1>3. ASSUME NEW seg \in Segment, NEW v
      PROVE  /\ seg.endAge \in 0..LATENCY + 1
             /\ [seg EXCEPT !.endAge = v].endAge = v
             /\ [seg EXCEPT !.endAge = v].crossed = seg.crossed
             /\ [seg EXCEPT !.endAge = v].trusted = seg.trusted
             /\ [seg EXCEPT !.endAge = v].calibration = seg.calibration
             /\ [seg EXCEPT !.endAge = v].excluded = seg.excluded
  BY DEF Segment
<1>4. ASSUME NEW i \in DOMAIN ss
      PROVE  /\ ss[i].endAge \in 0..LATENCY + 1
             /\ AgedSegments(ss)[i].endAge = Longer(ss[i].endAge, LATENCY)
             /\ AgedSegments(ss)[i].crossed = ss[i].crossed
             /\ AgedSegments(ss)[i].trusted = ss[i].trusted
             /\ AgedSegments(ss)[i].calibration = ss[i].calibration
             /\ AgedSegments(ss)[i].excluded = ss[i].excluded
  <2> DEFINE age == Longer(ss[i].endAge, LATENCY)
  <2>1. ss[i] \in Segment
    BY <1>1, Zenon
  <2>2. AgedSegments(ss)[i] = [ss[i] EXCEPT !.endAge = age]
    BY <1>2, Zenon
  <2> HIDE DEF age
  <2>3. /\ [ss[i] EXCEPT !.endAge = age].endAge = age
        /\ [ss[i] EXCEPT !.endAge = age].crossed = ss[i].crossed
        /\ [ss[i] EXCEPT !.endAge = age].trusted = ss[i].trusted
        /\ [ss[i] EXCEPT !.endAge = age].calibration = ss[i].calibration
        /\ [ss[i] EXCEPT !.endAge = age].excluded = ss[i].excluded
        /\ ss[i].endAge \in 0..LATENCY + 1
    BY <1>3, <2>1, Zenon
  <2>4. QED
    BY <2>2, <2>3 DEF age
<1>5. QED
  BY <1>2, <1>4, Zenon

LEMMA RetroExcludeType ==
    ASSUME NEW ss \in Seq(Segment)
    PROVE  /\ RetroExclude(ss) \in Seq(Segment)
           /\ DOMAIN RetroExclude(ss) = DOMAIN ss
           /\ \A i \in DOMAIN ss : RetroExclude(ss)[i] =
                 [ss[i] EXCEPT !.excluded = ss[i].excluded \/ ss[i].endAge <= LATENCY]
<1>1. \A i \in DOMAIN ss : ss[i] \in Segment
  BY ElementOfSeq, LenProperties
<1>2. \A i \in DOMAIN ss :
        [ss[i] EXCEPT !.excluded = ss[i].excluded \/ ss[i].endAge <= LATENCY] \in Segment
  BY <1>1, Constants DEF Segment
<1> DEFINE f == [i \in DOMAIN ss |->
                   [ss[i] EXCEPT !.excluded = ss[i].excluded \/ ss[i].endAge <= LATENCY]]
<1>3. RetroExclude(ss) = f
  BY DEF RetroExclude
<1>4. f \in Seq(Segment)
  BY <1>2, MappedSegments
<1>5. QED
  BY <1>3, <1>4

(* A recorded segment joins the ones before it, perhaps without the oldest. *)
LEMMA AppendedSegments ==
    ASSUME NEW ss \in Seq(Segment), NEW seg \in Segment
    PROVE  /\ AppendSegment(ss, seg) \in Seq(Segment)
           /\ \A j \in DOMAIN AppendSegment(ss, seg) :
                 \/ AppendSegment(ss, seg)[j] = seg
                 \/ \E i \in DOMAIN ss : AppendSegment(ss, seg)[j] = ss[i]
<1> DEFINE base == IF Len(ss) < MAX_SEGMENTS THEN ss ELSE Tail(ss)
<1>1. Len(ss) \in Nat /\ DOMAIN ss = 1..Len(ss)
  BY LenProperties
<1>2. /\ base \in Seq(Segment)
      /\ \A j \in 1..Len(base) : \E i \in DOMAIN ss : base[j] = ss[i]
  <2>1. CASE Len(ss) < MAX_SEGMENTS
    BY <1>1, <2>1
  <2>2. CASE ~(Len(ss) < MAX_SEGMENTS)
    <3>1. ss # <<>>
      BY <1>1, <2>2, Constants, EmptySeq
    <3>2. /\ Tail(ss) \in Seq(Segment) /\ Len(Tail(ss)) = Len(ss) - 1
          /\ \A i \in 1 .. Len(Tail(ss)) : Tail(ss)[i] = ss[i+1]
      BY <3>1, HeadTailProperties
    <3>3. \A j \in 1..Len(Tail(ss)) : j + 1 \in DOMAIN ss
      BY <1>1, <3>2
    <3>4. QED
      BY <2>2, <3>2, <3>3
  <2>3. QED
    BY <2>1, <2>2
<1>3. /\ Append(base, seg) \in Seq(Segment)
      /\ Len(Append(base, seg)) = Len(base) + 1
      /\ \A i \in 1.. Len(base) : Append(base, seg)[i] = base[i]
      /\ Append(base, seg)[Len(base) + 1] = seg
  BY <1>2, AppendProperties
<1>4. AppendSegment(ss, seg) = Append(base, seg)
  BY DEF AppendSegment
<1> HIDE DEF base
<1>5. /\ DOMAIN Append(base, seg) = 1..Len(base) + 1 /\ Len(base) \in Nat
  BY <1>2, <1>3, LenProperties
<1>6. QED
  BY <1>2, <1>3, <1>4, <1>5

-----------------------------------------------------------------------------
(* The operations of a tracker.                                             *)

Samples ==
    [power : Powers, move : Moves, stale : BOOLEAN, complete : BOOLEAN,
     uncertain : BOOLEAN, trusted : BOOLEAN]

Ready(t)  == ~t.crossed /\ (t.active /\ ~t.gap => t.good <= BRIDGE)
Rested(t) == ~t.crossed /\ (t.active /\ ~t.gap => t.good = 0)

Flagged(t) == Unsettled /\ t.active => t.calibration

Hidden(ss) == \A i \in DOMAIN ss : ss[i].calibration => ss[i].excluded

(* A segment of the new list is one of the old or has just ended.           *)
FromThese(ss, old) ==
    \A j \in DOMAIN ss : ss[j].endAge = 0 \/ \E i \in DOMAIN old : ss[j] = old[i]

LEMMA NoSegmentIsOne ==
    /\ NoSegment \in Tracker /\ ~NoSegment.active /\ Rested(NoSegment)
    /\ Flagged(NoSegment) /\ ~Exposed(NoSegment)
BY Constants DEF NoSegment, Tracker, Rested, Flagged, Exposed

LEMMA MarkGapDoes ==
    ASSUME NEW r \in Steps
    PROVE  /\ MarkGap(r) \in Steps /\ MarkGap(r).segments = r.segments
           /\ MarkGap(r).tracker.gap = r.tracker.active
           /\ MarkGap(r).tracker.active = r.tracker.active
           /\ MarkGap(r).tracker.good = r.tracker.good
           /\ MarkGap(r).tracker.crossed = r.tracker.crossed
           /\ MarkGap(r).tracker.excluded = r.tracker.excluded
           /\ MarkGap(r).tracker.calibration = r.tracker.calibration
<1> DEFINE t == [r.tracker EXCEPT !.gap = r.tracker.active]
<1>1. r.tracker \in Tracker /\ r.segments \in Seq(Segment)
  BY DEF Steps
<1>2. /\ t \in Tracker /\ t.gap = r.tracker.active
      /\ t.active = r.tracker.active /\ t.good = r.tracker.good
      /\ t.crossed = r.tracker.crossed /\ t.excluded = r.tracker.excluded
      /\ t.calibration = r.tracker.calibration
  BY <1>1 DEF Tracker
<1>3. MarkGap(r) = [tracker |-> t, segments |-> r.segments]
  BY DEF MarkGap, Steps
<1> HIDE DEF t
<1>4. QED
  BY <1>1, <1>2, <1>3 DEF Steps

LEMMA DiscardDoes ==
    ASSUME NEW r \in Steps
    PROVE  /\ Discard(r) = [tracker |-> NoSegment, segments |-> r.segments]
           /\ Discard(r) \in Steps
           /\ Discard(Cross(r)) = Discard(r)
<1>1. Discard(r) = [tracker |-> NoSegment, segments |-> r.segments]
  BY DEF Discard, Steps
<1>2. Cross(r) = [tracker  |-> [r.tracker EXCEPT !.crossed = r.tracker.active],
                  segments |-> r.segments]
  BY DEF Cross, Steps
<1>3. Discard(Cross(r)) = [tracker |-> NoSegment, segments |-> r.segments]
  BY <1>2 DEF Discard
<1>4. QED
  BY <1>1, <1>3, NoSegmentIsOne DEF Steps

LEMMA BeginDoes ==
    ASSUME NEW in \in Samples, calibrating \in BOOLEAN, sinceCalibration \in Nat
    PROVE  /\ Begin(in) \in Tracker /\ Begin(in).active /\ Rested(Begin(in))
           /\ Flagged(Begin(in))
           /\ (Unsettled => in.uncertain) => ~Exposed(Begin(in))
<1>1. Unsettled \in BOOLEAN /\ in.uncertain \in BOOLEAN
  BY Constants DEF Unsettled, Samples
<1>2. /\ NoSegment \in Tracker /\ NoSegment.gap = FALSE /\ NoSegment.good = 0
      /\ NoSegment.crossed = FALSE
  BY NoSegmentIsOne DEF NoSegment
<1> DEFINE t == Begin(in)
<1>4. t \in Tracker
  BY <1>1, <1>2 DEF Tracker, Begin
<1>5. /\ t.active = TRUE /\ t.gap = FALSE /\ t.good = 0 /\ t.crossed = FALSE
      /\ t.excluded = in.uncertain /\ t.calibration = Unsettled
  BY <1>1, <1>2 DEF Tracker, Begin
<1> HIDE DEF t
<1>6. Rested(t) /\ Flagged(t)
  BY <1>5 DEF Rested, Flagged
<1>7. (Unsettled => in.uncertain) => ~Exposed(t)
  BY <1>5 DEF Exposed
<1>8. QED
  BY <1>4, <1>5, <1>6, <1>7 DEF t

LEMMA ContinuedDoes ==
    ASSUME NEW t \in Tracker, NEW in \in Samples, t.active, Ready(t), ~TooLong(t)
    PROVE  /\ Continued(t, in) \in Tracker /\ Rested(Continued(t, in))
           /\ Continued(t, in).active = t.active
           /\ Continued(t, in).excluded = t.excluded
           /\ Continued(t, in).calibration = t.calibration
<1>1. /\ t.active \in BOOLEAN /\ t.deep \in BOOLEAN /\ t.excluded \in BOOLEAN
      /\ t.gap \in BOOLEAN /\ t.crossed \in BOOLEAN /\ t.calibration \in BOOLEAN
      /\ t.idle \in Nat /\ t.good \in Nat
  BY DEF Tracker
<1> DEFINE crossed == t.crossed \/ t.good > BRIDGE
           deep    == t.deep \/ in.move = "deeper"
           idle    == IF in.power # "idle" THEN 0 ELSE IF t.idle = 0 THEN 1 ELSE t.idle
<1>2. Continued(t, in) =
        [t EXCEPT !.gap = FALSE, !.good = 0, !.crossed = crossed, !.deep = deep,
                  !.idle = idle]
  BY DEF Continued
<1>3. crossed \in BOOLEAN /\ deep \in BOOLEAN /\ idle \in Nat
  BY <1>1
<1>4. ~crossed
  BY <1>1, Constants DEF Ready, TooLong
<1> HIDE DEF crossed, deep, idle
<1>5. 0 \in 0..BRIDGE + 1
  BY Constants
<1> DEFINE c == Continued(t, in)
<1>6. c \in Tracker
  BY <1>2, <1>3, <1>5 DEF Tracker
<1>7. /\ c.active = t.active /\ c.gap = FALSE /\ c.good = 0
      /\ c.crossed = crossed /\ c.excluded = t.excluded
      /\ c.calibration = t.calibration
  BY <1>2 DEF Tracker
<1> HIDE DEF c
<1>8. QED
  BY <1>4, <1>6, <1>7 DEF c, Rested

(* What becomes of a tracker and its segments when a sample is fed: nothing *)
(* new crosses a boundary, and, if what a calibration touches is uncertain, *)
(* nothing it touched is recorded as good.                                  *)
Keeps(r, in, o) ==
    /\ o \in Steps /\ Rested(o.tracker)
    /\ Clean(r.segments) /\ in.trusted => Clean(o.segments)
    /\ FromThese(o.segments, r.segments)
    /\ Flagged(r.tracker) => Flagged(o.tracker)
    /\ /\ Unsettled => in.uncertain
       /\ Hidden(r.segments)
       /\ Exposed(r.tracker) /\ ~in.uncertain => TooLong(r.tracker)
       => /\ Hidden(o.segments)
          /\ Exposed(o.tracker) => /\ Exposed(r.tracker) /\ ~in.uncertain
                                  /\ o.tracker.gap
                                  /\ o.tracker.good = r.tracker.good

LEMMA CloseDoes ==
    ASSUME NEW r \in Steps, NEW in \in Samples, ~r.tracker.crossed
    PROVE  /\ Close(r, in) \in Steps /\ Close(r, in).tracker = NoSegment
           /\ Clean(r.segments) /\ in.trusted => Clean(Close(r, in).segments)
           /\ FromThese(Close(r, in).segments, r.segments)
           /\ Hidden(r.segments) /\ (r.tracker.calibration => r.tracker.excluded)
                => Hidden(Close(r, in).segments)
<1> DEFINE seg == Recorded(r.tracker, in)
           ss  == AppendSegment(r.segments, seg)
<1>1. r.tracker \in Tracker /\ r.segments \in Seq(Segment)
  BY DEF Steps
<1>2. seg \in Segment
  BY <1>1, Constants DEF Recorded, Tracker, Segment, Samples
<1>3. /\ seg.endAge = 0 /\ seg.crossed = r.tracker.crossed
      /\ seg.trusted = in.trusted /\ seg.excluded = r.tracker.excluded
      /\ seg.calibration = r.tracker.calibration
  BY DEF Recorded
<1>4. /\ ss \in Seq(Segment)
      /\ \A j \in DOMAIN ss : ss[j] = seg \/ \E i \in DOMAIN r.segments : ss[j] = r.segments[i]
  BY <1>1, <1>2, AppendedSegments
<1>5. /\ Close(r, in).tracker = NoSegment
      /\ Close(r, in).segments = IF r.tracker.deep THEN ss ELSE r.segments
      /\ Close(r, in) = [tracker  |-> NoSegment,
                         segments |-> IF r.tracker.deep THEN ss ELSE r.segments]
  BY DEF Close
<1> HIDE DEF seg, ss
<1>6. Close(r, in) \in Steps
  BY <1>1, <1>4, <1>5, NoSegmentIsOne DEF Steps
<1>7. Clean(r.segments) /\ in.trusted => Clean(Close(r, in).segments)
  BY <1>3, <1>4, <1>5, ZenonT(40) DEF Clean
<1>8. FromThese(Close(r, in).segments, r.segments)
  BY <1>3, <1>4, <1>5 DEF FromThese
<1>9. Hidden(r.segments) /\ (r.tracker.calibration => r.tracker.excluded)
        => Hidden(Close(r, in).segments)
  BY <1>3, <1>4, <1>5 DEF Hidden
<1>10. QED
  BY <1>5, <1>6, <1>7, <1>8, <1>9

(* The exclusion comes before anything else.                                *)
Excluded(r, in) ==
    IF r.tracker.active /\ in.uncertain
      THEN [r EXCEPT !.tracker.excluded = TRUE] ELSE r

LEMMA ExcludedIsRecord ==
    ASSUME NEW r \in Steps, NEW v
    PROVE  [r EXCEPT !.tracker.excluded = v] =
             [tracker |-> [r.tracker EXCEPT !.excluded = v], segments |-> r.segments]
BY DEF Steps

LEMMA ExcludedDoes ==
    ASSUME NEW r \in Steps, NEW in \in Samples
    PROVE  /\ Excluded(r, in) \in Steps
           /\ Excluded(r, in).segments = r.segments
           /\ Excluded(r, in).tracker.active = r.tracker.active
           /\ Excluded(r, in).tracker.gap = r.tracker.gap
           /\ Excluded(r, in).tracker.good = r.tracker.good
           /\ Excluded(r, in).tracker.crossed = r.tracker.crossed
           /\ Excluded(r, in).tracker.calibration = r.tracker.calibration
           /\ r.tracker.active /\ in.uncertain => Excluded(r, in).tracker.excluded
           /\ ~(r.tracker.active /\ in.uncertain) => Excluded(r, in) = r
<1> DEFINE t == [r.tracker EXCEPT !.excluded = TRUE]
<1>1. r.tracker \in Tracker /\ r.segments \in Seq(Segment)
  BY DEF Steps
<1>2. /\ t \in Tracker /\ t.excluded = TRUE
      /\ t.active = r.tracker.active /\ t.good = r.tracker.good
      /\ t.crossed = r.tracker.crossed /\ t.gap = r.tracker.gap
      /\ t.calibration = r.tracker.calibration
  BY <1>1 DEF Tracker
<1>3. [r EXCEPT !.tracker.excluded = TRUE] = [tracker |-> t, segments |-> r.segments]
  BY ExcludedIsRecord, Zenon
<1> HIDE DEF t
<1>5. CASE r.tracker.active /\ in.uncertain
  <2>1. Excluded(r, in) = [tracker |-> t, segments |-> r.segments]
    BY <1>3, <1>5 DEF Excluded
  <2>2. Excluded(r, in).tracker = t /\ Excluded(r, in).segments = r.segments
    BY <2>1
  <2>3. Excluded(r, in) \in Steps
    BY <1>1, <1>2, <2>1 DEF Steps
  <2>4. QED
    BY <1>2, <1>5, <2>2, <2>3
<1>6. CASE ~(r.tracker.active /\ in.uncertain)
  <2>1. Excluded(r, in) = r
    BY <1>6 DEF Excluded
  <2>2. QED
    BY <1>6, <2>1
<1>7. QED
  BY <1>5, <1>6

(* feed(), by the sample and by what is open.                               *)
LEMMA FeedKeeps ==
    ASSUME NEW r \in Steps, NEW in \in Samples, Ready(r.tracker),
           calibrating \in BOOLEAN, sinceCalibration \in Nat
    PROVE  Keeps(r, in, Feed(r, in))
<1> DEFINE q == Excluded(r, in)
           o == Feed(r, in)
<1>1. /\ q \in Steps /\ q.segments = r.segments
      /\ q.tracker.active = r.tracker.active /\ q.tracker.gap = r.tracker.gap
      /\ q.tracker.good = r.tracker.good /\ q.tracker.crossed = r.tracker.crossed
      /\ q.tracker.calibration = r.tracker.calibration
      /\ r.tracker.active /\ in.uncertain => q.tracker.excluded
      /\ ~(r.tracker.active /\ in.uncertain) => q = r
  BY ExcludedDoes
<1>2. q.tracker \in Tracker /\ q.segments \in Seq(Segment)
  BY <1>1 DEF Steps
<1>3. Feed(r, in) =
        CASE ~in.complete -> MarkGap(q)
          [] in.complete /\ ~q.tracker.active ->
               IF in.power = "discharging" /\ ~in.stale
                 THEN [q EXCEPT !.tracker = Begin(in)] ELSE q
          [] in.complete /\ q.tracker.active /\ TooLong(q.tracker) ->
               [q EXCEPT !.tracker =
                  IF in.power = "discharging" THEN Begin(in) ELSE NoSegment]
          [] in.complete /\ q.tracker.active /\ ~TooLong(q.tracker) ->
               IF Ends(q.tracker, in)
                 THEN Close([q EXCEPT !.tracker = Continued(q.tracker, in)], in)
                 ELSE [q EXCEPT !.tracker = Continued(q.tracker, in)]
  BY DEF Feed, Excluded
<1>4. \A t \in Tracker : /\ [q EXCEPT !.tracker = t] \in Steps
                         /\ [q EXCEPT !.tracker = t].tracker = t
                         /\ [q EXCEPT !.tracker = t].segments = r.segments
  BY <1>1 DEF Steps
<1>5. Ready(q.tracker) /\ ~q.tracker.crossed
  BY <1>1 DEF Ready
<1>6. TooLong(q.tracker) <=> TooLong(r.tracker)
  BY <1>1 DEF TooLong
<1>7. Exposed(q.tracker) => Exposed(r.tracker) /\ ~in.uncertain
  BY <1>1 DEF Exposed
<1>8. Flagged(r.tracker) => Flagged(q.tracker)
  BY <1>1 DEF Flagged
<1>9. FromThese(r.segments, r.segments)
  BY DEF FromThese
<1> HIDE DEF q
<1>10. CASE ~in.complete
  <2>1. o = MarkGap(q)
    BY <1>3, <1>10
  <2> HIDE DEF o
  <2>2. /\ o \in Steps /\ o.segments = r.segments
        /\ o.tracker.gap = q.tracker.active /\ o.tracker.active = q.tracker.active
        /\ o.tracker.good = q.tracker.good /\ o.tracker.crossed = q.tracker.crossed
        /\ o.tracker.excluded = q.tracker.excluded
        /\ o.tracker.calibration = q.tracker.calibration
    BY <1>1, <2>1, MarkGapDoes
  <2>3. Rested(o.tracker)
    BY <1>5, <2>2 DEF Rested
  <2>4. Flagged(r.tracker) => Flagged(o.tracker)
    BY <1>8, <2>2 DEF Flagged
  <2>5. Exposed(o.tracker) => /\ Exposed(r.tracker) /\ ~in.uncertain
                              /\ o.tracker.gap /\ o.tracker.good = r.tracker.good
    BY <1>1, <1>7, <2>2 DEF Exposed
  <2>6. QED
    BY <1>9, <2>2, <2>3, <2>4, <2>5 DEF Keeps, o
<1>11. ASSUME NEW t \in Tracker, Rested(t), Flagged(r.tracker) => Flagged(t),
              (/\ Unsettled => in.uncertain
               /\ Exposed(r.tracker) /\ ~in.uncertain => TooLong(r.tracker))
                 => ~Exposed(t)
       PROVE  Keeps(r, in, [q EXCEPT !.tracker = t])
  <2> DEFINE p == [q EXCEPT !.tracker = t]
  <2>1. p \in Steps /\ p.tracker = t /\ p.segments = r.segments
    BY <1>4
  <2> HIDE DEF p
  <2>2. QED
    BY <1>9, <1>11, <2>1 DEF Keeps, p
<1>12. (Unsettled => in.uncertain) => ~Exposed(Begin(in))
  BY BeginDoes
<1>13. CASE in.complete /\ ~q.tracker.active
  <2>1. o = IF in.power = "discharging" /\ ~in.stale
              THEN [q EXCEPT !.tracker = Begin(in)] ELSE q
    BY <1>3, <1>13
  <2>2. Keeps(r, in, [q EXCEPT !.tracker = Begin(in)])
    BY <1>11, <1>12, BeginDoes
  <2>3. Keeps(r, in, q)
    BY <1>1, <1>5, <1>7, <1>8, <1>9, <1>13 DEF Keeps, Rested, Exposed
  <2>4. QED
    BY <2>1, <2>2, <2>3
<1>14. CASE in.complete /\ q.tracker.active /\ TooLong(q.tracker)
  <2>1. o = [q EXCEPT !.tracker =
               IF in.power = "discharging" THEN Begin(in) ELSE NoSegment]
    BY <1>3, <1>14
  <2>2. Keeps(r, in, [q EXCEPT !.tracker = Begin(in)])
    BY <1>11, <1>12, BeginDoes
  <2>3. Keeps(r, in, [q EXCEPT !.tracker = NoSegment])
    BY <1>11, NoSegmentIsOne
  <2>4. QED
    BY <2>1, <2>2, <2>3
<1>15. CASE in.complete /\ q.tracker.active /\ ~TooLong(q.tracker)
  <2> DEFINE c == Continued(q.tracker, in)
             p == [q EXCEPT !.tracker = c]
  <2>1. o = IF Ends(q.tracker, in) THEN Close(p, in) ELSE p
    BY <1>3, <1>15
  <2>2. /\ c \in Tracker /\ Rested(c) /\ c.active = q.tracker.active
        /\ c.excluded = q.tracker.excluded /\ c.calibration = q.tracker.calibration
    BY <1>2, <1>5, <1>15, ContinuedDoes
  <2> HIDE DEF c
  <2>3. p \in Steps /\ p.tracker = c /\ p.segments = r.segments
    BY <1>4, <2>2
  <2>4. Flagged(r.tracker) => Flagged(c)
    BY <1>8, <2>2 DEF Flagged
  <2>5. (Exposed(r.tracker) /\ ~in.uncertain => TooLong(r.tracker)) => ~Exposed(c)
    BY <1>6, <1>7, <1>15, <2>2 DEF Exposed
  <2>6. Keeps(r, in, p)
    BY <1>11, <2>2, <2>4, <2>5
  <2>7. Keeps(r, in, Close(p, in))
    <3> DEFINE e == Close(p, in)
    <3> HIDE DEF p
    <3>1. ~p.tracker.crossed
      BY <2>2, <2>3 DEF Rested
    <3>2. /\ e \in Steps /\ e.tracker = NoSegment
          /\ Clean(p.segments) /\ in.trusted => Clean(e.segments)
          /\ FromThese(e.segments, p.segments)
          /\ Hidden(p.segments) /\ (p.tracker.calibration => p.tracker.excluded)
               => Hidden(e.segments)
      BY <2>3, <3>1, CloseDoes
    <3> HIDE DEF e
    <3>3. ~Exposed(c) => (p.tracker.calibration => p.tracker.excluded)
      BY <1>15, <2>2, <2>3 DEF Exposed
    <3>4. QED
      BY <2>3, <2>5, <3>2, <3>3, NoSegmentIsOne DEF Keeps, e
  <2>8. QED
    BY <2>1, <2>6, <2>7
<1>16. QED
  BY <1>10, <1>13, <1>14, <1>15

-----------------------------------------------------------------------------
(* A tick later.                                                            *)
LEMMA AgedDoes ==
    ASSUME SegmentsTypeOK
    PROVE  /\ Aged \in Steps /\ Aged.segments = AgedSegments(segments)
           /\ Aged.tracker.active = tracker.active
           /\ Aged.tracker.gap = tracker.gap
           /\ Aged.tracker.crossed = tracker.crossed
           /\ Aged.tracker.excluded = tracker.excluded
           /\ tracker.active =>
                /\ Aged.tracker.good = Longer(tracker.good, BRIDGE)
                /\ Aged.tracker.calibration <=> tracker.calibration \/ Unsettled
           /\ ~tracker.active => Aged.tracker = tracker
<1> DEFINE flag == tracker.calibration \/ Unsettled
           idle == IF tracker.idle = 0 THEN 0 ELSE Longer(tracker.idle, MAX_IDLE + 1)
           good == Longer(tracker.good, BRIDGE)
           t    == [tracker EXCEPT !.good = good, !.idle = idle, !.calibration = flag]
           a    == IF tracker.active THEN t ELSE tracker
<1>1. /\ tracker \in Tracker /\ tracker.active \in BOOLEAN
      /\ tracker.calibration \in BOOLEAN /\ Unsettled \in BOOLEAN
      /\ tracker.idle \in Nat /\ tracker.good \in 0..BRIDGE + 1
  BY Constants DEF SegmentsTypeOK, Tracker, Unsettled
<1>2. flag \in BOOLEAN /\ idle \in Nat /\ good \in 0..BRIDGE + 1
  BY <1>1, Constants, LongerIsBounded DEF Longer
<1>3. Aged = [tracker |-> a, segments |-> AgedSegments(segments)]
  BY DEF Aged
<1> HIDE DEF flag, idle, good
<1>4. /\ t \in Tracker /\ t.active = tracker.active /\ t.gap = tracker.gap
      /\ t.crossed = tracker.crossed /\ t.excluded = tracker.excluded
      /\ t.good = good /\ t.calibration = flag
  BY <1>1, <1>2 DEF Tracker
<1>5. AgedSegments(segments) \in Seq(Segment)
  BY AgedSegmentsType DEF SegmentsTypeOK
<1> HIDE DEF t
<1>6. Aged.tracker = a /\ Aged.segments = AgedSegments(segments)
  BY <1>3
<1>7. Aged \in Steps
  BY <1>1, <1>3, <1>4, <1>5 DEF Steps
<1>8. QED
  BY <1>4, <1>6, <1>7 DEF flag, good

LEMMA AgedKeeps ==
    ASSUME SegmentsTypeOK, GapsAreMarked
    PROVE  /\ Ready(Aged.tracker) /\ Flagged(Aged.tracker)
           /\ Clean(segments) => Clean(Aged.segments)
           /\ Hidden(segments) => Hidden(Aged.segments)
<1>1. tracker.active => tracker.good \in 0..BRIDGE + 1
  BY DEF SegmentsTypeOK, Tracker
<1>2. Ready(Aged.tracker)
  BY <1>1, AgedDoes, Constants DEF Ready, GapsAreMarked, Longer
<1>3. Flagged(Aged.tracker)
  BY AgedDoes DEF Flagged
<1>4. segments \in Seq(Segment) /\ Aged.segments = AgedSegments(segments)
  BY AgedDoes DEF SegmentsTypeOK
<1>5. /\ Clean(segments) => Clean(AgedSegments(segments))
      /\ Hidden(segments) => Hidden(AgedSegments(segments))
  BY <1>4, AgedSegmentsFields DEF Clean, Hidden
<1>6. QED
  BY <1>2, <1>3, <1>4, <1>5

(* What an update makes of the tracker: what feed() keeps, when it is fed,  *)
(* and otherwise a gap or nothing.                                          *)
Steered(r, in, learning, o) ==
    /\ o \in Steps /\ Rested(o.tracker)
    /\ Clean(r.segments) /\ (learning => in.trusted) => Clean(o.segments)
    /\ FromThese(o.segments, r.segments)
    /\ Flagged(r.tracker) => Flagged(o.tracker)
    /\ /\ learning /\ Unsettled => in.uncertain
       /\ Hidden(r.segments)
       /\ learning /\ Exposed(r.tracker) /\ ~in.uncertain => TooLong(r.tracker)
       => /\ Hidden(o.segments)
          /\ Exposed(o.tracker) => /\ Exposed(r.tracker) /\ o.tracker.gap
                                  /\ o.tracker.good = r.tracker.good

LEMMA FedIsSteered ==
    ASSUME NEW r \in Steps, NEW in \in Samples, Ready(r.tracker),
           calibrating \in BOOLEAN, sinceCalibration \in Nat
    PROVE  Steered(r, in, TRUE, Feed(r, in))
BY FeedKeeps DEF Keeps, Steered

LEMMA MarkedIsSteered ==
    ASSUME NEW r \in Steps, NEW in, NEW learning, ~r.tracker.crossed
    PROVE  Steered(r, in, learning, MarkGap(r))
<1>1. MarkGap(r) \in Steps /\ Rested(MarkGap(r).tracker)
  BY MarkGapDoes DEF Rested
<1>2. FromThese(r.segments, r.segments)
  BY DEF FromThese
<1>3. Flagged(r.tracker) => Flagged(MarkGap(r).tracker)
  BY MarkGapDoes DEF Flagged
<1>4. Exposed(MarkGap(r).tracker) =>
        /\ Exposed(r.tracker) /\ MarkGap(r).tracker.gap
        /\ MarkGap(r).tracker.good = r.tracker.good
  BY MarkGapDoes DEF Exposed
<1>5. QED
  BY <1>1, <1>2, <1>3, <1>4, MarkGapDoes DEF Steered

LEMMA DiscardedIsSteered ==
    ASSUME NEW r \in Steps, NEW in, NEW learning, NEW q \in Steps,
           Steered(r, in, learning, q)
    PROVE  Steered(r, in, learning, Discard(Cross(q)))
<1>1. /\ Discard(Cross(q)) \in Steps /\ Discard(Cross(q)).tracker = NoSegment
      /\ Discard(Cross(q)).segments = q.segments
  BY DiscardDoes
<1>2. QED
  BY <1>1, NoSegmentIsOne DEF Steered

(* Before it is fed or marked, what is open may be discarded, and another   *)
(* pack brings an empty list.                                               *)
Loose(r, q) ==
    /\ q \in Steps /\ Ready(q.tracker)
    /\ q.segments \in {r.segments, <<>>}
    /\ Flagged(r.tracker) => Flagged(q.tracker)
    /\ Exposed(q.tracker) => /\ Exposed(r.tracker)
                             /\ q.tracker.good = r.tracker.good
                             /\ TooLong(r.tracker) => TooLong(q.tracker)

LEMMA EmptyIsKept ==
    /\ <<>> \in Seq(Segment) /\ DOMAIN <<>> = {} /\ Clean(<<>>) /\ Hidden(<<>>)
    /\ \A old : FromThese(<<>>, old)
<1>1. <<>> \in Seq(Segment) /\ DOMAIN <<>> = {}
  BY EmptySeq
<1>2. QED
  BY <1>1 DEF Clean, Hidden, FromThese

LEMMA LooseStays ==
    ASSUME NEW r \in Steps, NEW q, Loose(r, q)
    PROVE  Loose(r, Discard(Cross(q))) /\ Loose(r, MarkGap(q))
<1>1. q \in Steps
  BY DEF Loose
<1> DEFINE d == Discard(Cross(q))
           m == MarkGap(q)
<1>2. d \in Steps /\ d.tracker = NoSegment /\ d.segments = q.segments
  BY <1>1, DiscardDoes
<1>3. /\ m \in Steps /\ m.segments = q.segments
      /\ m.tracker.gap = q.tracker.active /\ m.tracker.active = q.tracker.active
      /\ m.tracker.good = q.tracker.good /\ m.tracker.crossed = q.tracker.crossed
      /\ m.tracker.excluded = q.tracker.excluded
      /\ m.tracker.calibration = q.tracker.calibration
  BY <1>1, MarkGapDoes
<1> HIDE DEF d, m
<1>4. Loose(r, d)
  BY <1>2, NoSegmentIsOne DEF Loose, Ready, Rested
<1>5. Loose(r, m)
  BY <1>3 DEF Loose, Ready, Flagged, Exposed, TooLong
<1>6. QED
  BY <1>4, <1>5 DEF d, m

LEMMA LooseIsSteered ==
    ASSUME NEW r \in Steps, NEW in \in Samples, NEW learning \in BOOLEAN,
           NEW q, NEW o, Loose(r, q), Steered(q, in, learning, o)
    PROVE  Steered(r, in, learning, o)
<1>1. q.segments = r.segments \/ q.segments = <<>>
  BY DEF Loose
<1>2. (Clean(r.segments) => Clean(q.segments)) /\ (Hidden(r.segments) => Hidden(q.segments))
  BY <1>1, EmptyIsKept
<1>3. FromThese(o.segments, q.segments) => FromThese(o.segments, r.segments)
  BY <1>1, EmptyIsKept DEF FromThese
<1>4. QED
  BY <1>2, <1>3 DEF Loose, Steered

LEMMA EngineIsSteered ==
    ASSUME NEW r \in Steps, NEW in \in Samples, Ready(r.tracker),
           calibrating \in BOOLEAN, sinceCalibration \in Nat,
           NEW event, NEW learning \in BOOLEAN, NEW online \in BOOLEAN,
           learning => up /\ event # "unitReset"
    PROVE  Steered(r, in, learning, EngineStep(r, event, learning, online, in))
<1>1. Loose(r, r)
  BY DEF Loose
<1>2. ASSUME NEW q, Loose(r, q)
      PROVE  /\ Steered(r, in, learning, MarkGap(q))
             /\ learning => Steered(r, in, learning, Feed(q, in))
  <2>1. q \in Steps /\ Ready(q.tracker) /\ ~q.tracker.crossed
    BY <1>2 DEF Loose, Ready
  <2>2. Steered(q, in, learning, MarkGap(q))
    BY <2>1, MarkedIsSteered
  <2>3. Steered(q, in, TRUE, Feed(q, in))
    BY <2>1, FedIsSteered
  <2>4. learning => Steered(q, in, learning, Feed(q, in))
    BY <2>3
  <2>5. QED
    BY <1>2, <2>2, <2>4, LooseIsSteered
<1>3. Steered(r, in, learning, UnitStep(r, event, learning, in))
  <2> DEFINE r1 == IF ~up THEN MarkGap(r) ELSE r
             r2 == IF event = "unitReset" THEN Discard(Cross(r1)) ELSE r1
             r3 == IF learning THEN Feed(r2, in) ELSE MarkGap(r2)
  <2>1. Loose(r, r1)
    BY <1>1, LooseStays
  <2>2. Loose(r, r2)
    BY <2>1, LooseStays
  <2>3. Steered(r, in, learning, r3)
    BY <1>2, <2>2
  <2>4. r3 \in Steps
    BY <2>3 DEF Steered
  <2>5. UnitStep(r, event, learning, in) =
          IF event \in PackResets THEN Discard(Cross(r3)) ELSE r3
    BY DEF UnitStep
  <2> HIDE DEF r3
  <2>6. QED
    BY <2>3, <2>4, <2>5, DiscardedIsSteered
<1>4. Steered(r, in, learning, PackStep(r, event, learning, online, in))
  <2> DEFINE n  == [tracker |-> NoSegment, segments |-> <<>>]
             r1 == IF event = "replaced" THEN n ELSE r
             r2 == IF event = "packReset" THEN Discard(Cross(r1)) ELSE r1
  <2>1. n \in Steps /\ n.tracker = NoSegment /\ n.segments = <<>>
    BY NoSegmentIsOne, EmptyIsKept DEF Steps
  <2> HIDE DEF n
  <2>2. Loose(r, n)
    BY <2>1, NoSegmentIsOne DEF Loose, Ready, Rested
  <2>3. Loose(r, r1)
    BY <1>1, <2>2
  <2>4. Loose(r, r2)
    BY <2>3, LooseStays
  <2>5. PackStep(r, event, learning, online, in) =
          IF learning /\ online THEN Feed(r2, in) ELSE MarkGap(r2)
    BY DEF PackStep, n
  <2> HIDE DEF r2
  <2>6. QED
    BY <1>2, <2>4, <2>5
<1>5. QED
  BY <1>3, <1>4 DEF EngineStep

(* The two changes of whole lists besides ageing, field by field.           *)
LEMMA RetroExcludeFields ==
    ASSUME NEW ss \in Seq(Segment)
    PROVE  /\ RetroExclude(ss) \in Seq(Segment)
           /\ DOMAIN RetroExclude(ss) = DOMAIN ss
           /\ \A i \in DOMAIN ss :
                 /\ RetroExclude(ss)[i].endAge = ss[i].endAge
                 /\ RetroExclude(ss)[i].crossed = ss[i].crossed
                 /\ RetroExclude(ss)[i].trusted = ss[i].trusted
                 /\ RetroExclude(ss)[i].calibration = ss[i].calibration
                 /\ ss[i].excluded \/ ss[i].endAge <= LATENCY
                      => RetroExclude(ss)[i].excluded
<1>1. \A i \in DOMAIN ss : ss[i] \in Segment
  BY ElementOfSeq, LenProperties
<1>2. ASSUME NEW i \in DOMAIN ss
      PROVE  /\ RetroExclude(ss)[i].endAge = ss[i].endAge
             /\ RetroExclude(ss)[i].crossed = ss[i].crossed
             /\ RetroExclude(ss)[i].trusted = ss[i].trusted
             /\ RetroExclude(ss)[i].calibration = ss[i].calibration
             /\ ss[i].excluded \/ ss[i].endAge <= LATENCY
                  => RetroExclude(ss)[i].excluded
  <2> DEFINE hide == ss[i].excluded \/ ss[i].endAge <= LATENCY
  <2>1. ss[i] \in Segment
    BY <1>1, Zenon
  <2>2. RetroExclude(ss)[i] = [ss[i] EXCEPT !.excluded = hide]
    BY RetroExcludeType, Zenon
  <2> HIDE DEF hide
  <2>3. /\ [ss[i] EXCEPT !.excluded = hide].endAge = ss[i].endAge
        /\ [ss[i] EXCEPT !.excluded = hide].crossed = ss[i].crossed
        /\ [ss[i] EXCEPT !.excluded = hide].trusted = ss[i].trusted
        /\ [ss[i] EXCEPT !.excluded = hide].calibration = ss[i].calibration
        /\ [ss[i] EXCEPT !.excluded = hide].excluded = hide
    BY <2>1 DEF Segment
  <2>4. QED
    BY <2>2, <2>3 DEF hide
<1>3. QED
  BY <1>2, RetroExcludeType, Zenon

Cleared(ss) == [i \in DOMAIN ss |-> [ss[i] EXCEPT !.calibration = FALSE]]

LEMMA ClearedFields ==
    ASSUME NEW ss \in Seq(Segment)
    PROVE  /\ Cleared(ss) \in Seq(Segment) /\ DOMAIN Cleared(ss) = DOMAIN ss
           /\ \A i \in DOMAIN ss :
                 /\ Cleared(ss)[i].crossed = ss[i].crossed
                 /\ Cleared(ss)[i].trusted = ss[i].trusted
                 /\ ~Cleared(ss)[i].calibration
<1>1. \A i \in DOMAIN ss : ss[i] \in Segment
  BY ElementOfSeq, LenProperties
<1>2. ASSUME NEW seg \in Segment, NEW v \in BOOLEAN
      PROVE  /\ [seg EXCEPT !.calibration = v] \in Segment
             /\ [seg EXCEPT !.calibration = v].crossed = seg.crossed
             /\ [seg EXCEPT !.calibration = v].trusted = seg.trusted
             /\ [seg EXCEPT !.calibration = v].calibration = v
  BY <1>2 DEF Segment
<1>3. ASSUME NEW seg \in Segment
      PROVE  /\ [seg EXCEPT !.calibration = FALSE] \in Segment
             /\ [seg EXCEPT !.calibration = FALSE].crossed = seg.crossed
             /\ [seg EXCEPT !.calibration = FALSE].trusted = seg.trusted
             /\ ~[seg EXCEPT !.calibration = FALSE].calibration
  BY <1>2, Zenon
<1> DEFINE f == [i \in DOMAIN ss |-> [ss[i] EXCEPT !.calibration = FALSE]]
<1>4. Cleared(ss) = f
  BY DEF Cleared
<1>5. \A i \in DOMAIN ss : f[i] = [ss[i] EXCEPT !.calibration = FALSE]
  BY Zenon
<1>6. \A i \in DOMAIN ss : /\ f[i] \in Segment /\ ~f[i].calibration
                           /\ f[i].crossed = ss[i].crossed
                           /\ f[i].trusted = ss[i].trusted
  BY <1>1, <1>3, <1>5, Zenon
<1>7. DOMAIN f = DOMAIN ss /\ f = [i \in DOMAIN f |-> f[i]]
  BY Zenon
<1> HIDE DEF f
<1>8. f \in Seq(Segment)
  BY <1>6, <1>7, MappedSegments
<1>9. QED
  BY <1>4, <1>6, <1>7, <1>8

-----------------------------------------------------------------------------
(* The invariant holds initially and every action keeps it.                 *)

LEMMA SoonerIsNearer ==
    ASSUME NEW left \in Nat
    PROVE  Sooner(left) \in Nat /\ Sooner(left) <= left /\ left <= Sooner(left) + 1
BY DEF Sooner

LEMMA LongerIsFarther ==
    ASSUME NEW limit \in Nat, NEW age \in 0..limit + 1
    PROVE  /\ Longer(age, limit) \in 0..limit + 1
           /\ age <= limit => Longer(age, limit) = age + 1
           /\ age > limit => Longer(age, limit) = age
BY DEF Longer

LEMMA TypedParts ==
    ASSUME SegmentsTypeOK
    PROVE  /\ sinceCalibration \in 0..LATENCY + 1 /\ lag \in 0..LATENCY + 1
           /\ settling \in Nat /\ calibSettle \in Nat /\ calm \in 0..SETTLING + 1
           /\ sinceCalibration \in Nat /\ lag \in Nat /\ calm \in Nat
           /\ tracker \in Tracker /\ segments \in Seq(Segment)
           /\ savedEngine \in [segments : Seq(Segment), learningEnabled : BOOLEAN]
           /\ savedEngine.segments \in Seq(Segment)
<1>1. /\ sinceCalibration \in 0..LATENCY + 1 /\ lag \in 0..LATENCY + 1
      /\ settling \in Nat /\ calibSettle \in Nat /\ calm \in 0..SETTLING + 1
      /\ tracker \in Tracker /\ segments \in Seq(Segment)
      /\ savedEngine \in [segments : Seq(Segment), learningEnabled : BOOLEAN]
  BY DEF SegmentsTypeOK
<1>2. LATENCY \in Nat /\ SETTLING \in Nat
  BY Constants
<1>3. savedEngine.segments \in Seq(Segment)
  BY <1>1
<1>4. sinceCalibration \in Nat /\ lag \in Nat /\ calm \in Nat
  BY <1>1, <1>2
<1>5. QED
  BY <1>1, <1>3, <1>4

(* The clock of the BMS, once what the register shows is settled.           *)
LEMMA ClockDoes ==
    ASSUME SegmentsTypeOK, ClockOfTheBms, calibRegister' \in BOOLEAN
    PROVE  /\ calibrating' = calibrating /\ (calibrating' <=> calibrating)
           /\ sinceCalibration' \in 0..LATENCY + 1 /\ lag' \in 0..LATENCY + 1
           /\ ~calibrating => sinceCalibration' = Longer(sinceCalibration, LATENCY)
           /\ (calibRegister' <=> calibrating) => lag' = 0
           /\ ~(calibRegister' <=> calibrating) => lag' = Longer(lag, LATENCY)
           /\ Unsettled' => Unsettled
<1>1. /\ calibrating' = calibrating
      /\ calibrating => sinceCalibration' = sinceCalibration
      /\ ~calibrating => sinceCalibration' = Longer(sinceCalibration, LATENCY)
      /\ (calibRegister' <=> calibrating) => lag' = 0
      /\ ~(calibRegister' <=> calibrating) => lag' = Longer(lag, LATENCY)
  <2>1. calibrating \in BOOLEAN
    BY DEF SegmentsTypeOK
  <2>2. (calibRegister' <=> calibrating) <=> (calibRegister' = calibrating)
    BY <2>1, Zenon
  <2>3. lag' = IF calibRegister' = calibrating THEN 0 ELSE Longer(lag, LATENCY)
    BY DEF ClockOfTheBms
  <2>4. QED
    BY <2>2, <2>3, Zenon DEF ClockOfTheBms
<1>2. /\ Longer(sinceCalibration, LATENCY) \in 0..LATENCY + 1
      /\ Longer(lag, LATENCY) \in 0..LATENCY + 1
      /\ Longer(sinceCalibration, LATENCY) >= sinceCalibration
      /\ 0 \in 0..LATENCY + 1
  BY TypedParts, Constants DEF Longer
<1>3. sinceCalibration' \in 0..LATENCY + 1
  BY <1>1, <1>2, TypedParts
<1>4. lag' \in 0..LATENCY + 1
  BY <1>1, <1>2
<1>5. ~calibrating /\ sinceCalibration' < AFTER => sinceCalibration < AFTER
  BY <1>1, <1>2, <1>3, TypedParts, Constants
<1>6. Unsettled' => Unsettled
  BY <1>1, <1>5 DEF Unsettled
<1>7. QED
  BY <1>1, <1>3, <1>4, <1>6

LEMMA SegmentsInitIInv ==
    ASSUME SegmentsInit
    PROVE  SegmentsIInv
<1>1. SegmentsTypeOK
  <2>1. savedEngine \in [segments : Seq(Segment), learningEnabled : BOOLEAN]
    BY EmptyIsKept DEF SegmentsInit, Fresh, Snapshot
  <2>2. tracker \in Tracker /\ segments \in Seq(Segment)
    BY EmptyIsKept, NoSegmentIsOne DEF SegmentsInit
  <2>3. /\ sinceCalibration = LATENCY + 1 /\ lag = 0 /\ calm = 0
        /\ settling = SETTLING + 1 /\ calibSettle = 0
    BY DEF SegmentsInit
  <2>4. /\ sinceCalibration \in 0..LATENCY + 1 /\ lag \in 0..LATENCY + 1
        /\ settling \in Nat /\ calibSettle \in Nat /\ calm \in 0..SETTLING + 1
    BY <2>3, Constants
  <2>5. QED
    BY <2>1, <2>2, <2>4 DEF SegmentsInit, SegmentsTypeOK
<1>2. Clean(segments) /\ Clean(savedEngine.segments)
  BY EmptyIsKept DEF SegmentsInit, Fresh, Snapshot
<1>3. GapsAreMarked /\ SettlingIsCalm /\ RegisterSeen
  <2>1. GapsAreMarked
    BY NoSegmentIsOne DEF SegmentsInit, GapsAreMarked, Rested
  <2>2. SettlingIsCalm
    <3>1. calm = 0 /\ settling = SETTLING + 1
      BY DEF SegmentsInit
    <3>2. QED
      BY <3>1, Constants DEF SettlingIsCalm
  <2>3. RegisterSeen
    BY DEF SegmentsInit, RegisterSeen
  <2>4. QED
    BY <2>1, <2>2, <2>3
<1>4. EndedUnderIt /\ ExclusionLasts /\ ExposedIsWaiting /\ NoticedCalibrationExcluded
  BY DEF SegmentsInit, EndedUnderIt, ExclusionLasts, ExposedIsWaiting,
         NoticedCalibrationExcluded
<1>5. QED
  BY <1>1, <1>2, <1>3, <1>4 DEF SegmentsIInv

LEMMA CalibrationStartsIInv ==
    ASSUME SegmentsIInv, CalibrationStarts
    PROVE  SegmentsIInv'
<1>1. SegmentsTypeOK /\ Clean(segments) /\ Clean(savedEngine.segments)
  BY DEF SegmentsIInv
<1>2. /\ segments' = Cleared(segments)
      /\ savedEngine' = [savedEngine EXCEPT !.segments = Cleared(savedEngine.segments)]
  BY DEF CalibrationStarts, Cleared
<1>3. /\ savedEngine.segments \in Seq(Segment) /\ segments \in Seq(Segment)
      /\ savedEngine \in [segments : Seq(Segment), learningEnabled : BOOLEAN]
  BY <1>1 DEF SegmentsTypeOK
<1>4. /\ segments' \in Seq(Segment) /\ Clean(segments')
      /\ \A i \in DOMAIN segments' : ~segments'[i].calibration
  BY <1>1, <1>2, <1>3, ClearedFields DEF Clean
<1>5. /\ savedEngine' \in [segments : Seq(Segment), learningEnabled : BOOLEAN]
      /\ Clean(savedEngine'.segments)
  <2>1. Cleared(savedEngine.segments) \in Seq(Segment) /\ Clean(Cleared(savedEngine.segments))
    BY <1>1, <1>3, ClearedFields DEF Clean
  <2>2. QED
    BY <1>2, <1>3, <2>1
<1>6. /\ tracker' \in Tracker /\ tracker'.active = tracker.active
      /\ tracker'.gap = tracker.gap /\ tracker'.good = tracker.good
      /\ tracker'.crossed = tracker.crossed
  <2>1. tracker \in Tracker
    BY <1>1 DEF SegmentsTypeOK
  <2>2. ASSUME NEW v \in BOOLEAN, NEW t, t = [tracker EXCEPT !.calibration = v]
        PROVE  /\ t \in Tracker /\ t.active = tracker.active
               /\ t.gap = tracker.gap /\ t.good = tracker.good
               /\ t.crossed = tracker.crossed
    BY <2>1, <2>2 DEF Tracker
  <2>3. tracker' = [tracker EXCEPT !.calibration = FALSE]
    BY DEF CalibrationStarts
  <2>4. QED
    BY <2>2, <2>3, Zenon
<1>7. /\ ~calibRegister /\ sinceCalibration > LATENCY
      /\ calibrating' = TRUE /\ lag' = 0 /\ noticed' = "not yet"
      /\ UNCHANGED <<kind, sinceCalibration, calibRegister, learningEnabled,
                     settling, calibSeen, calibSettle, up, saveDue, calm>>
  BY DEF CalibrationStarts
<1>8. SegmentsTypeOK'
  <2>1. 0 \in 0..LATENCY + 1
    BY Constants
  <2>2. QED
    BY <1>1, <1>4, <1>5, <1>6, <1>7, <2>1 DEF SegmentsTypeOK
<1>9. GapsAreMarked' /\ SettlingIsCalm' /\ RegisterSeen'
  BY <1>6, <1>7 DEF SegmentsIInv, GapsAreMarked, SettlingIsCalm, RegisterSeen
<1>10. EndedUnderIt' /\ ExclusionLasts' /\ ExposedIsWaiting' /\ NoticedCalibrationExcluded'
  BY <1>4, <1>7 DEF EndedUnderIt, ExclusionLasts, ExposedIsWaiting,
                    NoticedCalibrationExcluded
<1>11. QED
  BY <1>4, <1>5, <1>8, <1>9, <1>10 DEF SegmentsIInv

LEMMA CalibrationEndsIInv ==
    ASSUME SegmentsIInv, CalibrationEnds
    PROVE  SegmentsIInv'
<1>1. /\ calibrating /\ calibrating' = FALSE /\ sinceCalibration' = 0 /\ lag' = 0
      /\ UNCHANGED <<kind, calibRegister, tracker, segments, learningEnabled,
                     settling, calibSeen, calibSettle, up, saveDue, savedEngine,
                     noticed, calm>>
  BY DEF CalibrationEnds, engine, store, history
<1>2. SegmentsTypeOK /\ Clean(segments) /\ Clean(savedEngine.segments)
  BY DEF SegmentsIInv
<1>3. SegmentsTypeOK'
  <2>1. 0 \in 0..LATENCY + 1
    BY Constants
  <2>2. QED
    BY <1>1, <1>2, <2>1 DEF SegmentsTypeOK
<1>4. Clean(segments)' /\ Clean(savedEngine.segments)'
  BY <1>1, <1>2 DEF Clean
<1>5. GapsAreMarked' /\ SettlingIsCalm' /\ RegisterSeen'
  BY <1>1 DEF SegmentsIInv, GapsAreMarked, SettlingIsCalm, RegisterSeen
<1>6. EndedUnderIt' /\ NoticedCalibrationExcluded'
  BY <1>1 DEF SegmentsIInv, EndedUnderIt, NoticedCalibrationExcluded
<1>7. ExclusionLasts'
  <2>1. lag <= LATENCY \/ lag > LATENCY
    BY <1>2, TypedParts, Constants
  <2>2. calibSettle + lag > LATENCY + AFTER /\ lag <= LATENCY
          => calibSettle + 0 > AFTER
    BY <1>2, TypedParts, Constants
  <2>3. ExclusionLasts
    BY DEF SegmentsIInv
  <2>4. QED
    BY <1>1, <2>1, <2>2, <2>3 DEF ExclusionLasts
<1>8. ExposedIsWaiting'
  BY <1>1 DEF SegmentsIInv, ExposedIsWaiting, Unsettled, Exposed
<1>9. QED
  BY <1>3, <1>4, <1>5, <1>6, <1>7, <1>8 DEF SegmentsIInv

LEMMA AgesTogether ==
    ASSUME NEW limit \in Nat, NEW mine \in 0..limit + 1, Longer(mine, limit) <= limit
    PROVE  /\ mine <= limit /\ 0 < Longer(mine, limit)
           /\ \A other \in 0..limit + 1 :
                 other < mine => Longer(other, limit) < Longer(mine, limit)
BY DEF Longer

(* A tick later, what ended under an unnoticed calibration is still younger.*)
LEMMA WhileItLasts ==
    ASSUME SegmentsTypeOK, EndedUnderIt, ClockOfTheBms, calibRegister' \in BOOLEAN,
           noticed' = "not yet" => noticed = "not yet" /\ ~calibRegister',
           FromThese(segments', AgedSegments(segments))
    PROVE  EndedUnderIt'
<1>1. segments \in Seq(Segment) /\ lag \in 0..LATENCY + 1 /\ LATENCY \in Nat
  BY TypedParts, Constants
<1>2. ASSUME noticed' = "not yet", calibrating', lag' <= LATENCY
      PROVE  /\ noticed = "not yet" /\ calibrating /\ lag <= LATENCY
             /\ lag' = Longer(lag, LATENCY) /\ 0 < lag'
             /\ \A other \in 0..LATENCY + 1 :
                   other < lag => Longer(other, LATENCY) < lag'
  <2>1. noticed = "not yet" /\ calibrating /\ lag' = Longer(lag, LATENCY)
    BY <1>2, ClockDoes
  <2>2. QED
    BY <1>1, <1>2, <2>1, AgesTogether
<1>3. ASSUME noticed' = "not yet", calibrating', lag' <= LATENCY,
             NEW i \in DOMAIN segments, segments[i].calibration
      PROVE  AgedSegments(segments)[i].endAge < lag'
  <2>1. /\ segments[i].endAge \in 0..LATENCY + 1
        /\ AgedSegments(segments)[i].endAge = Longer(segments[i].endAge, LATENCY)
    BY <1>1, AgedSegmentsFields, Zenon
  <2>2. segments[i].endAge < lag
    BY <1>2, <1>3, Zenon DEF EndedUnderIt
  <2>3. Longer(segments[i].endAge, LATENCY) < lag'
    BY <1>2, <1>3, <2>1, <2>2, Zenon
  <2>4. QED
    BY <2>1, <2>3, Zenon
<1>4. ASSUME noticed' = "not yet", calibrating', lag' <= LATENCY,
             NEW j \in DOMAIN segments', segments'[j].calibration
      PROVE  segments'[j].endAge < lag'
  <2>1. CASE segments'[j].endAge = 0
    BY <1>2, <1>4, <2>1, Zenon
  <2>2. ASSUME NEW i \in DOMAIN AgedSegments(segments),
               segments'[j] = AgedSegments(segments)[i]
        PROVE  segments'[j].endAge < lag'
    <3>1. i \in DOMAIN segments
      BY <1>1, AgedSegmentsFields, Zenon
    <3>2. AgedSegments(segments)[i].calibration = segments[i].calibration
      BY <1>1, <3>1, AgedSegmentsFields, Zenon
    <3>3. segments[i].calibration
      BY <1>4, <2>2, <3>2, Zenon
    <3>4. AgedSegments(segments)[i].endAge < lag'
      BY <1>3, <1>4, <3>1, <3>3, Zenon
    <3>5. QED
      BY <2>2, <3>4, Zenon
  <2>3. QED
    BY <2>1, <2>2, Zenon DEF FromThese
<1>5. QED
  BY <1>4, Zenon DEF EndedUnderIt

(* A tick without an update takes as much from the exclusion as it adds to  *)
(* the age of the calibration, until the outage stops learning.             *)
LEMMA ExclusionGoesOn ==
    ASSUME SegmentsTypeOK, ExclusionLasts, ClockOfTheBms, calibRegister' \in BOOLEAN,
           noticed' = noticed, calibRegister' = calibRegister, ~up',
           calibSettle' = Sooner(calibSettle)
    PROVE  ExclusionLasts'
<1>1. /\ lag \in Nat /\ LATENCY \in Nat /\ AFTER \in Nat
      /\ lag \in 0..LATENCY + 1 /\ calibSettle \in Nat
  BY TypedParts, Constants
<1>2. calibrating' = calibrating
  BY ClockDoes
<1>3. CASE noticed' = "in time" /\ ~calibRegister' /\ calibrating'
  <2>1. lag' = Longer(lag, LATENCY)
    BY <1>3, ClockDoes
  <2>2. lag <= LATENCY => calibSettle + lag > LATENCY + AFTER
    BY <1>2, <1>3 DEF ExclusionLasts
  <2>3. lag' <= LATENCY => calibSettle' + lag' > LATENCY + AFTER
    BY <1>1, <2>1, <2>2 DEF Longer, Sooner
  <2>4. QED
    BY <1>3, <2>3 DEF ExclusionLasts
<1>4. CASE ~(noticed' = "in time" /\ ~calibRegister' /\ calibrating')
  BY <1>4 DEF ExclusionLasts
<1>5. QED
  BY <1>3, <1>4

(* What is left of the exclusion and the age of the open segment's last     *)
(* good sample still make up more than a gap that is bridged.               *)
LEMMA ExposedGoesOn ==
    ASSUME SegmentsTypeOK, ExposedIsWaiting, ClockOfTheBms, calibRegister' \in BOOLEAN,
           noticed' = noticed, calibSeen' = calibSeen,
           calibSettle' = Sooner(calibSettle),
           tracker'.active = Aged.tracker.active,
           tracker'.good = Aged.tracker.good,
           tracker'.excluded = Aged.tracker.excluded,
           tracker'.calibration = Aged.tracker.calibration,
           tracker'.active => tracker'.gap
    PROVE  ExposedIsWaiting'
<1>1. /\ BRIDGE \in Nat /\ calibSettle \in Nat /\ tracker \in Tracker
      /\ tracker.good \in 0..BRIDGE + 1
  BY TypedParts, Constants DEF Tracker
<1>2. /\ tracker'.active = tracker.active
      /\ tracker'.excluded = tracker.excluded
      /\ tracker.active =>
           /\ tracker'.good = Longer(tracker.good, BRIDGE)
           /\ tracker'.calibration <=> tracker.calibration \/ Unsettled
  BY AgedDoes
<1>3. CASE noticed' = "in time"
  <2>1. Unsettled' /\ tracker'.active => tracker'.calibration
    BY <1>2, ClockDoes
  <2>2. Unsettled /\ tracker.active => tracker.calibration
    BY <1>3 DEF ExposedIsWaiting
  <2>3. Exposed(tracker') => Exposed(tracker)
    BY <1>2, <2>2 DEF Exposed
  <2>4. Exposed(tracker) => calibSeen \/ calibSettle + tracker.good > BRIDGE
    BY <1>3 DEF ExposedIsWaiting
  <2>5. calibSettle + tracker.good > BRIDGE
          => Sooner(calibSettle) + Longer(tracker.good, BRIDGE) > BRIDGE
    BY <1>1 DEF Longer, Sooner
  <2>6. Exposed(tracker') => calibSeen' \/ calibSettle' + tracker'.good > BRIDGE
    BY <1>2, <2>3, <2>4, <2>5 DEF Exposed
  <2>7. Exposed(tracker') => tracker'.gap
    BY DEF Exposed
  <2>8. QED
    BY <2>1, <2>6, <2>7 DEF ExposedIsWaiting
<1>4. CASE ~(noticed' = "in time")
  BY <1>4 DEF ExposedIsWaiting
<1>5. QED
  BY <1>3, <1>4

LEMMA UpdateFailsIInv ==
    ASSUME SegmentsIInv, UpdateFails
    PROVE  SegmentsIInv'
<1> DEFINE r  == IF up THEN MarkGap(Aged) ELSE Aged
           ss == AgedSegments(savedEngine.segments)
<1>1. /\ tracker' = r.tracker /\ segments' = r.segments
      /\ savedEngine' = [savedEngine EXCEPT !.segments = ss]
  BY DEF UpdateFails
<1>2. /\ settling' = Sooner(settling) /\ calibSettle' = Sooner(calibSettle)
      /\ calm' = Longer(calm, SETTLING)
  BY DEF UpdateFails
<1>3. /\ up' = FALSE /\ ClockOfTheBms
      /\ UNCHANGED <<kind, learningEnabled, calibSeen, saveDue, noticed, calibRegister>>
  BY DEF UpdateFails
<1>4. /\ SegmentsTypeOK /\ Clean(segments) /\ Clean(savedEngine.segments)
      /\ GapsAreMarked /\ calibRegister' \in BOOLEAN
  BY <1>3 DEF SegmentsIInv, SegmentsTypeOK
<1>5. /\ Aged \in Steps /\ Aged.segments = AgedSegments(segments)
      /\ Aged.tracker.active = tracker.active /\ Aged.tracker.gap = tracker.gap
      /\ Aged.tracker.crossed = tracker.crossed
      /\ Aged.tracker.excluded = tracker.excluded
      /\ tracker.active =>
           /\ Aged.tracker.good = Longer(tracker.good, BRIDGE)
           /\ Aged.tracker.calibration <=> tracker.calibration \/ Unsettled
      /\ ~tracker.active => Aged.tracker = tracker
  BY <1>4, AgedDoes
<1>6. /\ r \in Steps /\ r.segments = Aged.segments
      /\ r.tracker.active = Aged.tracker.active
      /\ r.tracker.good = Aged.tracker.good
      /\ r.tracker.crossed = Aged.tracker.crossed
      /\ r.tracker.excluded = Aged.tracker.excluded
      /\ r.tracker.calibration = Aged.tracker.calibration
      /\ r.tracker.active => r.tracker.gap
  BY <1>4, <1>5, MarkGapDoes DEF GapsAreMarked
<1> HIDE DEF r
<1>7. tracker' \in Tracker /\ segments' = AgedSegments(segments) /\ segments' \in Seq(Segment)
  BY <1>1, <1>5, <1>6 DEF Steps
<1>8. Clean(segments')
  BY <1>1, <1>4, <1>6, AgedKeeps
<1>9. /\ savedEngine' \in [segments : Seq(Segment), learningEnabled : BOOLEAN]
      /\ Clean(savedEngine'.segments)
  <2>1. ss \in Seq(Segment)
    BY <1>4, TypedParts, AgedSegmentsType
  <2>2. Clean(ss)
    BY <1>4, TypedParts, AgedSegmentsFields DEF Clean
  <2> HIDE DEF ss
  <2>3. QED
    BY <1>1, <1>4, <2>1, <2>2, TypedParts
<1>10. calm' \in 0..SETTLING + 1 /\ settling' \in Nat /\ calibSettle' \in Nat
  BY <1>2, <1>4, TypedParts, Constants, SoonerIsNearer, LongerIsFarther
<1>11. SegmentsTypeOK'
  BY <1>3, <1>4, <1>7, <1>9, <1>10, ClockDoes DEF SegmentsTypeOK
<1>12. GapsAreMarked'
  BY <1>1, <1>3, <1>4, <1>5, <1>6 DEF GapsAreMarked
<1>13. SettlingIsCalm'
  <2>1. calm + settling > SETTLING
    BY DEF SegmentsIInv, SettlingIsCalm
  <2>2. calm' + settling' > SETTLING
    BY <1>2, <1>4, <2>1, TypedParts, Constants, SMTT(20) DEF Sooner, Longer
  <2>3. QED
    BY <2>2 DEF SettlingIsCalm
<1>14. RegisterSeen'
  BY <1>3, <1>4, ClockDoes DEF SegmentsIInv, RegisterSeen
<1>15. EndedUnderIt'
  <2>1. noticed' = "not yet" => noticed = "not yet" /\ ~calibRegister'
    BY <1>3 DEF SegmentsIInv, RegisterSeen
  <2>2. FromThese(segments', AgedSegments(segments))
    BY <1>7 DEF FromThese
  <2>3. QED
    BY <1>3, <1>4, <2>1, <2>2, WhileItLasts DEF SegmentsIInv
<1>16. ExclusionLasts'
  BY <1>2, <1>3, <1>4, ExclusionGoesOn DEF SegmentsIInv
<1>17. ExposedIsWaiting'
  BY <1>1, <1>2, <1>3, <1>4, <1>6, ExposedGoesOn DEF SegmentsIInv
<1>18. NoticedCalibrationExcluded'
  <2>1. noticed = "in time" => Hidden(segments')
    BY <1>1, <1>4, <1>6, AgedKeeps DEF SegmentsIInv, NoticedCalibrationExcluded, Hidden
  <2>2. QED
    BY <1>3, <2>1 DEF NoticedCalibrationExcluded, Hidden
<1>19. QED
  BY <1>8, <1>9, <1>11, <1>12, <1>13, <1>14, <1>15, <1>16, <1>17, <1>18 DEF SegmentsIInv

-----------------------------------------------------------------------------
(* An update, part by part.                                                 *)
Reports ==
    [online : BOOLEAN, complete : BOOLEAN, power : Powers, move : Moves,
     stale : BOOLEAN]

LEMMA ReadsAreReports ==
    ASSUME NEW read \in Reads
    PROVE  read \in Reports
<1>1. ASSUME NEW power \in Powers, NEW move \in Moves, NEW stale \in BOOLEAN
      PROVE  Read(power, move, stale) \in Reports
  <2>1. ASSUME NEW yes \in BOOLEAN
        PROVE  [online |-> yes, complete |-> yes, power |-> power, move |-> move,
                stale |-> stale] \in Reports
    BY DEF Reports
  <2>2. QED
    BY <2>1, Zenon DEF Read
<1>2. "idle" \in Powers /\ "level" \in Moves
  BY DEF Powers, Moves
<1>3. Incomplete \in Reports
  <2>1. ASSUME NEW r \in Reports, NEW no \in BOOLEAN
        PROVE  [r EXCEPT !.complete = no] \in Reports
    BY DEF Reports
  <2>2. QED
    BY <1>1, <1>2, <2>1, Zenon DEF Incomplete
<1>4. Offline \in Reports
  <2>1. ASSUME NEW r \in Reports, NEW no \in BOOLEAN
        PROVE  [r EXCEPT !.online = no] \in Reports
    BY DEF Reports
  <2>2. QED
    BY <1>3, <2>1, Zenon DEF Offline
<1>5. \/ \E power \in Powers, move \in Moves, stale \in BOOLEAN :
            read = Read(power, move, stale)
      \/ read = Incomplete
      \/ read = Offline
  BY SMT DEF Reads
<1>6. QED
  BY <1>1, <1>3, <1>4, <1>5, Zenon

(* The names of what Update defines on its way.                             *)
Starts(shown)   == shown /\ ~calibSeen
Settle(shown)   == IF ~shown /\ calibSeen THEN CALIB_SETTLE ELSE Sooner(calibSettle)
Learning(event) == learningEnabled /\ SettlingNow(event) = 0
Found(shown)    == IF Starts(shown)
                     THEN [Aged EXCEPT !.segments = RetroExclude(Aged.segments)]
                     ELSE Aged
Said(read, shown, event) ==
    Sample(read, shown \/ Settle(shown) > 0, Trusted(event))
After(read, shown, event) ==
    EngineStep(Found(shown), event, Learning(event), read.online,
               Said(read, shown, event))

LEMMA UpdateDoes ==
    ASSUME NEW read, NEW shown, NEW event, Update(read, shown, event)
    PROVE  /\ MayShow(shown)
           /\ tracker' = After(read, shown, event).tracker
           /\ segments' = After(read, shown, event).segments
           /\ calibSeen' = shown /\ calibSettle' = Settle(shown)
           /\ settling' = IF event \in PackResets THEN SETTLING ELSE SettlingNow(event)
           /\ up' = TRUE /\ calibRegister' = shown /\ ClockOfTheBms
           /\ savedEngine' =
                [savedEngine EXCEPT !.segments = AgedSegments(savedEngine.segments)]
           /\ saveDue' = (\/ event # "none" \/ Starts(shown)
                          \/ segments' # Aged.segments)
           /\ noticed' = IF ~Starts(shown) \/ noticed # "not yet" THEN noticed
                         ELSE IF lag <= LATENCY THEN "in time" ELSE "late"
           /\ calm' = IF ~up \/ event \in {"unitReset"} \cup PackResets THEN 1
                      ELSE Longer(calm, SETTLING)
           /\ UNCHANGED <<kind, learningEnabled>>
BY Zenon DEF Update, Starts, Settle, Learning, Found, Said, After

LEMMA SaidIsSample ==
    ASSUME NEW read \in Reads, NEW shown \in BOOLEAN, NEW event
    PROVE  /\ Said(read, shown, event) \in Samples /\ read.online \in BOOLEAN
           /\ Said(read, shown, event).uncertain = (shown \/ Settle(shown) > 0)
           /\ Said(read, shown, event).trusted = Trusted(event)
<1> DEFINE unsure == shown \/ Settle(shown) > 0
           good   == Trusted(event)
           s      == Said(read, shown, event)
<1>1. read \in Reports
  BY ReadsAreReports
<1>2. unsure \in BOOLEAN /\ good \in BOOLEAN
  BY Zenon DEF Trusted
<1>3. s = [power |-> read.power, move |-> read.move, stale |-> read.stale,
           complete |-> read.complete, uncertain |-> unsure, trusted |-> good]
  BY DEF Said, Sample
<1> HIDE DEF unsure, good, s
<1>4. s \in Samples /\ s.uncertain = unsure /\ s.trusted = good /\ read.online \in BOOLEAN
  BY <1>1, <1>2, <1>3 DEF Reports, Samples
<1>5. QED
  BY <1>4 DEF unsure, good, s

(* What the engine has before the followed tracker is fed: the tracker a    *)
(* tick older, and, when a calibration is noticed, the recent segments      *)
(* excluded.                                                                *)
LEMMA FoundIs ==
    ASSUME SegmentsTypeOK, GapsAreMarked, Clean(segments), NEW shown \in BOOLEAN
    PROVE  /\ Found(shown) \in Steps /\ Found(shown).tracker = Aged.tracker
           /\ Ready(Found(shown).tracker) /\ Flagged(Found(shown).tracker)
           /\ Clean(Found(shown).segments)
           /\ Hidden(segments) => Hidden(Found(shown).segments)
           /\ ~Starts(shown) => Found(shown).segments = AgedSegments(segments)
           /\ Starts(shown) =>
                Found(shown).segments = RetroExclude(AgedSegments(segments))
<1> DEFINE ss == AgedSegments(segments)
           rr == RetroExclude(ss)
<1>1. Aged \in Steps /\ Aged.segments = ss /\ Aged.tracker \in Tracker
  BY AgedDoes DEF Steps
<1>2. /\ Ready(Aged.tracker) /\ Flagged(Aged.tracker) /\ Clean(ss)
      /\ Hidden(segments) => Hidden(ss)
  BY <1>1, AgedKeeps
<1>3. ss \in Seq(Segment)
  BY TypedParts, AgedSegmentsType
<1>4. /\ rr \in Seq(Segment) /\ Clean(rr)
      /\ Hidden(ss) => Hidden(rr)
  BY <1>2, <1>3, RetroExcludeFields DEF Clean, Hidden
<1> HIDE DEF rr, ss
<1>5. CASE Starts(shown)
  <2>1. Found(shown) = [Aged EXCEPT !.segments = rr]
    BY <1>1, <1>5 DEF Found, rr
  <2>2. /\ Found(shown) \in Steps /\ Found(shown).tracker = Aged.tracker
        /\ Found(shown).segments = rr
    BY <1>1, <1>4, <2>1 DEF Steps
  <2>3. QED
    BY <1>2, <1>4, <1>5, <2>2 DEF rr, ss
<1>6. CASE ~Starts(shown)
  <2>1. Found(shown) = Aged
    BY <1>6 DEF Found
  <2>2. QED
    BY <1>1, <1>2, <1>6, <2>1 DEF ss
<1>7. QED
  BY <1>5, <1>6

(* The followed tracker is fed only when the system has been calm.          *)
LEMMA LearningIsCalm ==
    ASSUME SegmentsTypeOK, SettlingIsCalm, NEW event, Learning(event)
    PROVE  up /\ event # "unitReset" /\ settling <= 1 /\ Trusted(event)
<1>1. /\ SETTLING \in Nat /\ SETTLING > 0 /\ calm \in Nat /\ settling \in Nat
  BY TypedParts, Constants
<1>2. learningEnabled /\ SettlingNow(event) = 0
  BY DEF Learning
<1>3. up /\ event # "unitReset"
  BY <1>1, <1>2 DEF SettlingNow
<1>4. settling <= 1
  BY <1>1, <1>2, <1>3 DEF SettlingNow, Sooner
<1>5. calm >= SETTLING
  BY <1>1, <1>4 DEF SettlingIsCalm
<1>6. QED
  BY <1>2, <1>3, <1>4, <1>5 DEF Trusted

LEMMA UpdateIsSteered ==
    ASSUME SegmentsTypeOK, GapsAreMarked, SettlingIsCalm, Clean(segments),
           NEW read \in Reads, NEW shown \in BOOLEAN, NEW event
    PROVE  /\ Steered(Found(shown), Said(read, shown, event), Learning(event),
                      After(read, shown, event))
           /\ Learning(event) => Said(read, shown, event).trusted
<1>1. Learning(event) \in BOOLEAN
  BY Zenon DEF Learning, SegmentsTypeOK
<1>2. calibrating \in BOOLEAN /\ sinceCalibration \in Nat
  BY TypedParts DEF SegmentsTypeOK
<1>3. Learning(event) => up /\ event # "unitReset" /\ Trusted(event)
  BY LearningIsCalm
<1>4. Found(shown) \in Steps /\ Ready(Found(shown).tracker)
  BY FoundIs
<1>5. Said(read, shown, event) \in Samples /\ read.online \in BOOLEAN
  BY SaidIsSample
<1>6. Steered(Found(shown), Said(read, shown, event), Learning(event),
              After(read, shown, event))
  BY <1>1, <1>2, <1>3, <1>4, <1>5, EngineIsSteered DEF After
<1>7. QED
  BY <1>3, <1>6, SaidIsSample

(* The parts of the invariant after an update.                              *)
LEMMA UpdateTypes ==
    ASSUME SegmentsTypeOK, GapsAreMarked, SettlingIsCalm, Clean(segments),
           Clean(savedEngine.segments),
           NEW read \in Reads, NEW shown \in BOOLEAN, NEW event,
           Update(read, shown, event)
    PROVE  /\ SegmentsTypeOK' /\ GapsAreMarked'
           /\ Clean(segments') /\ Clean(savedEngine'.segments)
<1> DEFINE ss == AgedSegments(savedEngine.segments)
           a  == After(read, shown, event)
<1>1. /\ tracker' = a.tracker /\ segments' = a.segments
      /\ savedEngine' = [savedEngine EXCEPT !.segments = ss]
  BY UpdateDoes, Zenon
<1>2. /\ calibSeen' = shown /\ calibSettle' = Settle(shown)
      /\ settling' = IF event \in PackResets THEN SETTLING ELSE SettlingNow(event)
      /\ up' = TRUE /\ calibRegister' = shown /\ ClockOfTheBms
      /\ UNCHANGED <<kind, learningEnabled>>
  BY UpdateDoes, Zenon
<1>3. /\ a \in Steps /\ Rested(a.tracker) /\ Clean(a.segments)
  BY UpdateIsSteered, FoundIs DEF Steered
<1> HIDE DEF a
<1>4. /\ savedEngine' \in [segments : Seq(Segment), learningEnabled : BOOLEAN]
      /\ Clean(savedEngine'.segments)
  <2>1. ss \in Seq(Segment)
    BY TypedParts, AgedSegmentsType
  <2>2. Clean(ss)
    BY TypedParts, AgedSegmentsFields DEF Clean
  <2> HIDE DEF ss
  <2>3. QED
    BY <1>1, <2>1, <2>2, TypedParts
<1>5. tracker' \in Tracker /\ segments' \in Seq(Segment) /\ Clean(segments')
  BY <1>1, <1>3 DEF Steps
<1>6. settling' \in Nat
  BY <1>2, TypedParts, Constants, SoonerIsNearer DEF SettlingNow
<1>7. calibSettle' \in Nat
  BY <1>2, TypedParts, Constants, SoonerIsNearer DEF Settle
<1>8. calm' \in 0..SETTLING + 1
  <2>0. SETTLING \in Nat /\ calm \in 0..SETTLING + 1
    BY TypedParts, Constants
  <2>1. /\ Longer(calm, SETTLING) \in 0..SETTLING + 1
        /\ 1 \in 0..SETTLING + 1
    BY <2>0, LongerIsFarther
  <2>2. calm' = IF ~up \/ event \in {"unitReset"} \cup PackResets THEN 1
                ELSE Longer(calm, SETTLING)
    BY UpdateDoes, Zenon
  <2>3. QED
    BY <2>1, <2>2
<1>9. noticed' \in {"not yet", "in time", "late"}
  <2>1. noticed' = IF ~Starts(shown) \/ noticed # "not yet" THEN noticed
                   ELSE IF lag <= LATENCY THEN "in time" ELSE "late"
    BY UpdateDoes, Zenon
  <2>2. QED
    BY <2>1 DEF SegmentsTypeOK
<1>10. saveDue' \in BOOLEAN
  BY UpdateDoes, Zenon
<1>11. lag' \in 0..LATENCY + 1 /\ sinceCalibration' \in 0..LATENCY + 1
       /\ calibrating' = calibrating
  BY <1>2, ClockDoes
<1>12. SegmentsTypeOK'
  BY <1>2, <1>4, <1>5, <1>6, <1>7, <1>8, <1>9, <1>10, <1>11 DEF SegmentsTypeOK
<1>13. GapsAreMarked'
  BY <1>1, <1>2, <1>3 DEF GapsAreMarked, Rested
<1>14. QED
  BY <1>4, <1>5, <1>12, <1>13

LEMMA UpdateStaysCalm ==
    ASSUME SegmentsTypeOK, SettlingIsCalm,
           NEW read, NEW shown, NEW event, Update(read, shown, event)
    PROVE  SettlingIsCalm'
<1>1. /\ settling' = IF event \in PackResets THEN SETTLING ELSE SettlingNow(event)
      /\ calm' = IF ~up \/ event \in {"unitReset"} \cup PackResets THEN 1
                 ELSE Longer(calm, SETTLING)
  BY UpdateDoes, Zenon
<1>2. /\ SETTLING \in Nat /\ calm \in Nat /\ settling \in Nat
      /\ calm + settling > SETTLING
  BY TypedParts, Constants DEF SettlingIsCalm
<1>3. CASE ~up \/ event \in {"unitReset"} \cup PackResets
  <2>1. calm' = 1 /\ settling' = SETTLING
    BY <1>1, <1>3 DEF SettlingNow
  <2>2. QED
    BY <1>2, <2>1 DEF SettlingIsCalm
<1>4. CASE ~(~up \/ event \in {"unitReset"} \cup PackResets)
  <2>1. calm' = Longer(calm, SETTLING) /\ settling' = Sooner(settling)
    BY <1>1, <1>4 DEF SettlingNow
  <2>2. QED
    BY <1>2, <2>1 DEF SettlingIsCalm, Longer, Sooner
<1>5. QED
  BY <1>3, <1>4

LEMMA UpdateEndedUnderIt ==
    ASSUME SegmentsIInv, NEW read \in Reads, NEW shown \in BOOLEAN, NEW event,
           Update(read, shown, event)
    PROVE  EndedUnderIt'
<1>1. /\ SegmentsTypeOK /\ EndedUnderIt /\ RegisterSeen /\ GapsAreMarked
      /\ SettlingIsCalm /\ Clean(segments)
  BY DEF SegmentsIInv
<1>2. /\ ClockOfTheBms /\ calibRegister' = shown
      /\ segments' = After(read, shown, event).segments
      /\ noticed' = IF ~Starts(shown) \/ noticed # "not yet" THEN noticed
                    ELSE IF lag <= LATENCY THEN "in time" ELSE "late"
  BY UpdateDoes, Zenon
<1>3. noticed' = "not yet" => noticed = "not yet" /\ ~Starts(shown)
  BY <1>2
<1>4. noticed = "not yet" => ~calibSeen
  BY <1>1 DEF RegisterSeen
<1>5. noticed' = "not yet" => ~calibRegister'
  BY <1>2, <1>3, <1>4 DEF Starts
<1>6. CASE noticed' = "not yet"
  <2>1. Found(shown).segments = AgedSegments(segments)
    BY <1>1, <1>3, <1>6, FoundIs
  <2>2. FromThese(After(read, shown, event).segments, Found(shown).segments)
    BY <1>1, UpdateIsSteered DEF Steered
  <2>3. FromThese(segments', AgedSegments(segments))
    BY <1>2, <2>1, <2>2
  <2>4. QED
    BY <1>1, <1>2, <1>3, <1>5, <2>3, WhileItLasts
<1>7. CASE ~(noticed' = "not yet")
  BY <1>7 DEF EndedUnderIt
<1>8. QED
  BY <1>6, <1>7

LEMMA UpdateRegisterSeen ==
    ASSUME SegmentsIInv, NEW read \in Reads, NEW shown \in BOOLEAN, NEW event,
           Update(read, shown, event)
    PROVE  RegisterSeen'
<1>1. SegmentsTypeOK /\ RegisterSeen
  BY DEF SegmentsIInv
<1>2. /\ ClockOfTheBms /\ calibRegister' = shown /\ calibSeen' = shown
      /\ noticed' = IF ~Starts(shown) \/ noticed # "not yet" THEN noticed
                    ELSE IF lag <= LATENCY THEN "in time" ELSE "late"
  BY UpdateDoes, Zenon
<1>3. noticed' = "not yet" => ~shown
  BY <1>1, <1>2 DEF RegisterSeen, Starts
<1>4. (calibRegister' <=> calibrating') => lag' = 0
  BY <1>1, <1>2, ClockDoes
<1>5. QED
  BY <1>2, <1>3, <1>4 DEF RegisterSeen

LEMMA SettleIsLong ==
    CALIB_SETTLE \in Nat /\ CALIB_SETTLE > 0 /\ LATENCY + AFTER \in Nat
BY Constants

LEMMA EarlyIsEarly ==
    ASSUME NEW x \in Nat, NEW y \in Nat, NEW age \in Nat, age < x
    PROVE  age <= x /\ age < x + y
OBVIOUS

LEMMA RangeIsNat ==
    ASSUME NEW limit \in Nat, NEW n \in 0..limit + 1
    PROVE  n \in Nat
OBVIOUS

(* A countdown and an age that together exceed a limit still do a tick      *)
(* later, and the countdown is not over before the limit.                   *)
LEMMA Countdown ==
    ASSUME NEW left \in Nat, NEW age \in Nat, NEW limit \in Nat, left + age > limit
    PROVE  /\ age <= limit => Sooner(left) + (age + 1) > limit
           /\ age < limit => Sooner(left) > 0 /\ ~(left <= 1)
           /\ ~(Sooner(left) > 0) => Longer(age, limit) > limit
BY DEF Sooner, Longer

(* Once noticed, a calibration is hidden until it is over for as long as it *)
(* matters: the register shows it, the exclusion that followed the register *)
(* still runs, or an outage has stopped learning.                           *)
LEMMA UnsettledIsUncertain ==
    ASSUME SegmentsTypeOK, RegisterSeen, ExclusionLasts, noticed = "in time",
           NEW shown \in BOOLEAN, NEW event, MayShow(shown), Learning(event),
           up, settling <= 1, Unsettled
    PROVE  shown \/ Settle(shown) > 0
<1>1. /\ LATENCY \in Nat /\ AFTER \in Nat /\ lag \in Nat /\ settling \in Nat
      /\ calibSettle \in Nat /\ sinceCalibration \in Nat
      /\ CALIB_SETTLE > 0 /\ LATENCY + AFTER \in Nat
  BY TypedParts, Constants, SettleIsLong
<1>2. SUFFICES ASSUME ~shown, ~calibSeen
               PROVE  Sooner(calibSettle) > 0
  BY <1>1 DEF Settle
<1>3. ~calibRegister
  BY <1>2 DEF RegisterSeen
<1>4. CASE calibrating
  <2>1. lag < LATENCY
    BY <1>2, <1>4 DEF MayShow
  <2>2. lag <= LATENCY => calibSettle + lag > LATENCY + AFTER
    BY <1>3, <1>4 DEF ExclusionLasts
  <2>3. lag <= LATENCY /\ lag < LATENCY + AFTER
    BY <1>1, <2>1, EarlyIsEarly, Zenon
  <2>4. QED
    BY <1>1, <2>2, <2>3, Countdown, Zenon
<1>5. CASE ~calibrating
  <2>1. sinceCalibration < AFTER
    BY <1>5 DEF Unsettled
  <2>2. \/ calibSettle + sinceCalibration > AFTER
        \/ settling + sinceCalibration > AFTER
    BY <1>3, <1>5, <2>1 DEF ExclusionLasts
  <2>3. QED
    BY <1>1, <2>1, <2>2, Countdown, Zenon
<1>6. QED
  BY <1>4, <1>5

(* What is exposed when the exclusion has run out is too old to go on.      *)
LEMMA ExposedIsTooLong ==
    ASSUME SegmentsTypeOK, GapsAreMarked, ExposedIsWaiting, noticed = "in time",
           NEW shown \in BOOLEAN, ~shown, ~(Settle(shown) > 0),
           Exposed(Aged.tracker)
    PROVE  TooLong(Aged.tracker)
<1>1. /\ BRIDGE \in Nat /\ calibSettle \in Nat /\ tracker \in Tracker
      /\ tracker.good \in Nat /\ CALIB_SETTLE > 0
  <2>1. BRIDGE \in Nat /\ calibSettle \in Nat /\ tracker \in Tracker
    BY TypedParts, Constants
  <2>2. tracker.good \in 0..BRIDGE + 1
    BY <2>1 DEF Tracker
  <2>3. tracker.good \in Nat
    BY <2>1, <2>2, RangeIsNat, Zenon
  <2>4. QED
    BY <2>1, <2>3, SettleIsLong
<1>2. /\ Aged.tracker.active = tracker.active /\ Aged.tracker.gap = tracker.gap
      /\ Aged.tracker.excluded = tracker.excluded
      /\ tracker.active =>
           /\ Aged.tracker.good = Longer(tracker.good, BRIDGE)
           /\ Aged.tracker.calibration <=> tracker.calibration \/ Unsettled
  BY AgedDoes
<1>3. Exposed(tracker) /\ tracker.active
  BY <1>2 DEF Exposed, ExposedIsWaiting
<1>4. tracker.gap /\ (calibSeen \/ calibSettle + tracker.good > BRIDGE)
  BY <1>3 DEF ExposedIsWaiting
<1>5. ~calibSeen /\ ~(Sooner(calibSettle) > 0)
  BY <1>1 DEF Settle
<1>6. calibSettle + tracker.good > BRIDGE => Longer(tracker.good, BRIDGE) > BRIDGE
  BY <1>1, <1>5, Countdown, Zenon
<1>7. Aged.tracker.good > BRIDGE
  BY <1>2, <1>3, <1>4, <1>5, <1>6
<1>8. QED
  BY <1>2, <1>4, <1>7 DEF TooLong

LEMMA UpdateExclusion ==
    ASSUME SegmentsIInv, NEW read \in Reads, NEW shown \in BOOLEAN, NEW event,
           Update(read, shown, event)
    PROVE  ExclusionLasts'
<1>1. SegmentsTypeOK /\ RegisterSeen /\ ExclusionLasts
  BY DEF SegmentsIInv
<1>2. /\ MayShow(shown) /\ ClockOfTheBms /\ calibRegister' = shown
      /\ calibSettle' = Settle(shown) /\ up' = TRUE
      /\ settling' = IF event \in PackResets THEN SETTLING ELSE SettlingNow(event)
      /\ noticed' = IF ~Starts(shown) \/ noticed # "not yet" THEN noticed
                    ELSE IF lag <= LATENCY THEN "in time" ELSE "late"
  BY UpdateDoes, Zenon
<1>3. /\ LATENCY \in Nat /\ AFTER \in Nat /\ SETTLING \in Nat
      /\ AFTER <= SETTLING /\ AFTER <= LATENCY
      /\ lag \in 0..LATENCY + 1 /\ lag \in Nat
      /\ settling \in Nat /\ calibSettle \in Nat
      /\ sinceCalibration \in 0..LATENCY + 1 /\ sinceCalibration \in Nat
      /\ CALIB_SETTLE = LATENCY + AFTER
  BY <1>1, TypedParts, Constants
<1>4. SUFFICES ASSUME noticed' = "in time", ~shown
               PROVE  ExclusionLasts'
  BY <1>2 DEF ExclusionLasts
<1>5. noticed = "in time"
  BY <1>2, <1>4 DEF Starts
<1>6. calibrating' <=> calibrating
  BY <1>1, <1>2, ClockDoes
<1>7. ~calibSeen => ~calibRegister
  BY <1>1 DEF RegisterSeen
<1>8. CASE calibrating
  <2>1. lag < LATENCY
    BY <1>2, <1>4, <1>8 DEF MayShow
  <2>2. lag' = Longer(lag, LATENCY)
    BY <1>1, <1>2, <1>4, <1>8, ClockDoes
  <2>3. lag' = lag + 1
    BY <1>3, <2>1, <2>2 DEF Longer
  <2>4. ~calibSeen => calibSettle + lag > LATENCY + AFTER
    <3>1. lag <= LATENCY
      BY <1>3, <2>1
    <3>2. QED
      BY <1>1, <1>5, <1>7, <1>8, <3>1, Zenon DEF ExclusionLasts
  <2>5. calibSeen => Settle(shown) = LATENCY + AFTER
    BY <1>3, <1>4 DEF Settle
  <2>6. ~calibSeen => Settle(shown) = Sooner(calibSettle)
    BY DEF Settle
  <2>7. calibSettle' + lag' > LATENCY + AFTER
    <3>1. CASE calibSeen
      <4>1. calibSettle' = LATENCY + AFTER
        BY <1>2, <2>5, <3>1
      <4>2. QED
        BY <1>3, <2>3, <4>1
    <3>2. CASE ~calibSeen
      <4>1. lag <= LATENCY + AFTER /\ LATENCY + AFTER \in Nat
        BY <1>3, <2>1
      <4>2. Sooner(calibSettle) + (lag + 1) > LATENCY + AFTER
        BY <1>3, <2>4, <3>2, <4>1, Countdown, Zenon
      <4>3. calibSettle' = Sooner(calibSettle)
        BY <1>2, <2>6, <3>2
      <4>4. QED
        BY <2>3, <4>2, <4>3, Zenon
    <3>3. QED
      BY <3>1, <3>2
  <2>8. ~(lag' > LATENCY)
    BY <1>3, <2>1, <2>3
  <2>9. QED
    BY <1>6, <1>8, <2>7, <2>8 DEF ExclusionLasts
<1>9. CASE ~calibrating
  <2>1. sinceCalibration' = Longer(sinceCalibration, LATENCY)
    BY <1>1, <1>2, <1>9, ClockDoes
  <2>2. sinceCalibration' < AFTER =>
          /\ sinceCalibration' = sinceCalibration + 1 /\ sinceCalibration < AFTER
    BY <1>3, <2>1 DEF Longer
  <2>3. SUFFICES ASSUME sinceCalibration' < AFTER
                 PROVE  \/ calibSettle' + sinceCalibration' > AFTER
                        \/ settling' + sinceCalibration' > AFTER
    BY <1>6, <1>9 DEF ExclusionLasts
  <2>4. CASE calibSeen
    <3>1. Settle(shown) = LATENCY + AFTER
      BY <1>3, <1>4, <2>4 DEF Settle
    <3>2. calibSettle' = LATENCY + AFTER
      BY <1>2, <3>1
    <3>3. sinceCalibration' = sinceCalibration + 1
      BY <2>2, <2>3
    <3>4. calibSettle' + sinceCalibration' > AFTER
      BY <1>3, <3>2, <3>3
    <3>5. QED
      BY <3>4
  <2>5. CASE ~calibSeen
    <3>1. Settle(shown) = Sooner(calibSettle)
      BY <2>5 DEF Settle
    <3>2. \/ calibSettle + sinceCalibration > AFTER
          \/ ~up
          \/ settling + sinceCalibration > AFTER
      BY <1>1, <1>5, <1>7, <1>9, <2>2, <2>3, <2>5 DEF ExclusionLasts
    <3>7. sinceCalibration <= AFTER /\ sinceCalibration' = sinceCalibration + 1
      BY <1>3, <2>2, <2>3
    <3>3. CASE calibSettle + sinceCalibration > AFTER
      <4>1. Sooner(calibSettle) + (sinceCalibration + 1) > AFTER
        BY <1>3, <3>3, <3>7, Countdown, Zenon
      <4>2. QED
        BY <1>2, <3>1, <3>7, <4>1, Zenon
    <3>4. CASE ~up
      <4>1. settling' = SETTLING
        BY <1>2, <3>4 DEF SettlingNow
      <4>2. settling' + sinceCalibration' > AFTER
        BY <1>3, <3>7, <4>1
      <4>3. QED
        BY <4>2
    <3>5. CASE settling + sinceCalibration > AFTER
      <4>1. settling' = SETTLING \/ settling' = Sooner(settling)
        BY <1>2 DEF SettlingNow
      <4>2. Sooner(settling) + (sinceCalibration + 1) > AFTER
        BY <1>3, <3>5, <3>7, Countdown, Zenon
      <4>3. SETTLING + (sinceCalibration + 1) > AFTER
        BY <1>3
      <4>4. QED
        BY <3>7, <4>1, <4>2, <4>3, Zenon
    <3>6. QED
      BY <3>2, <3>3, <3>4, <3>5
  <2>6. QED
    BY <2>4, <2>5
<1>10. QED
  BY <1>8, <1>9

LEMMA YoungerIsInTime ==
    ASSUME NEW limit \in Nat, NEW mine \in 0..limit + 1, mine <= limit,
           NEW age \in 0..limit + 1, age < mine
    PROVE  Longer(age, limit) <= limit
BY DEF Longer

LEMMA WaitingGoesOn ==
    ASSUME NEW bridge \in Nat, NEW good \in 0..bridge + 1, NEW left \in Nat
    PROVE  /\ left >= bridge => left + Longer(good, bridge) > bridge
           /\ left + good > bridge => Sooner(left) + Longer(good, bridge) > bridge
BY DEF Longer, Sooner

(* The segments that a calibration is noticed with are hidden by then: they *)
(* ended under it, so they are younger than the register is late.           *)
LEMMA NoticedIsHidden ==
    ASSUME SegmentsTypeOK, RegisterSeen, EndedUnderIt, noticed = "not yet",
           MayShow(TRUE), ~calibSeen, lag <= LATENCY
    PROVE  Hidden(RetroExclude(AgedSegments(segments)))
<1>1. calibrating
  BY DEF MayShow, RegisterSeen
<1>2. segments \in Seq(Segment) /\ AgedSegments(segments) \in Seq(Segment)
  BY TypedParts, AgedSegmentsType
<1>3. lag \in 0..LATENCY + 1 /\ LATENCY \in Nat
  BY TypedParts, Constants
<1>5. ASSUME NEW i \in DOMAIN RetroExclude(AgedSegments(segments)),
             RetroExclude(AgedSegments(segments))[i].calibration
      PROVE  RetroExclude(AgedSegments(segments))[i].excluded
  <2>1. i \in DOMAIN AgedSegments(segments) /\ i \in DOMAIN segments
    BY <1>2, AgedSegmentsFields, RetroExcludeFields, Zenon
  <2>2. /\ RetroExclude(AgedSegments(segments))[i].calibration
             = AgedSegments(segments)[i].calibration
        /\ AgedSegments(segments)[i].endAge <= LATENCY
             => RetroExclude(AgedSegments(segments))[i].excluded
    BY <1>2, <2>1, RetroExcludeFields, Zenon
  <2>3. /\ AgedSegments(segments)[i].calibration = segments[i].calibration
        /\ AgedSegments(segments)[i].endAge = Longer(segments[i].endAge, LATENCY)
        /\ segments[i].endAge \in 0..LATENCY + 1
    BY <1>2, <2>1, AgedSegmentsFields, Zenon
  <2>4. segments[i].calibration
    BY <1>5, <2>2, <2>3, Zenon
  <2>5. segments[i].endAge < lag
    BY <1>1, <2>1, <2>4, Zenon DEF EndedUnderIt
  <2>6. Longer(segments[i].endAge, LATENCY) <= LATENCY
    BY <1>3, <2>3, <2>5, YoungerIsInTime, Zenon
  <2>7. QED
    BY <2>2, <2>3, <2>6, Zenon
<1>6. QED
  BY <1>5, Zenon DEF Hidden

(* What stays exposed through an update will be too old when the exclusion  *)
(* that now runs is over.                                                   *)
LEMMA ExposedStillWaits ==
    ASSUME SegmentsTypeOK, ExposedIsWaiting, noticed = "in time",
           NEW shown \in BOOLEAN, ~shown, Exposed(Aged.tracker)
    PROVE  Settle(shown) + Aged.tracker.good > BRIDGE
<1>1. /\ BRIDGE \in Nat /\ calibSettle \in Nat /\ tracker \in Tracker
      /\ tracker.good \in 0..BRIDGE + 1 /\ CALIB_SETTLE \in Nat
      /\ BRIDGE <= CALIB_SETTLE
  <2>1. BRIDGE \in Nat /\ calibSettle \in Nat /\ tracker \in Tracker
    BY TypedParts, Constants
  <2>2. tracker.good \in 0..BRIDGE + 1
    BY <2>1 DEF Tracker
  <2>3. CALIB_SETTLE \in Nat /\ BRIDGE <= CALIB_SETTLE
    BY Constants, SettleIsLong
  <2>4. QED
    BY <2>1, <2>2, <2>3
<1>2. /\ Aged.tracker.active = tracker.active
      /\ Aged.tracker.excluded = tracker.excluded
      /\ tracker.active =>
           /\ Aged.tracker.good = Longer(tracker.good, BRIDGE)
           /\ Aged.tracker.calibration <=> tracker.calibration \/ Unsettled
  BY AgedDoes
<1>3. Exposed(tracker) /\ tracker.active
  BY <1>2 DEF Exposed, ExposedIsWaiting
<1>4. calibSeen \/ calibSettle + tracker.good > BRIDGE
  BY <1>3 DEF ExposedIsWaiting
<1>6. CASE calibSeen
  <2>1. Settle(shown) = CALIB_SETTLE /\ CALIB_SETTLE >= BRIDGE
    BY <1>1, <1>6 DEF Settle
  <2>2. CALIB_SETTLE + Longer(tracker.good, BRIDGE) > BRIDGE
    BY <1>1, <2>1, WaitingGoesOn, Zenon
  <2>3. QED
    BY <1>2, <1>3, <2>1, <2>2, Zenon
<1>7. CASE ~calibSeen
  <2>1. Settle(shown) = Sooner(calibSettle)
    BY <1>7 DEF Settle
  <2>2. Sooner(calibSettle) + Longer(tracker.good, BRIDGE) > BRIDGE
    BY <1>1, <1>4, <1>7, WaitingGoesOn, Zenon
  <2>3. QED
    BY <1>2, <1>3, <2>1, <2>2, Zenon
<1>8. QED
  BY <1>6, <1>7

LEMMA UpdateHides ==
    ASSUME SegmentsIInv, NEW read \in Reads, NEW shown \in BOOLEAN, NEW event,
           Update(read, shown, event), noticed' = "in time"
    PROVE  Hidden(segments') /\ ExposedIsWaiting'
<1> DEFINE in == Said(read, shown, event)
           a  == After(read, shown, event)
           f  == Found(shown)
<1>1. /\ SegmentsTypeOK /\ GapsAreMarked /\ SettlingIsCalm /\ RegisterSeen
      /\ EndedUnderIt /\ ExclusionLasts /\ ExposedIsWaiting
      /\ NoticedCalibrationExcluded /\ Clean(segments)
  BY DEF SegmentsIInv
<1>2. /\ MayShow(shown) /\ ClockOfTheBms /\ calibRegister' = shown
      /\ tracker' = a.tracker /\ segments' = a.segments
      /\ calibSeen' = shown /\ calibSettle' = Settle(shown)
      /\ noticed' = IF ~Starts(shown) \/ noticed # "not yet" THEN noticed
                    ELSE IF lag <= LATENCY THEN "in time" ELSE "late"
  BY UpdateDoes, Zenon
<1>3. \/ noticed = "in time"
      \/ noticed = "not yet" /\ Starts(shown) /\ lag <= LATENCY
  BY <1>2
<1>4. Steered(f, in, Learning(event), a)
  BY <1>1, UpdateIsSteered
<1>5. f.tracker = Aged.tracker /\ Flagged(f.tracker)
  BY <1>1, FoundIs
<1>6. in.uncertain <=> (shown \/ Settle(shown) > 0)
  <2>1. in.uncertain = (shown \/ Settle(shown) > 0)
    BY SaidIsSample
  <2>2. QED
    BY <2>1, Zenon
<1> HIDE DEF in, a, f
<1>13. calibRegister' \in BOOLEAN
  BY <1>2
<1>7. /\ Learning(event) /\ Unsettled => in.uncertain
      /\ Hidden(f.segments)
      /\ Learning(event) /\ Exposed(f.tracker) /\ ~in.uncertain => TooLong(f.tracker)
  <2>1. CASE noticed = "in time"
    <3>1. Hidden(segments)
      BY <1>1, <2>1 DEF NoticedCalibrationExcluded, Hidden
    <3>2. Hidden(f.segments)
      BY <1>1, <3>1, FoundIs DEF f
    <3>3. Learning(event) /\ Unsettled => in.uncertain
      BY <1>1, <1>2, <1>6, <2>1, LearningIsCalm, UnsettledIsUncertain
    <3>4. Exposed(f.tracker) /\ ~in.uncertain => TooLong(f.tracker)
      BY <1>1, <1>5, <1>6, <2>1, ExposedIsTooLong
    <3>5. QED
      BY <3>2, <3>3, <3>4
  <2>2. CASE noticed = "not yet" /\ Starts(shown) /\ lag <= LATENCY
    <3>1. shown /\ ~calibSeen
      BY <2>2 DEF Starts
    <3>2. MayShow(TRUE)
      BY <1>2, <3>1, Zenon DEF MayShow
    <3>3. Hidden(RetroExclude(AgedSegments(segments)))
      BY <1>1, <2>2, <3>1, <3>2, NoticedIsHidden
    <3>4. f.segments = RetroExclude(AgedSegments(segments))
      BY <1>1, <2>2, FoundIs DEF f
    <3>5. QED
      BY <1>6, <3>1, <3>3, <3>4
  <2>3. QED
    BY <1>3, <2>1, <2>2
<1>8. /\ Hidden(a.segments) /\ Flagged(a.tracker)
      /\ Exposed(a.tracker) => /\ Exposed(Aged.tracker) /\ a.tracker.gap
                               /\ a.tracker.good = Aged.tracker.good
  BY <1>4, <1>5, <1>7 DEF Steered
<1>9. Unsettled' => Unsettled
  BY <1>1, <1>2, <1>13, ClockDoes
<1>10. Unsettled' /\ tracker'.active => tracker'.calibration
  BY <1>2, <1>8, <1>9 DEF Flagged
<1>11. Exposed(tracker') =>
         tracker'.gap /\ (calibSeen' \/ calibSettle' + tracker'.good > BRIDGE)
  <2>1. SUFFICES ASSUME Exposed(a.tracker), ~shown
                 PROVE  Settle(shown) + a.tracker.good > BRIDGE
    BY <1>2, <1>8
  <2>2. noticed = "in time"
    BY <1>3, <2>1 DEF Starts
  <2>3. Settle(shown) + Aged.tracker.good > BRIDGE
    BY <1>1, <1>8, <2>1, <2>2, ExposedStillWaits
  <2>4. QED
    BY <1>8, <2>1, <2>3
<1>12. QED
  BY <1>2, <1>8, <1>10, <1>11 DEF ExposedIsWaiting, Exposed

LEMMA UpdateIInv ==
    ASSUME SegmentsIInv, Tick
    PROVE  SegmentsIInv'
<1>1. PICK read \in Reads, shown \in BOOLEAN, event \in Events :
        Update(read, shown, event)
  BY DEF Tick
<1>2. /\ SegmentsTypeOK /\ GapsAreMarked /\ SettlingIsCalm
      /\ Clean(segments) /\ Clean(savedEngine.segments)
  BY DEF SegmentsIInv
<1>3. /\ SegmentsTypeOK' /\ GapsAreMarked'
      /\ Clean(segments') /\ Clean(savedEngine'.segments)
  BY <1>1, <1>2, UpdateTypes
<1>4. SettlingIsCalm'
  BY <1>1, <1>2, UpdateStaysCalm
<1>5. RegisterSeen' /\ EndedUnderIt' /\ ExclusionLasts'
  BY <1>1, UpdateRegisterSeen, UpdateEndedUnderIt, UpdateExclusion
<1>6. ExposedIsWaiting' /\ NoticedCalibrationExcluded'
  <2>1. CASE noticed' = "in time"
    BY <1>1, <2>1, UpdateHides DEF NoticedCalibrationExcluded, Hidden
  <2>2. CASE ~(noticed' = "in time")
    BY <2>2 DEF ExposedIsWaiting, NoticedCalibrationExcluded
  <2>3. QED
    BY <2>1, <2>2
<1>7. QED
  BY <1>3, <1>4, <1>5, <1>6 DEF SegmentsIInv

LEMMA SetLearningEnabledIInv ==
    ASSUME SegmentsIInv, SetLearningEnabled
    PROVE  SegmentsIInv'
<1> DEFINE r == [tracker |-> tracker, segments |-> segments]
           t == IF kind = "pack" THEN tracker
                ELSE IF learningEnabled THEN MarkGap(r).tracker
                ELSE Discard(Cross(r)).tracker
<1>1. /\ tracker' = t
      /\ settling' = IF learningEnabled THEN settling ELSE SETTLING + 1
      /\ calm' = IF learningEnabled THEN calm ELSE 0
      /\ learningEnabled' = ~learningEnabled
      /\ savedEngine' = [Snapshot(segments, learningEnabled)
                            EXCEPT !.learningEnabled = learningEnabled']
      /\ saveDue' = FALSE
      /\ UNCHANGED <<kind, calibrating, sinceCalibration, calibRegister, lag,
                     segments, calibSeen, calibSettle, up, noticed>>
  BY DEF SetLearningEnabled, bms, Now
<1>2. SegmentsTypeOK /\ GapsAreMarked /\ Clean(segments)
  BY DEF SegmentsIInv
<1>3. r \in Steps /\ r.tracker = tracker /\ r.segments = segments
  BY <1>2 DEF SegmentsTypeOK, Steps
<1> HIDE DEF r
<1>4. /\ MarkGap(r).tracker \in Tracker
      /\ MarkGap(r).tracker.gap = tracker.active
      /\ MarkGap(r).tracker.active = tracker.active
      /\ MarkGap(r).tracker.good = tracker.good
      /\ MarkGap(r).tracker.crossed = tracker.crossed
      /\ MarkGap(r).tracker.excluded = tracker.excluded
      /\ MarkGap(r).tracker.calibration = tracker.calibration
  BY <1>3, MarkGapDoes DEF Steps
<1>5. Discard(Cross(r)).tracker = NoSegment
  BY <1>3, DiscardDoes
<1>6. /\ t \in Tracker /\ ~t.crossed
      /\ t.active /\ ~t.gap => t.good = 0
      /\ ~up /\ t.active => t.gap
      /\ Unsettled /\ t.active /\ (Unsettled /\ tracker.active => tracker.calibration)
           => t.calibration
      /\ Exposed(t) => /\ Exposed(tracker) /\ t.good = tracker.good
                       /\ tracker.gap => t.gap
  BY <1>2, <1>4, <1>5, NoSegmentIsOne
  DEF SegmentsTypeOK, GapsAreMarked, Rested, Exposed
<1> HIDE DEF t
<1>7. /\ savedEngine' \in [segments : Seq(Segment), learningEnabled : BOOLEAN]
      /\ savedEngine'.segments = segments
  <2>1. learningEnabled' \in BOOLEAN /\ segments \in Seq(Segment)
    BY <1>1, <1>2, TypedParts
  <2>2. ASSUME NEW ss \in Seq(Segment), NEW old, NEW new \in BOOLEAN
        PROVE  /\ [Snapshot(ss, old) EXCEPT !.learningEnabled = new]
                     \in [segments : Seq(Segment), learningEnabled : BOOLEAN]
               /\ [Snapshot(ss, old) EXCEPT !.learningEnabled = new].segments = ss
    BY DEF Snapshot
  <2>3. QED
    BY <1>1, <2>1, <2>2, Zenon
<1>8. /\ settling' \in Nat /\ calm' \in 0..SETTLING + 1 /\ calm' + settling' > SETTLING
  <2>1. /\ SETTLING \in Nat /\ calm \in 0..SETTLING + 1 /\ settling \in Nat
        /\ calm + settling > SETTLING
    BY <1>2, TypedParts, Constants DEF SegmentsIInv, SettlingIsCalm
  <2>2. \/ settling' = settling /\ calm' = calm
        \/ settling' = SETTLING + 1 /\ calm' = 0
    BY <1>1
  <2>3. QED
    BY <2>1, <2>2
<1>9. SegmentsTypeOK'
  BY <1>1, <1>2, <1>6, <1>7, <1>8 DEF SegmentsTypeOK
<1>10. Clean(segments') /\ Clean(savedEngine'.segments)
  BY <1>1, <1>2, <1>7
<1>11. GapsAreMarked'
  BY <1>1, <1>6 DEF GapsAreMarked
<1>12. SettlingIsCalm'
  BY <1>8 DEF SettlingIsCalm
<1>13. RegisterSeen' /\ EndedUnderIt' /\ NoticedCalibrationExcluded'
  BY <1>1 DEF SegmentsIInv, RegisterSeen, EndedUnderIt, NoticedCalibrationExcluded
<1>14. ExclusionLasts'
  <2>1. ExclusionLasts /\ settling \in Nat /\ sinceCalibration \in Nat
    BY <1>2, TypedParts DEF SegmentsIInv
  <2>2. SETTLING + 1 + sinceCalibration > AFTER
    BY <2>1, Constants
  <2>3. settling' = settling \/ settling' = SETTLING + 1
    BY <1>1
  <2>4. settling + sinceCalibration > AFTER => settling' + sinceCalibration > AFTER
    BY <2>2, <2>3
  <2>5. QED
    BY <1>1, <2>1, <2>4 DEF ExclusionLasts
<1>15. ExposedIsWaiting'
  <2>1. ExposedIsWaiting
    BY DEF SegmentsIInv
  <2>2. Unsettled' = Unsettled
    BY <1>1 DEF Unsettled
  <2>3. QED
    BY <1>1, <1>6, <2>1, <2>2 DEF ExposedIsWaiting, Exposed
<1>16. QED
  BY <1>9, <1>10, <1>11, <1>12, <1>13, <1>14, <1>15 DEF SegmentsIInv

LEMMA WriteIInv ==
    ASSUME SegmentsIInv, Write
    PROVE  SegmentsIInv'
<1>1. /\ savedEngine' = [segments |-> segments, learningEnabled |-> learningEnabled]
      /\ saveDue' = FALSE
      /\ UNCHANGED <<kind, calibrating, sinceCalibration, calibRegister, lag,
                     tracker, segments, learningEnabled, settling, calibSeen,
                     calibSettle, up, noticed, calm>>
  BY DEF Write, Now, Snapshot, bms, engine, history
<1>2. SegmentsTypeOK /\ Clean(segments)
  BY DEF SegmentsIInv
<1>3. savedEngine' \in [segments : Seq(Segment), learningEnabled : BOOLEAN]
  BY <1>1, <1>2 DEF SegmentsTypeOK
<1>4. SegmentsTypeOK'
  BY <1>1, <1>2, <1>3 DEF SegmentsTypeOK
<1>5. Clean(segments') /\ Clean(savedEngine'.segments)
  BY <1>1, <1>2
<1>6. GapsAreMarked' /\ SettlingIsCalm' /\ RegisterSeen' /\ EndedUnderIt'
  BY <1>1 DEF SegmentsIInv, GapsAreMarked, SettlingIsCalm, RegisterSeen, EndedUnderIt
<1>7. ExclusionLasts' /\ ExposedIsWaiting' /\ NoticedCalibrationExcluded'
  BY <1>1 DEF SegmentsIInv, ExclusionLasts, ExposedIsWaiting, Unsettled, Exposed,
              NoticedCalibrationExcluded
<1>8. QED
  BY <1>4, <1>5, <1>6, <1>7 DEF SegmentsIInv

LEMMA RestartEngineIInv ==
    ASSUME SegmentsIInv, RestartEngine
    PROVE  SegmentsIInv'
<1>1. PICK kept \in {savedEngine, Now}, loaded \in BOOLEAN :
        /\ segments' = (IF loaded THEN kept ELSE Fresh).segments
        /\ learningEnabled' = (IF loaded THEN kept ELSE Fresh).learningEnabled
        /\ savedEngine' = kept /\ saveDue' = FALSE
        /\ tracker' = NoSegment
        /\ settling' = SETTLING + 1 /\ calibSeen' = FALSE /\ calibSettle' = 0
        /\ up' = TRUE
        /\ calibRegister' = FALSE
        /\ lag' = IF calibrating THEN LATENCY + 1 ELSE 0
        /\ noticed' = "late" /\ calm' = 0
        /\ UNCHANGED <<kind, calibrating, sinceCalibration>>
  BY Zenon DEF RestartEngine
<1>2. SegmentsTypeOK /\ Clean(segments) /\ Clean(savedEngine.segments)
  BY DEF SegmentsIInv
<1> DEFINE Stored == [segments : Seq(Segment), learningEnabled : BOOLEAN]
<1>3. /\ Now \in Stored /\ Now.segments = segments
      /\ Fresh \in Stored /\ Fresh.segments = <<>>
      /\ savedEngine \in Stored
  BY <1>2, EmptyIsKept DEF Now, Fresh, Snapshot, SegmentsTypeOK
<1>4. kept \in Stored /\ Clean(kept.segments) /\ Clean(Fresh.segments)
  BY <1>2, <1>3, EmptyIsKept
<1>5. /\ segments' \in Seq(Segment) /\ Clean(segments')
      /\ learningEnabled' \in BOOLEAN
  BY <1>1, <1>3, <1>4
<1>6. /\ settling' \in Nat /\ calibSettle' \in Nat /\ calm' \in 0..SETTLING + 1
      /\ lag' \in 0..LATENCY + 1 /\ calm' + settling' > SETTLING
  <2>1. SETTLING + 1 \in Nat /\ 0 + (SETTLING + 1) > SETTLING /\ 0 \in 0..SETTLING + 1
    BY Constants
  <2>2. 0 \in 0..LATENCY + 1 /\ LATENCY + 1 \in 0..LATENCY + 1
    BY Constants
  <2>3. settling' = SETTLING + 1 /\ calibSettle' = 0 /\ calm' = 0
    BY <1>1
  <2>4. lag' = LATENCY + 1 \/ lag' = 0
    BY <1>1
  <2>5. 0 \in Nat
    OBVIOUS
  <2>6. QED
    BY <2>1, <2>2, <2>3, <2>4, <2>5, Zenon
<1>7. SegmentsTypeOK'
  BY <1>1, <1>2, <1>4, <1>5, <1>6, NoSegmentIsOne DEF SegmentsTypeOK
<1>8. GapsAreMarked'
  BY <1>1, NoSegmentIsOne DEF GapsAreMarked, Rested
<1>9. SettlingIsCalm'
  BY <1>6 DEF SettlingIsCalm
<1>10. RegisterSeen' /\ EndedUnderIt' /\ ExclusionLasts' /\ ExposedIsWaiting'
       /\ NoticedCalibrationExcluded'
  BY <1>1 DEF RegisterSeen, EndedUnderIt, ExclusionLasts, ExposedIsWaiting,
              NoticedCalibrationExcluded
<1>11. QED
  BY <1>1, <1>4, <1>5, <1>7, <1>8, <1>9, <1>10 DEF SegmentsIInv

LEMMA SegmentsNextIInv ==
    ASSUME SegmentsIInv, [SegmentsNext]_segmentVars
    PROVE  SegmentsIInv'
<1>1. CASE UNCHANGED segmentVars
  <2>1. UNCHANGED <<kind, calibrating, sinceCalibration, calibRegister, lag, tracker,
                    segments, learningEnabled, settling, calibSeen, calibSettle, up,
                    saveDue, savedEngine, noticed, calm>>
    BY <1>1 DEF segmentVars, bms, engine, store, history
  <2>2. SegmentsTypeOK' /\ Clean(segments') /\ Clean(savedEngine'.segments)
    BY <2>1 DEF SegmentsIInv, SegmentsTypeOK
  <2>3. GapsAreMarked' /\ SettlingIsCalm' /\ RegisterSeen' /\ EndedUnderIt'
    BY <2>1 DEF SegmentsIInv, GapsAreMarked, SettlingIsCalm, RegisterSeen, EndedUnderIt
  <2>4. ExclusionLasts' /\ ExposedIsWaiting' /\ NoticedCalibrationExcluded'
    BY <2>1 DEF SegmentsIInv, ExclusionLasts, ExposedIsWaiting, Unsettled, Exposed,
                NoticedCalibrationExcluded
  <2>5. QED
    BY <2>2, <2>3, <2>4 DEF SegmentsIInv
<1>2. QED
  BY <1>1, CalibrationStartsIInv, CalibrationEndsIInv, UpdateFailsIInv, UpdateIInv,
     SetLearningEnabledIInv, WriteIInv, RestartEngineIInv
  DEF SegmentsNext

LEMMA SegmentsInvariant == SegmentsSpec => []SegmentsIInv
<1>1. SegmentsInit => SegmentsIInv
  BY SegmentsInitIInv
<1>2. SegmentsIInv /\ [SegmentsNext]_segmentVars => SegmentsIInv'
  BY SegmentsNextIInv
<1>3. QED
  BY <1>1, <1>2, PTL DEF SegmentsSpec

(* Whatever the reads, resets, outages and switches do, no segment that is  *)
(* recorded, now or in the store, reaches across a boundary.                *)
THEOREM NothingEverSpansABoundary == SegmentsSpec => []NothingSpansABoundary
<1>1. SegmentsIInv => NothingSpansABoundary
  BY DEF SegmentsIInv, Clean, NothingSpansABoundary
<1>2. QED
  BY <1>1, SegmentsInvariant, PTL

(* A calibration that the register shows within its latency leaves no trace *)
(* in the capacity: _on_calibration_start, the settle time and the discard  *)
(* of what is too old cover every tick of it between them.                  *)
THEOREM NoticedCalibrationNeverCounts == SegmentsSpec => []NoticedCalibrationExcluded
<1>1. SegmentsIInv => NoticedCalibrationExcluded
  BY DEF SegmentsIInv
<1>2. QED
  BY <1>1, SegmentsInvariant, PTL

(* Every recorded segment was fed by a tracker that was switched on, with   *)
(* the coordinator up and nothing disturbed for the settling period.        *)
THEOREM AlwaysLearnsWhenCalm == SegmentsSpec => []LearnsOnlyWhenCalm
<1>1. SegmentsIInv => LearnsOnlyWhenCalm
  BY DEF SegmentsIInv, Clean, LearnsOnlyWhenCalm
<1>2. QED
  BY <1>1, SegmentsInvariant, PTL

(***************************************************************************)
(* The learned references.                                                 *)
(***************************************************************************)

Baselines(K) == [set : BOOLEAN, under : SUBSET K]

\* What a tracker is when all it compares was measured under the ceilings K.
EfficiencyOf(K) ==
    [anchor : [open : BOOLEAN, tier : 0 .. 2, under : SUBSET K],
     windows : Seq(SUBSET K), pool : Seq(SUBSET K), baseline : Baselines(K)]

BalanceOf(K) ==
    [rested : Int, sampled : BOOLEAN, since : Nat, samples : Seq(Nat),
     pool : Seq(SUBSET K), baseline : Baselines(K), scores : Seq(SUBSET K)]

\* A pending baseline is collected from all the windows, too few as yet.
Pooled(e) ==
    ~e.baseline.set => e.pool = e.windows /\ Len(e.pool) < EFF_BASELINE

\* The ages of the samples: the youngest is no younger than the spacing's clock.
Apart(b) ==
    \A i \in DOMAIN b.samples :
        /\ b.samples[i] >= b.since
        /\ i < Len(b.samples) => b.samples[i] >= SPACING

\* A tracker that is followed was measured under its last ceiling; the other
\* one has measured nothing.
Tracked(e, b, last) ==
    /\ e \in EfficiencyOf(IF followed = "efficiency" THEN Known(last) ELSE {})
    /\ b \in BalanceOf(IF followed = "balance" THEN Known(last) ELSE {})
    /\ Pooled(e) /\ Apart(b)

BaselinesIInv ==
    /\ Tracked(efficiency, balance, lastCeiling)
    /\ Tracked(saved.efficiency, saved.balance, saved.last)
    /\ saved = Store(saved.value, saved.last, saved.efficiency, saved.balance)

-----------------------------------------------------------------------------
(* The windows played again. *)

\* Among natural numbers there is a smallest.
LEMMA HasSmallest ==
    ASSUME NEW S \in SUBSET Nat, S # {}
    PROVE  \E x \in S : \A y \in S : x <= y
<1>1. \E x \in S : \A y \in S : ~ (<<y, x>> \in OpToRel(<, Nat))
  BY WFMin, NatLessThanWellFounded, Zenon
<1>2. \E x \in S : \A y \in S : ~ (y < x)
  <2>1. \A x, y \in S : y < x => <<y, x>> \in OpToRel(<, Nat)
    BY Zenon DEF OpToRel
  <2> QED
    BY <1>1, <2>1, Zenon
<1> QED
  BY <1>2


\* The function by which Rederive plays the first N windows again.
IsReplay(e, kept, N, f) ==
    f = [n \in 0 .. N |->
            IF n = 0 THEN [NewEfficiency EXCEPT !.anchor = e.anchor]
            ELSE IF n \in kept THEN RecordWindow(f[n - 1], e.windows[n])
            ELSE f[n - 1]]

\* There is one for every number of windows: the least number without one would
\* follow a number with one.
LEMMA ReplayExists ==
    ASSUME NEW e, NEW kept, NEW N \in Nat
    PROVE  \E f : IsReplay(e, kept, N, f)
<1> DEFINE start == [NewEfficiency EXCEPT !.anchor = e.anchor]
           next(n, r) == IF n \in kept THEN RecordWindow(r, e.windows[n]) ELSE r
           Is(n, f) == f = [i \in 0 .. n |-> IF i = 0 THEN start ELSE next(i, f[i - 1])]
           without == {n \in Nat : ~ \E f : Is(n, f)}
<1> HIDE DEF start, next
<1>1. 0 \notin without
  <2> DEFINE f == [i \in 0 .. 0 |-> start]
  <2>1. \A i \in 0 .. 0 : i = 0
    OBVIOUS
  <2>2. Is(0, f)
    BY <2>1
  <2> QED
    BY <2>2
<1>2. ASSUME NEW m \in Nat, m # 0, m - 1 \notin without
      PROVE  m \notin without
  <2>1. m - 1 \in Nat
    BY <1>2
  <2>2. PICK f : Is(m - 1, f)
    BY <1>2, <2>1
  <2> DEFINE g == [i \in 0 .. m |-> IF i = m THEN next(m, f[m - 1]) ELSE f[i]]
  <2>3. \A i \in 0 .. m - 1 : i \in 0 .. m /\ i # m /\ f[i] = g[i]
    BY <2>1
  <2>4. g[m] = next(m, f[m - 1]) /\ m - 1 \in 0 .. m - 1
    BY <2>1
  <2>5. \A i \in 0 .. m : i = m \/ i \in 0 .. m - 1
    BY <2>1
  <2>6. \A i \in 0 .. m - 1 : f[i] = IF i = 0 THEN start ELSE next(i, f[i - 1])
    BY <2>2, Zenon
  <2>7. \A i \in 0 .. m - 1 : i # 0 => i - 1 \in 0 .. m - 1
    BY <2>1
  <2>8. DOMAIN g = 0 .. m /\ g = [i \in 0 .. m |-> g[i]]
    OBVIOUS
  <2> HIDE DEF g
  <2>9. \A i \in 0 .. m : g[i] = IF i = 0 THEN start ELSE next(i, g[i - 1])
    <3> SUFFICES ASSUME NEW i \in 0 .. m
                 PROVE  g[i] = IF i = 0 THEN start ELSE next(i, g[i - 1])
      OBVIOUS
    <3>1. CASE i = m
      BY <1>2, <2>3, <2>4, <3>1
    <3>2. CASE i \in 0 .. m - 1
      BY <2>3, <2>6, <2>7, <3>2
    <3> QED
      BY <2>5, <3>1, <3>2
  <2>10. Is(m, g)
    BY <2>8, <2>9, Zenon
  <2> QED
    BY <2>10
<1>3. without = {}
  <2> SUFFICES ASSUME without # {} PROVE FALSE
    OBVIOUS
  <2>1. without \in SUBSET Nat
    OBVIOUS
  <2> HIDE DEF without
  <2>2. PICK m \in without : \A n \in without : m <= n
    BY <2>1, HasSmallest
  <2>3. m \in Nat /\ m # 0
    BY <1>1, <2>1
  <2>4. m - 1 \in without
    BY <1>2, <2>3
  <2>5. m <= m - 1
    BY <2>2, <2>4
  <2> QED
    BY <2>3, <2>5
<1>4. PICK f : Is(N, f)
  BY <1>3
<1>5. IsReplay(e, kept, N, f)
  BY <1>4 DEF IsReplay, start, next
<1> QED
  BY <1>5

LEMMA RederiveReplays ==
    ASSUME NEW e, NEW kept, Len(e.windows) \in Nat
    PROVE  \E f : IsReplay(e, kept, Len(e.windows), f) /\ Rederive(e, kept) = f[Len(e.windows)]
<1> DEFINE N == Len(e.windows)
           F == CHOOSE f : IsReplay(e, kept, N, f)
<1>1. IsReplay(e, kept, N, F)
  BY ReplayExists
<1>2. Rederive(e, kept) = F[N]
  BY DEF Rederive, IsReplay
<1> HIDE DEF F
<1> QED
  BY <1>1, <1>2

-----------------------------------------------------------------------------
(* Sequences of measurements. *)

LEMMA BaselineConstants ==
    /\ DEBOUNCE \in Nat \ {0} /\ WINDOWS \in Nat \ {0} /\ EFF_BASELINE \in Nat \ {0}
    /\ SAMPLES \in Nat \ {0} /\ BAL_BASELINE \in Nat \ {0} /\ SPACING \in Nat \ {0}
    /\ SETTLE \in Nat /\ EFF_BASELINE <= WINDOWS
BY BaselinesAssumption

LEMMA CappedSequence ==
    ASSUME NEW S, NEW s \in Seq(S), NEW x \in S, NEW max \in Nat \ {0}
    PROVE  /\ Append(s, x) \in Seq(S) /\ Len(Append(s, x)) = Len(s) + 1
           /\ Capped(Append(s, x), max) \in Seq(S)
           /\ Len(s) + 1 <= max => Capped(Append(s, x), max) = Append(s, x)
<1> DEFINE r == Append(s, x)
<1>1. r \in Seq(S) /\ Len(r) = Len(s) + 1 /\ r # << >> /\ Len(s) \in Nat
  OBVIOUS
<1> HIDE DEF r
<1>2. Tail(r) \in Seq(S)
  BY <1>1
<1>3. Len(r) > max <=> ~(Len(s) + 1 <= max)
  BY <1>1
<1> QED
  BY <1>1, <1>2, <1>3 DEF Capped, r

LEMMA PrefixSequence ==
    ASSUME NEW S, NEW s \in Seq(S), NEW n \in Nat, n <= Len(s)
    PROVE  /\ SubSeq(s, 1, Len(s) - n) \in Seq(S)
           /\ Len(SubSeq(s, 1, Len(s) - n)) = Len(s) - n
           /\ n = 0 => SubSeq(s, 1, Len(s) - n) = s
<1> DEFINE m == Len(s) - n
           r == SubSeq(s, 1, m)
<1>1. Len(s) \in Nat /\ m \in Nat /\ m <= Len(s) /\ \A i \in 1 .. Len(s) : s[i] \in S
  OBVIOUS
<1>2. \A i \in 1 .. m : s[i] \in S
  BY <1>1
<1> HIDE DEF m
<1>3. r \in Seq(S) /\ Len(r) = IF 1 <= m THEN m - 1 + 1 ELSE 0
  BY <1>1, <1>2, SubSeqProperties
<1>4. Len(r) = m
  BY <1>1, <1>3
<1>5. ASSUME n = 0 PROVE r = s
  <2>1. m = Len(s)
    BY <1>1, <1>5 DEF m
  <2>2. \A i \in 1 .. m - 1 + 1 : r[i] = s[1 + i - 1]
    BY <1>1, <1>2, SubSeqProperties
  <2>3. \A i \in 1 .. m : r[i] = s[i]
    <3>1. \A i \in 1 .. m : i \in 1 .. m - 1 + 1 /\ 1 + i - 1 = i
      BY <1>1
    <3> QED
      BY <2>2, <3>1
  <2> HIDE DEF r
  <2>4. r = [i \in 1 .. m |-> s[i]] /\ s = [i \in 1 .. m |-> s[i]]
    BY <1>3, <1>4, <2>1, <2>3
  <2> QED
    BY <2>4
<1> QED
  BY <1>3, <1>4, <1>5 DEF m

LEMMA UnionOf ==
    ASSUME NEW K, NEW s \in Seq(SUBSET K)
    PROVE  UNION ToSet(s) \subseteq K
BY DEF ToSet

LEMMA WiderSequence ==
    ASSUME NEW K, NEW L, K \subseteq L, NEW s \in Seq(SUBSET K)
    PROVE  s \in Seq(SUBSET L)
<1>1. Len(s) \in Nat /\ s = [i \in 1 .. Len(s) |-> s[i]] /\ \A i \in 1 .. Len(s) : s[i] \in SUBSET L
  OBVIOUS
<1> QED
  BY <1>1

\* What was measured under some ceilings was measured under more.
LEMMA EfficiencyIsWider ==
    ASSUME NEW K, NEW L, K \subseteq L, NEW e \in EfficiencyOf(K)
    PROVE  e \in EfficiencyOf(L)
<1>1. e.windows \in Seq(SUBSET L) /\ e.pool \in Seq(SUBSET L)
  BY WiderSequence DEF EfficiencyOf
<1>2. e.anchor \in [open : BOOLEAN, tier : 0 .. 2, under : SUBSET L]
  BY DEF EfficiencyOf
<1>3. e.baseline \in Baselines(L)
  BY DEF EfficiencyOf, Baselines
<1>4. e = [anchor |-> e.anchor, windows |-> e.windows, pool |-> e.pool, baseline |-> e.baseline]
  BY DEF EfficiencyOf
<1> QED
  BY <1>1, <1>2, <1>3, <1>4 DEF EfficiencyOf

LEMMA BalanceIsWider ==
    ASSUME NEW K, NEW L, K \subseteq L, NEW b \in BalanceOf(K)
    PROVE  b \in BalanceOf(L)
<1>1. b.pool \in Seq(SUBSET L) /\ b.scores \in Seq(SUBSET L)
  BY WiderSequence DEF BalanceOf
<1>2. b.baseline \in Baselines(L)
  BY DEF BalanceOf, Baselines
<1>3. b = [rested |-> b.rested, sampled |-> b.sampled, since |-> b.since, samples |-> b.samples,
           pool |-> b.pool, baseline |-> b.baseline, scores |-> b.scores]
  BY DEF BalanceOf
<1>4. b.rested \in Int /\ b.sampled \in BOOLEAN /\ b.since \in Nat /\ b.samples \in Seq(Nat)
  BY DEF BalanceOf
<1> QED
  BY <1>1, <1>2, <1>3, <1>4 DEF BalanceOf

LEMMA NewTrackers ==
    ASSUME NEW K
    PROVE  /\ NewEfficiency \in EfficiencyOf(K) /\ Pooled(NewEfficiency)
           /\ NewBalance \in BalanceOf(K) /\ Apart(NewBalance)
<1>1. << >> \in Seq(SUBSET K) /\ << >> \in Seq(Nat) /\ Len(<< >>) = 0
  OBVIOUS
<1>2. NoAnchor \in [open : BOOLEAN, tier : 0 .. 2, under : SUBSET K]
  BY DEF NoAnchor
<1>3. Pending \in Baselines(K)
  BY DEF Pending, Baselines
<1>4. NewEfficiency \in EfficiencyOf(K)
  BY <1>1, <1>2, <1>3 DEF NewEfficiency, EfficiencyOf
<1>5. Pooled(NewEfficiency)
  BY <1>1, BaselineConstants DEF Pooled, NewEfficiency
<1>6. NewBalance \in BalanceOf(K)
  BY <1>1, <1>3, BaselineConstants DEF NewBalance, BalanceOf
<1>7. Apart(NewBalance)
  BY DEF Apart, NewBalance
<1> QED
  BY <1>4, <1>5, <1>6, <1>7

-----------------------------------------------------------------------------
(* The efficiency tracker. *)

LEMMA EfficiencyFields ==
    ASSUME NEW K, NEW e \in EfficiencyOf(K)
    PROVE  /\ e = [anchor |-> e.anchor, windows |-> e.windows, pool |-> e.pool,
                   baseline |-> e.baseline]
           /\ e.windows \in Seq(SUBSET K) /\ e.pool \in Seq(SUBSET K)
           /\ Len(e.windows) \in Nat /\ Len(e.pool) \in Nat
           /\ e.anchor = [open |-> e.anchor.open, tier |-> e.anchor.tier, under |-> e.anchor.under]
           /\ e.anchor.open \in BOOLEAN /\ e.anchor.tier \in 0 .. 2 /\ e.anchor.under \in SUBSET K
           /\ e.baseline = [set |-> e.baseline.set, under |-> e.baseline.under]
           /\ e.baseline.set \in BOOLEAN /\ e.baseline.under \in SUBSET K
<1>1. e.windows \in Seq(SUBSET K) /\ e.pool \in Seq(SUBSET K)
  BY DEF EfficiencyOf
<1>2. Len(e.windows) \in Nat /\ Len(e.pool) \in Nat
  BY <1>1
<1> QED
  BY <1>1, <1>2 DEF EfficiencyOf, Baselines

LEMMA EfficiencyRecord ==
    ASSUME NEW K, NEW a \in [open : BOOLEAN, tier : 0 .. 2, under : SUBSET K],
           NEW w \in Seq(SUBSET K), NEW p \in Seq(SUBSET K), NEW g \in Baselines(K)
    PROVE  [anchor |-> a, windows |-> w, pool |-> p, baseline |-> g] \in EfficiencyOf(K)
BY DEF EfficiencyOf

LEMMA EfficiencyUpdates ==
    ASSUME NEW e, NEW x, NEW y,
           e = [anchor |-> e.anchor, windows |-> e.windows, pool |-> e.pool,
                baseline |-> e.baseline]
    PROVE  [e EXCEPT !.windows = x, !.pool = y] =
               [anchor |-> e.anchor, windows |-> x, pool |-> y, baseline |-> e.baseline]
<1> DEFINE R(i, j, k, l) == [anchor |-> i, windows |-> j, pool |-> k, baseline |-> l]
<1>1. [e EXCEPT !.windows = x] = R(e.anchor, x, e.pool, e.baseline)
  OBVIOUS
<1>2. [R(e.anchor, x, e.pool, e.baseline) EXCEPT !.pool = y] = R(e.anchor, x, y, e.baseline)
  OBVIOUS
<1> HIDE DEF R
<1>3. [e EXCEPT !.windows = x, !.pool = y] = R(e.anchor, x, y, e.baseline)
  BY <1>1, <1>2
<1> QED
  BY <1>3, Zenon DEF R

\* A window joins the windows and, while the baseline is pending, its pool.
LEMMA RecordWindowKeeps ==
    ASSUME NEW K, NEW e \in EfficiencyOf(K), Pooled(e), NEW w \in SUBSET K
    PROVE  RecordWindow(e, w) \in EfficiencyOf(K) /\ Pooled(RecordWindow(e, w))
<1> DEFINE pool == IF e.baseline.set THEN e.pool ELSE Append(e.pool, w)
           windows == Capped(Append(e.windows, w), WINDOWS)
           baseline == IF ~e.baseline.set /\ Len(pool) >= EFF_BASELINE
                         THEN Learned(UNION ToSet(pool)) ELSE e.baseline
           r == [anchor |-> e.anchor, windows |-> windows, pool |-> pool, baseline |-> baseline]
<1>0. /\ e = [anchor |-> e.anchor, windows |-> e.windows, pool |-> e.pool,
               baseline |-> e.baseline]
      /\ e.windows \in Seq(SUBSET K) /\ e.pool \in Seq(SUBSET K)
      /\ Len(e.windows) \in Nat /\ Len(e.pool) \in Nat
  BY EfficiencyFields
<1>1. RecordWindow(e, w) = r
  <2> DEFINE e2 == [e EXCEPT !.windows = windows, !.pool = pool]
  <2>1. RecordWindow(e, w) =
            [e2 EXCEPT !.baseline = IF ~e2.baseline.set /\ Len(pool) >= EFF_BASELINE
                                      THEN Learned(UNION ToSet(pool)) ELSE e2.baseline]
    BY Zenon DEF RecordWindow
  <2>2. e2 = [anchor |-> e.anchor, windows |-> windows, pool |-> pool, baseline |-> e.baseline]
    <3> HIDE DEF windows, pool
    <3> QED
      BY <1>0, EfficiencyUpdates, Zenon
  <2> HIDE DEF windows, pool, e2
  <2>3. e2.baseline = e.baseline
    BY <2>2
  <2>4. RecordWindow(e, w) = [e2 EXCEPT !.baseline = baseline]
    BY <2>1, <2>3
  <2> HIDE DEF baseline
  <2>5. [e2 EXCEPT !.baseline = baseline] = r
    BY <2>2
  <2> HIDE DEF r
  <2> QED
    BY <2>4, <2>5
<1>2. /\ windows \in Seq(SUBSET K)
      /\ Len(e.windows) + 1 <= WINDOWS => windows = Append(e.windows, w)
  <2> DEFINE S == SUBSET K
  <2>1. WINDOWS \in Nat \ {0} /\ e.windows \in Seq(S) /\ w \in S
    BY <1>0, BaselineConstants
  <2> HIDE DEF S
  <2>2. /\ windows \in Seq(S)
        /\ Len(e.windows) + 1 <= WINDOWS => windows = Append(e.windows, w)
    BY <2>1, CappedSequence
  <2> QED
    BY <2>2 DEF S
<1>3. /\ pool \in Seq(SUBSET K) /\ Append(e.pool, w) \in Seq(SUBSET K)
      /\ Len(Append(e.pool, w)) = Len(e.pool) + 1
  BY <1>0
<1>4. baseline \in Baselines(K)
  <2>1. UNION ToSet(pool) \in SUBSET K
    BY <1>3, UnionOf
  <2> HIDE DEF pool
  <2>2. Learned(UNION ToSet(pool)) \in Baselines(K)
    BY <2>1 DEF Learned, Baselines
  <2> QED
    BY <2>2 DEF EfficiencyOf
<1>5. r \in EfficiencyOf(K)
  <2>1. e.anchor \in [open : BOOLEAN, tier : 0 .. 2, under : SUBSET K]
    BY DEF EfficiencyOf
  <2> HIDE DEF windows, pool, baseline
  <2> QED
    BY <1>2, <1>3, <1>4, <2>1, EfficiencyRecord
<1>6. Pooled(r)
  <2> SUFFICES ASSUME ~baseline.set PROVE pool = windows /\ Len(pool) < EFF_BASELINE
    BY DEF Pooled
  <2>1. ~e.baseline.set /\ ~(Len(pool) >= EFF_BASELINE)
    BY DEF Learned
  <2>2. pool = Append(e.pool, w) /\ e.pool = e.windows /\ Len(pool) = Len(e.pool) + 1
    BY <1>3, <2>1 DEF Pooled
  <2>3. Len(e.pool) \in Nat
    BY EfficiencyFields
  <2> HIDE DEF pool, windows
  <2>4. Len(pool) < EFF_BASELINE /\ Len(e.pool) + 1 <= WINDOWS
    BY <2>1, <2>2, <2>3, BaselineConstants
  <2> QED
    BY <1>2, <2>2, <2>4
<1> HIDE DEF r
<1> QED
  BY <1>1, <1>5, <1>6

LEMMA WithAnchor ==
    ASSUME NEW K, NEW e \in EfficiencyOf(K), Pooled(e),
           NEW a \in [open : BOOLEAN, tier : 0 .. 2, under : SUBSET K]
    PROVE  [e EXCEPT !.anchor = a] \in EfficiencyOf(K) /\ Pooled([e EXCEPT !.anchor = a])
<1>0. /\ e = [anchor |-> e.anchor, windows |-> e.windows, pool |-> e.pool,
               baseline |-> e.baseline]
      /\ e.windows \in Seq(SUBSET K) /\ e.pool \in Seq(SUBSET K)
      /\ Len(e.windows) \in Nat /\ Len(e.pool) \in Nat
  BY EfficiencyFields
<1>1. [e EXCEPT !.anchor = a] =
          [anchor |-> a, windows |-> e.windows, pool |-> e.pool, baseline |-> e.baseline]
  BY <1>0
<1>2. e.baseline \in Baselines(K)
  BY DEF EfficiencyOf
<1>3. [e EXCEPT !.anchor = a] \in EfficiencyOf(K)
  BY <1>0, <1>1, <1>2, EfficiencyRecord
<1>4. Pooled([e EXCEPT !.anchor = a])
  BY <1>1 DEF Pooled
<1> QED
  BY <1>3, <1>4

LEMMA NoAnchorType ==
    ASSUME NEW K
    PROVE  NoAnchor \in [open : BOOLEAN, tier : 0 .. 2, under : SUBSET K]
BY DEF NoAnchor

LEMMA FeedAnchorKeeps ==
    ASSUME NEW K, NEW e \in EfficiencyOf(K), Pooled(e), NEW tier \in 1 .. 2, NEW c,
           Known(c) \subseteq K, NEW outcome \in Outcomes
    PROVE  FeedAnchor(e, tier, c, outcome) \in EfficiencyOf(K)
           /\ Pooled(FeedAnchor(e, tier, c, outcome))
<1> DEFINE new == [open |-> TRUE, tier |-> tier, under |-> Known(c)]
           next == [e EXCEPT !.anchor = new]
           w == e.anchor.under \cup Known(c)
<1>1. new \in [open : BOOLEAN, tier : 0 .. 2, under : SUBSET K]
  OBVIOUS
<1>2. next \in EfficiencyOf(K) /\ Pooled(next)
  <2> HIDE DEF new
  <2> QED
    BY <1>1, WithAnchor
<1>3. w \in SUBSET K /\ e.anchor.open \in BOOLEAN
  BY EfficiencyFields
<1>4. RecordWindow(next, w) \in EfficiencyOf(K) /\ Pooled(RecordWindow(next, w))
  <2> HIDE DEF next, w
  <2> QED
    BY <1>2, <1>3, RecordWindowKeeps
<1>5. FeedAnchor(e, tier, c, outcome) \in {e, next, RecordWindow(next, w)}
  <2>1. FeedAnchor(e, tier, c, outcome) =
          CASE ~e.anchor.open -> next
            [] e.anchor.open /\ outcome = "too little charge" -> e
            [] e.anchor.open /\ outcome \in {"mismatched", "implausible"} -> next
            [] e.anchor.open /\ outcome = "window" -> RecordWindow(next, w)
    BY DEF FeedAnchor
  <2> HIDE DEF next, w
  <2> QED
    BY <1>3, <2>1 DEF Outcomes
<1> HIDE DEF next, w
<1> QED
  BY <1>2, <1>4, <1>5

\* A calibration that is noticed late takes the same windows out of both.
LEMMA DropWindowsKeeps ==
    ASSUME NEW K, NEW e \in EfficiencyOf(K), Pooled(e), NEW n \in 0 .. Len(e.windows)
    PROVE  DropWindows(e, n) \in EfficiencyOf(K) /\ Pooled(DropWindows(e, n))
<1> DEFINE windows == SubSeq(e.windows, 1, Len(e.windows) - n)
           m == IF n > Len(e.pool) THEN 0 ELSE Len(e.pool) - n
           pool == IF e.baseline.set \/ n = 0 THEN e.pool ELSE SubSeq(e.pool, 1, m)
           r == [anchor |-> NoAnchor, windows |-> windows, pool |-> pool, baseline |-> e.baseline]
<1>0. /\ e = [anchor |-> e.anchor, windows |-> e.windows, pool |-> e.pool,
               baseline |-> e.baseline]
      /\ e.windows \in Seq(SUBSET K) /\ e.pool \in Seq(SUBSET K)
      /\ Len(e.windows) \in Nat /\ Len(e.pool) \in Nat
  BY EfficiencyFields
<1>1. /\ Len(e.windows) \in Nat /\ Len(e.pool) \in Nat /\ n \in Nat /\ n <= Len(e.windows)
      /\ e.windows \in Seq(SUBSET K) /\ e.pool \in Seq(SUBSET K)
  BY <1>0
<1>2. DropWindows(e, n) = r
  <2> DEFINE e1 == [e EXCEPT !.anchor = NoAnchor]
  <2>1. DropWindows(e, n) = [e1 EXCEPT !.windows = windows, !.pool = pool]
    BY Zenon DEF DropWindows
  <2> HIDE DEF windows, pool
  <2>2. e1 = [anchor |-> NoAnchor, windows |-> e.windows, pool |-> e.pool, baseline |-> e.baseline]
    BY <1>0
  <2> HIDE DEF e1
  <2>4. /\ e1 = [anchor |-> e1.anchor, windows |-> e1.windows, pool |-> e1.pool,
                 baseline |-> e1.baseline]
        /\ e1.anchor = NoAnchor /\ e1.baseline = e.baseline
    BY <2>2
  <2>5. [e1 EXCEPT !.windows = windows, !.pool = pool] =
            [anchor |-> e1.anchor, windows |-> windows, pool |-> pool, baseline |-> e1.baseline]
    BY <2>4, EfficiencyUpdates, Zenon
  <2>3. [e1 EXCEPT !.windows = windows, !.pool = pool] = r
    BY <2>4, <2>5, Zenon
  <2> QED
    BY <2>1, <2>3, Zenon
<1>3. /\ windows \in Seq(SUBSET K) /\ Len(windows) = Len(e.windows) - n
      /\ n = 0 => windows = e.windows
  BY <1>1, PrefixSequence
<1>4. pool \in Seq(SUBSET K)
  <2>1. CASE n > Len(e.pool)
    <3>1. m = 0 /\ \A i \in 1 .. m : e.pool[i] \in SUBSET K
      BY <2>1
    <3>2. SubSeq(e.pool, 1, m) \in Seq(SUBSET K)
      BY <3>1, SubSeqProperties
    <3> QED
      BY <1>1, <3>2
  <2>2. CASE ~(n > Len(e.pool))
    <3>1. n <= Len(e.pool) /\ m = Len(e.pool) - n
      BY <1>1, <2>2
    <3>2. SubSeq(e.pool, 1, m) \in Seq(SUBSET K)
      BY <1>1, <3>1, PrefixSequence
    <3> QED
      BY <1>1, <3>2
  <2> QED
    BY <2>1, <2>2
<1>5. r \in EfficiencyOf(K)
  <2>1. e.baseline \in Baselines(K)
    BY DEF EfficiencyOf
  <2> HIDE DEF windows, pool
  <2> QED
    BY <1>3, <1>4, <2>1, NoAnchorType, EfficiencyRecord
<1>6. Pooled(r)
  <2> SUFFICES ASSUME ~e.baseline.set PROVE pool = windows /\ Len(pool) < EFF_BASELINE
    BY DEF Pooled
  <2>1. e.pool = e.windows /\ Len(e.pool) < EFF_BASELINE
    BY DEF Pooled
  <2>2. ~(n > Len(e.pool)) /\ m = Len(e.windows) - n
    BY <1>1, <2>1
  <2>3. pool = windows
    BY <1>3, <2>1, <2>2
  <2>4. Len(windows) < EFF_BASELINE
    <3> HIDE DEF windows
    <3>1. Len(e.windows) < EFF_BASELINE
      BY <2>1
    <3> QED
      BY <1>1, <1>3, <3>1, BaselineConstants
  <2> HIDE DEF pool, windows
  <2> QED
    BY <2>3, <2>4
<1> HIDE DEF r
<1> QED
  BY <1>2, <1>5, <1>6

\* Whatever windows the upgrade keeps, it keeps them under the ceilings they had.
LEMMA RederiveKeeps ==
    ASSUME NEW K, NEW e \in EfficiencyOf(K), NEW kept
    PROVE  Rederive(e, kept) \in EfficiencyOf(K) /\ Pooled(Rederive(e, kept))
<1> DEFINE N == Len(e.windows)
           start == [NewEfficiency EXCEPT !.anchor = e.anchor]
           Good(r) == r \in EfficiencyOf(K) /\ Pooled(r)
<1>1. N \in Nat /\ e.windows \in Seq(SUBSET K)
  BY EfficiencyFields
<1>2. PICK f : IsReplay(e, kept, N, f) /\ Rederive(e, kept) = f[N]
  BY <1>1, RederiveReplays
<1> HIDE DEF N, start
<1>3. \A n \in 0 .. N : f[n] = IF n = 0 THEN start
                               ELSE IF n \in kept THEN RecordWindow(f[n - 1], e.windows[n])
                               ELSE f[n - 1]
  BY <1>2, Zenon DEF IsReplay, start
<1>4. Good(start)
  <2>1. e.anchor \in [open : BOOLEAN, tier : 0 .. 2, under : SUBSET K]
    BY DEF EfficiencyOf
  <2> QED
    BY <2>1, NewTrackers, WithAnchor DEF start
<1>5. \A n \in 1 .. N : e.windows[n] \in SUBSET K
  BY <1>1 DEF N
<1> DEFINE bad == {n \in 0 .. N : ~Good(f[n])}
<1>6. 0 \notin bad
  <2>1. 0 \in 0 .. N => f[0] = start
    BY <1>3
  <2> HIDE DEF Good
  <2> QED
    BY <1>4, <2>1
<1>7. ASSUME NEW n \in 0 .. N, n # 0, n - 1 \notin bad
      PROVE  n \notin bad
  <2>1. n - 1 \in 0 .. N /\ n \in 1 .. N
    BY <1>1, <1>7 DEF N
  <2>2. Good(f[n - 1])
    BY <1>7, <2>1
  <2>3. Good(RecordWindow(f[n - 1], e.windows[n]))
    BY <1>5, <2>1, <2>2, RecordWindowKeeps
  <2>4. f[n] = RecordWindow(f[n - 1], e.windows[n]) \/ f[n] = f[n - 1]
    BY <1>3, <1>7
  <2> HIDE DEF Good
  <2> QED
    BY <2>2, <2>3, <2>4
<1>8. bad = {}
  <2> SUFFICES ASSUME bad # {} PROVE FALSE
    OBVIOUS
  <2>1. bad \in SUBSET Nat /\ bad \in SUBSET (0 .. N)
    OBVIOUS
  <2> HIDE DEF bad
  <2>2. PICK m \in bad : \A n \in bad : m <= n
    BY <2>1, HasSmallest
  <2>3. m \in Nat /\ m # 0 /\ m \in 0 .. N
    BY <1>6, <2>1
  <2>4. m - 1 \in bad
    BY <1>7, <2>3
  <2>5. m <= m - 1
    BY <2>2, <2>4
  <2> QED
    BY <2>3, <2>5
<1>9. N \in 0 .. N
  BY <1>1 DEF N
<1> HIDE DEF Good
<1>10. Good(f[N])
  BY <1>8, <1>9
<1> QED
  BY <1>2, <1>10 DEF Good

-----------------------------------------------------------------------------
(* The balance tracker. *)

BalanceRecord(r, s, n, m, p, g, c) ==
    [rested |-> r, sampled |-> s, since |-> n, samples |-> m,
     pool |-> p, baseline |-> g, scores |-> c]

LEMMA BalanceFields ==
    ASSUME NEW K, NEW b \in BalanceOf(K)
    PROVE  /\ b = BalanceRecord(b.rested, b.sampled, b.since, b.samples, b.pool, b.baseline, b.scores)
           /\ b.rested \in Int /\ b.sampled \in BOOLEAN /\ b.since \in Nat
           /\ b.samples \in Seq(Nat) /\ b.pool \in Seq(SUBSET K) /\ b.scores \in Seq(SUBSET K)
           /\ b.baseline \in Baselines(K) /\ b.baseline.set \in BOOLEAN
BY DEF BalanceOf, BalanceRecord, Baselines

LEMMA BalanceTyped ==
    ASSUME NEW K, NEW r \in Int, NEW s \in BOOLEAN, NEW n \in Nat, NEW m \in Seq(Nat),
           NEW p \in Seq(SUBSET K), NEW g \in Baselines(K), NEW c \in Seq(SUBSET K)
    PROVE  BalanceRecord(r, s, n, m, p, g, c) \in BalanceOf(K)
BY DEF BalanceOf, BalanceRecord

LEMMA BalanceUpdates ==
    ASSUME NEW r, NEW s, NEW n, NEW m, NEW p, NEW g, NEW c, NEW x
    PROVE  LET b == BalanceRecord(r, s, n, m, p, g, c) IN
           /\ b.rested = r /\ b.sampled = s /\ b.since = n /\ b.samples = m
           /\ b.pool = p /\ b.baseline = g /\ b.scores = c
           /\ [b EXCEPT !.rested = x] = BalanceRecord(x, s, n, m, p, g, c)
           /\ [b EXCEPT !.sampled = x] = BalanceRecord(r, x, n, m, p, g, c)
           /\ [b EXCEPT !.since = x] = BalanceRecord(r, s, x, m, p, g, c)
           /\ [b EXCEPT !.samples = x] = BalanceRecord(r, s, n, x, p, g, c)
           /\ [b EXCEPT !.pool = x] = BalanceRecord(r, s, n, m, x, g, c)
           /\ [b EXCEPT !.baseline = x] = BalanceRecord(r, s, n, m, p, x, c)
           /\ [b EXCEPT !.scores = x] = BalanceRecord(r, s, n, m, p, g, x)
BY DEF BalanceRecord

\* A tick later everything is older, in the same order.
LEMMA LaterKeeps ==
    ASSUME NEW K, NEW b \in BalanceOf(K), Apart(b)
    PROVE  Later(b) \in BalanceOf(K) /\ Apart(Later(b))
<1> DEFINE aged == [i \in DOMAIN b.samples |-> Older(b.samples[i])]
           b1 == [b EXCEPT !.samples = aged]
           b2 == [b1 EXCEPT !.since = Older(b1.since)]
           x == IF b2.rested \in 0 .. (SETTLE - 1) THEN b2.rested + 1 ELSE b2.rested
           b3 == BalanceRecord(x, b.sampled, Older(b.since), aged, b.pool, b.baseline, b.scores)
<1>0. /\ b = BalanceRecord(b.rested, b.sampled, b.since, b.samples, b.pool, b.baseline, b.scores)
      /\ b.rested \in Int /\ b.sampled \in BOOLEAN /\ b.since \in Nat
      /\ b.samples \in Seq(Nat) /\ b.pool \in Seq(SUBSET K) /\ b.scores \in Seq(SUBSET K)
      /\ b.baseline \in Baselines(K)
  BY BalanceFields
<1>1. Later(b) = [b2 EXCEPT !.rested = x]
  BY Zenon DEF Later
<1> HIDE DEF aged
<1>2. b1 = BalanceRecord(b.rested, b.sampled, b.since, aged, b.pool, b.baseline, b.scores)
  BY <1>0 DEF BalanceRecord
<1> HIDE DEF b1
<1>3. b2 = BalanceRecord(b.rested, b.sampled, Older(b.since), aged, b.pool, b.baseline, b.scores)
  BY <1>2 DEF BalanceRecord
<1> HIDE DEF b2
<1>4. b2.rested = b.rested
  BY <1>3 DEF BalanceRecord
<1>5. x \in Int
  BY <1>0, <1>4
<1> HIDE DEF x
<1>6. Later(b) = b3
  BY <1>1, <1>3 DEF BalanceRecord
<1>7. /\ \A a \in Nat : Older(a) \in Nat /\ (a >= SPACING => Older(a) >= SPACING)
      /\ \A a, d \in Nat : a >= d => Older(a) >= Older(d)
  <2>1. SPACING \in Nat
    BY BaselineConstants
  <2> QED
    BY <2>1 DEF Older
<1>8. aged \in Seq(Nat) /\ Len(aged) = Len(b.samples) /\ DOMAIN aged = DOMAIN b.samples
      /\ \A i \in DOMAIN b.samples : aged[i] = Older(b.samples[i]) /\ b.samples[i] \in Nat
  <2>1. Len(b.samples) \in Nat /\ DOMAIN b.samples = 1 .. Len(b.samples)
        /\ \A i \in 1 .. Len(b.samples) : b.samples[i] \in Nat
    BY <1>0
  <2> DEFINE N == Len(b.samples)
             old(i) == Older(b.samples[i])
  <2>2. N \in Nat /\ \A i \in 1 .. N : old(i) \in Nat /\ b.samples[i] \in Nat
    BY <1>7, <2>1
  <2>4. DOMAIN b.samples = 1 .. N
    BY <2>1
  <2> HIDE DEF N, old
  <2>3. aged = [i \in 1 .. N |-> old(i)]
    BY <2>4, Zenon DEF aged, old
  <2> HIDE DEF aged, N, old
  <2>5. aged \in Seq(Nat) /\ Len(aged) = N /\ DOMAIN aged = 1 .. N
        /\ \A i \in 1 .. N : aged[i] = old(i)
    BY <2>2, <2>3
  <2> QED
    BY <2>2, <2>4, <2>5 DEF N, old
<1>9. b3 \in BalanceOf(K)
  BY <1>0, <1>5, <1>7, <1>8, BalanceTyped
<1>10. b3.samples = aged /\ b3.since = Older(b.since)
  BY BalanceUpdates
<1>11. Apart(b3)
  <2> HIDE DEF b3
  <2>1. \A i \in DOMAIN b.samples : aged[i] >= Older(b.since)
    BY <1>0, <1>7, <1>8 DEF Apart
  <2>2. \A i \in DOMAIN b.samples : i < Len(b.samples) => aged[i] >= SPACING
    BY <1>7, <1>8 DEF Apart
  <2> QED
    BY <1>8, <1>10, <2>1, <2>2 DEF Apart
<1> HIDE DEF b3
<1> QED
  BY <1>6, <1>9, <1>11

\* A change of the rest, or of what is pooled, leaves the samples alone.
LEMMA SameSamples ==
    ASSUME NEW b, NEW d, Apart(b), d.samples = b.samples, d.since = b.since
    PROVE  Apart(d)
BY DEF Apart

LEMMA RestKeeps ==
    ASSUME NEW K, NEW b \in BalanceOf(K), Apart(b), NEW r \in Int, NEW s \in BOOLEAN
    PROVE  /\ [b EXCEPT !.rested = r] \in BalanceOf(K) /\ Apart([b EXCEPT !.rested = r])
           /\ [b EXCEPT !.rested = r, !.sampled = s] \in BalanceOf(K)
           /\ Apart([b EXCEPT !.rested = r, !.sampled = s])
<1> DEFINE b1 == [b EXCEPT !.rested = r]
           b2 == [b1 EXCEPT !.sampled = s]
<1>0. /\ b = BalanceRecord(b.rested, b.sampled, b.since, b.samples, b.pool, b.baseline, b.scores)
      /\ b.rested \in Int /\ b.sampled \in BOOLEAN /\ b.since \in Nat
      /\ b.samples \in Seq(Nat) /\ b.pool \in Seq(SUBSET K) /\ b.scores \in Seq(SUBSET K)
      /\ b.baseline \in Baselines(K)
  BY BalanceFields
<1>1. b1 = BalanceRecord(r, b.sampled, b.since, b.samples, b.pool, b.baseline, b.scores)
  BY <1>0 DEF BalanceRecord
<1> HIDE DEF b1
<1>2. b2 = BalanceRecord(r, s, b.since, b.samples, b.pool, b.baseline, b.scores)
  BY <1>1 DEF BalanceRecord
<1> HIDE DEF b2
<1>3. b1 \in BalanceOf(K) /\ b2 \in BalanceOf(K)
  BY <1>0, <1>1, <1>2, BalanceTyped
<1>4. /\ b1.samples = b.samples /\ b1.since = b.since
      /\ b2.samples = b.samples /\ b2.since = b.since
  BY <1>1, <1>2 DEF BalanceRecord
<1>5. Apart(b1) /\ Apart(b2)
  BY <1>4, SameSamples
<1> QED
  BY <1>3, <1>5 DEF b1, b2

\* A new epoch has measured nothing.
LEMMA BalanceEpochKeeps ==
    ASSUME NEW K, NEW L, NEW b \in BalanceOf(K), Apart(b)
    PROVE  BalanceEpoch(b) \in BalanceOf(L) /\ Apart(BalanceEpoch(b))
<1> DEFINE b1 == [b EXCEPT !.pool = << >>]
           b2 == [b1 EXCEPT !.baseline = Pending]
           b3 == [b2 EXCEPT !.scores = << >>]
<1>0. /\ b = BalanceRecord(b.rested, b.sampled, b.since, b.samples, b.pool, b.baseline, b.scores)
      /\ b.rested \in Int /\ b.sampled \in BOOLEAN /\ b.since \in Nat /\ b.samples \in Seq(Nat)
  BY BalanceFields
<1>1. BalanceEpoch(b) = b3
  BY Zenon DEF BalanceEpoch
<1>2. b1 = BalanceRecord(b.rested, b.sampled, b.since, b.samples, << >>, b.baseline, b.scores)
  BY <1>0 DEF BalanceRecord
<1> HIDE DEF b1
<1>3. b2 = BalanceRecord(b.rested, b.sampled, b.since, b.samples, << >>, Pending, b.scores)
  BY <1>2 DEF BalanceRecord
<1> HIDE DEF b2
<1>4. b3 = BalanceRecord(b.rested, b.sampled, b.since, b.samples, << >>, Pending, << >>)
  BY <1>3 DEF BalanceRecord
<1> HIDE DEF b3
<1>5. << >> \in Seq(SUBSET L) /\ Pending \in Baselines(L)
  BY DEF Pending, Baselines
<1>6. b3 \in BalanceOf(L)
  BY <1>0, <1>4, <1>5, BalanceTyped
<1>7. b3.samples = b.samples /\ b3.since = b.since
  BY <1>4 DEF BalanceRecord
<1>8. Apart(b3)
  BY <1>7, SameSamples
<1> QED
  BY <1>1, <1>6, <1>8

LEMMA ScoreKeeps ==
    ASSUME NEW K, NEW b \in BalanceOf(K), Apart(b), NEW c, Known(c) \subseteq K
    PROVE  Score(b, c) \in BalanceOf(K) /\ Apart(Score(b, c))
<1> DEFINE S == SUBSET K
           k == Known(c)
           pool == Append(b.pool, k)
           scores == Capped(Append(b.scores, k), SAMPLES)
           learned == Learned(UNION ToSet(pool))
           b1 == [b EXCEPT !.scores = scores]
           b2 == [b EXCEPT !.pool = << >>]
           b3 == [b2 EXCEPT !.baseline = learned]
           b4 == [b EXCEPT !.pool = pool]
           Rec(p, g, s) == BalanceRecord(b.rested, b.sampled, b.since, b.samples, p, g, s)
<1>0. /\ b = Rec(b.pool, b.baseline, b.scores)
      /\ b.rested \in Int /\ b.sampled \in BOOLEAN /\ b.since \in Nat
      /\ b.samples \in Seq(Nat) /\ b.pool \in Seq(S) /\ b.scores \in Seq(S)
      /\ b.baseline \in Baselines(K)
  BY BalanceFields
<1>1. k \in S
  OBVIOUS
<1>2. pool \in Seq(S) /\ << >> \in Seq(S)
  <2> HIDE DEF S, k
  <2> QED
    BY <1>0, <1>1
<1>3. scores \in Seq(S)
  <2>1. SAMPLES \in Nat \ {0}
    BY BaselineConstants
  <2> HIDE DEF S, k
  <2> QED
    BY <1>0, <1>1, <2>1, CappedSequence
<1>4. learned \in Baselines(K)
  <2>1. UNION ToSet(pool) \in SUBSET K
    BY <1>2, UnionOf
  <2> HIDE DEF pool
  <2> QED
    BY <2>1 DEF Learned, Baselines
<1>5. Score(b, c) = IF b.baseline.set THEN b1
                    ELSE IF Len(pool) >= BAL_BASELINE THEN b3 ELSE b4
  BY Zenon DEF Score
<1> HIDE DEF pool, scores, learned
<1>6. b1 = Rec(b.pool, b.baseline, scores) /\ b4 = Rec(pool, b.baseline, b.scores)
  BY <1>0 DEF BalanceRecord
<1>7. b2 = Rec(<< >>, b.baseline, b.scores)
  BY <1>0, SMTT(20) DEF BalanceRecord
<1> HIDE DEF b1, b2, b4
<1>8. b3 = Rec(<< >>, learned, b.scores)
  BY <1>7 DEF BalanceRecord
<1> HIDE DEF b3
<1>9. ASSUME NEW p \in Seq(S), NEW g \in Baselines(K), NEW s \in Seq(S)
      PROVE  Rec(p, g, s) \in BalanceOf(K) /\ Apart(Rec(p, g, s))
  <2>1. Rec(p, g, s) \in BalanceOf(K)
    BY <1>0, BalanceTyped
  <2>2. Rec(p, g, s).samples = b.samples /\ Rec(p, g, s).since = b.since
    BY DEF BalanceRecord
  <2> HIDE DEF Rec
  <2>3. Apart(Rec(p, g, s))
    BY <2>2, SameSamples
  <2> QED
    BY <2>1, <2>3
<1> HIDE DEF Rec, S
<1>10. /\ b1 \in BalanceOf(K) /\ Apart(b1)
       /\ b3 \in BalanceOf(K) /\ Apart(b3)
       /\ b4 \in BalanceOf(K) /\ Apart(b4)
  BY <1>0, <1>2, <1>3, <1>4, <1>6, <1>8, <1>9
<1> QED
  BY <1>5, <1>10

LEMMA AppendZero ==
    ASSUME NEW s \in Seq(Nat)
    PROVE  /\ Append(s, 0) \in Seq(Nat) /\ Len(Append(s, 0)) = Len(s) + 1 /\ Append(s, 0) # << >>
           /\ \A i \in 1 .. Len(s) : Append(s, 0)[i] = s[i]
           /\ Append(s, 0)[Len(s) + 1] = 0
OBVIOUS

\* A sample is taken no sooner than the spacing after the one before.
LEMMA TakeSampleKeeps ==
    ASSUME NEW K, NEW b \in BalanceOf(K), Apart(b), SampleDue(b), NEW c,
           NEW scored \in BOOLEAN, scored => Known(c) \subseteq K
    PROVE  TakeSample(b, c, scored) \in BalanceOf(K) /\ Apart(TakeSample(b, c, scored))
<1> DEFINE yes == TRUE
           more == Append(b.samples, 0)
           samples == Capped(more, SAMPLES)
           b1 == [b EXCEPT !.sampled = yes]
           b2 == [b1 EXCEPT !.since = 0]
           b3 == [b2 EXCEPT !.samples = Capped(Append(b2.samples, 0), SAMPLES)]
           Rec(s, n, m) == BalanceRecord(b.rested, s, n, m, b.pool, b.baseline, b.scores)
<1>0. /\ b = Rec(b.sampled, b.since, b.samples)
      /\ b.rested \in Int /\ b.sampled \in BOOLEAN /\ b.since \in Nat
      /\ b.samples \in Seq(Nat) /\ b.pool \in Seq(SUBSET K) /\ b.scores \in Seq(SUBSET K)
      /\ b.baseline \in Baselines(K)
  BY BalanceFields
<1>a. yes \in BOOLEAN
  OBVIOUS
<1> HIDE DEF yes
<1>1. b1 = Rec(yes, b.since, b.samples)
  BY <1>0 DEF BalanceRecord
<1> HIDE DEF b1
<1>2. b2 = Rec(yes, 0, b.samples)
  BY <1>1 DEF BalanceRecord
<1>3. b2.samples = b.samples
  BY <1>2 DEF BalanceRecord
<1>4. b3 = Rec(yes, 0, samples)
  <2> HIDE DEF b2
  <2>1. b3 = [b2 EXCEPT !.samples = samples]
    BY <1>3
  <2> HIDE DEF b3, samples
  <2> QED
    BY <1>2, <2>1 DEF BalanceRecord
<1>5. TakeSample(b, c, scored) = IF scored THEN Score(b3, c) ELSE b3
  BY Zenon DEF TakeSample, b1, b2, yes
<1>6. SPACING \in Nat /\ SAMPLES \in Nat \ {0}
  BY BaselineConstants
<1>7. /\ Len(b.samples) \in Nat /\ DOMAIN b.samples = 1 .. Len(b.samples)
      /\ \A i \in 1 .. Len(b.samples) : b.samples[i] \in Nat /\ b.samples[i] >= SPACING
  <2>1. Len(b.samples) \in Nat /\ DOMAIN b.samples = 1 .. Len(b.samples)
        /\ \A i \in 1 .. Len(b.samples) : b.samples[i] \in Nat
    BY <1>0
  <2>2. b.since >= SPACING /\ \A i \in 1 .. Len(b.samples) : b.samples[i] >= b.since
    BY <2>1 DEF SampleDue, Apart
  <2> QED
    BY <1>0, <1>6, <2>1, <2>2
<1>8. /\ more \in Seq(Nat) /\ Len(more) = Len(b.samples) + 1 /\ more # << >>
      /\ \A i \in 1 .. Len(more) : more[i] >= 0 /\ (i < Len(more) => more[i] >= SPACING)
  <2>1. /\ more \in Seq(Nat) /\ Len(more) = Len(b.samples) + 1 /\ more # << >>
        /\ \A i \in 1 .. Len(b.samples) : more[i] = b.samples[i]
        /\ more[Len(b.samples) + 1] = 0
    BY <1>0, AppendZero
  <2>2. \A i \in 1 .. Len(b.samples) + 1 : i \in 1 .. Len(b.samples) \/ i = Len(b.samples) + 1
    BY <1>7
  <2> HIDE DEF more
  <2>3. \A i \in 1 .. Len(more) : more[i] >= 0
    BY <2>1
  <2>4. ASSUME NEW i \in 1 .. Len(more), i < Len(more) PROVE more[i] >= SPACING
    <3>1. i \in 1 .. Len(b.samples)
      BY <1>7, <2>1, <2>4
    <3> QED
      BY <1>7, <2>1, <3>1
  <2> QED
    BY <2>1, <2>3, <2>4
<1> HIDE DEF more
<1>9. /\ samples \in Seq(Nat)
      /\ \A i \in DOMAIN samples : samples[i] >= 0 /\ (i < Len(samples) => samples[i] >= SPACING)
  <2>1. CASE ~(Len(more) > SAMPLES)
    <3>1. samples = more /\ DOMAIN more = 1 .. Len(more)
      BY <1>8, <2>1 DEF Capped
    <3> HIDE DEF samples
    <3> QED
      BY <1>8, <3>1
  <2>2. CASE Len(more) > SAMPLES
    <3>1. samples = Tail(more)
      BY <2>2 DEF Capped
    <3>2. /\ Tail(more) \in Seq(Nat) /\ Len(Tail(more)) = Len(more) - 1
          /\ \A i \in 1 .. Len(more) - 1 : Tail(more)[i] = more[i + 1]
          /\ DOMAIN Tail(more) = 1 .. Len(more) - 1
      BY <1>8
    <3> HIDE DEF samples
    <3>3. ASSUME NEW i \in 1 .. Len(more) - 1
          PROVE  samples[i] >= 0 /\ (i < Len(more) - 1 => samples[i] >= SPACING)
      <4>1. Len(more) \in Nat /\ i + 1 \in 1 .. Len(more) /\ (i < Len(more) - 1 => i + 1 < Len(more))
        BY <1>7, <1>8
      <4> QED
        BY <1>8, <3>1, <3>2, <4>1
    <3> QED
      BY <3>1, <3>2, <3>3
  <2> QED
    BY <2>1, <2>2
<1> HIDE DEF samples, b2, b3
<1>10. b3 \in BalanceOf(K)
  BY <1>0, <1>a, <1>4, <1>9, BalanceTyped
<1>11. b3.samples = samples /\ b3.since = 0
  BY <1>4 DEF BalanceRecord
<1>12. Apart(b3)
  BY <1>9, <1>11 DEF Apart
<1>13. scored => Score(b3, c) \in BalanceOf(K) /\ Apart(Score(b3, c))
  BY <1>10, <1>12, ScoreKeeps
<1> QED
  BY <1>5, <1>10, <1>12, <1>13

-----------------------------------------------------------------------------
(* The steps. *)

\* Without a new epoch the tracker's ceiling is kept, or learned for the first
\* time; and what is learned from is measured under it.
LEMMA CeilingIsKept ==
    ASSUME NEW c, NEW learn \in BOOLEAN
    PROVE  /\ ~NewEpoch(c, learn) => Known(lastCeiling) \subseteq Known(LastCeiling(c, learn))
           /\ learn => Known(c) \subseteq Known(LastCeiling(c, learn))
BY DEF NewEpoch, LastCeiling, Known

LEMMA FeedEfficiencyKeeps ==
    ASSUME efficiency \in EfficiencyOf(Known(lastCeiling)), Pooled(efficiency),
           NEW c, NEW learn \in BOOLEAN, NEW restarted \in BOOLEAN,
           NEW dropped \in -1 .. Len(efficiency.windows),
           NEW tier \in 0 .. 2, NEW outcome \in Outcomes,
           FeedEfficiency(c, learn, restarted, dropped, tier, outcome)
    PROVE  /\ efficiency' \in EfficiencyOf(Known(LastCeiling(c, learn)))
           /\ Pooled(efficiency')
<1> DEFINE K == Known(lastCeiling)
           L == Known(LastCeiling(c, learn))
           invalid == [efficiency EXCEPT !.anchor = NoAnchor]
           e == IF restarted THEN invalid ELSE efficiency
           e0 == IF dropped >= 0 THEN DropWindows(e, dropped) ELSE e
           e1 == IF NewEpoch(c, learn) THEN NewEfficiency ELSE e0
           e2 == IF learn /\ tier > 0 THEN FeedAnchor(e1, tier, c, outcome) ELSE e1
<1>1. efficiency' = e2
  BY Zenon DEF FeedEfficiency, InvalidateAnchor
<1>2. (~NewEpoch(c, learn) => K \subseteq L) /\ (learn => Known(c) \subseteq L)
  BY CeilingIsKept
<1>3. efficiency \in EfficiencyOf(K) /\ Pooled(efficiency)
  OBVIOUS
<1> HIDE DEF K, L
<1>4. invalid \in EfficiencyOf(K) /\ Pooled(invalid) /\ invalid.windows = efficiency.windows
  <2>1. invalid \in EfficiencyOf(K) /\ Pooled(invalid)
    BY <1>3, NoAnchorType, WithAnchor
  <2>2. efficiency = [anchor |-> efficiency.anchor, windows |-> efficiency.windows,
                      pool |-> efficiency.pool, baseline |-> efficiency.baseline]
    BY <1>3, EfficiencyFields
  <2>3. invalid.windows = efficiency.windows
    BY <2>2
  <2> QED
    BY <2>1, <2>3
<1> HIDE DEF invalid
<1>5. e \in EfficiencyOf(K) /\ Pooled(e) /\ e.windows = efficiency.windows
  BY <1>3, <1>4
<1> HIDE DEF e
<1>6. e0 \in EfficiencyOf(K) /\ Pooled(e0)
  <2>1. CASE dropped >= 0
    <3>1. dropped \in 0 .. Len(e.windows)
      BY <1>3, <1>5, <2>1, EfficiencyFields
    <3> QED
      BY <1>5, <2>1, <3>1, DropWindowsKeeps
  <2> QED
    BY <1>5, <2>1
<1> HIDE DEF e0
<1>7. e1 \in EfficiencyOf(L) /\ Pooled(e1)
  BY <1>2, <1>6, NewTrackers, EfficiencyIsWider
<1> HIDE DEF e1
<1>8. e2 \in EfficiencyOf(L) /\ Pooled(e2)
  <2>1. CASE learn /\ tier > 0
    <3>1. tier \in 1 .. 2
      BY <2>1
    <3> QED
      BY <1>2, <1>7, <2>1, <3>1, FeedAnchorKeeps
  <2> QED
    BY <1>7, <2>1
<1> QED
  BY <1>1, <1>8 DEF L

LEMMA FeedBalanceKeeps ==
    ASSUME balance \in BalanceOf(Known(lastCeiling)), Apart(balance),
           NEW c, NEW learn \in BOOLEAN, NEW scored \in BOOLEAN, scored => learn,
           NEW read \in BalanceReads, FeedBalance(c, learn, scored, read),
           NEW last, last = IF read = "incomplete" THEN lastCeiling ELSE LastCeiling(c, learn)
    PROVE  balance' \in BalanceOf(Known(last)) /\ Apart(balance')
<1> DEFINE K == Known(lastCeiling)
           L == Known(LastCeiling(c, learn))
           b0 == Later(balance)
           b1 == IF NewEpoch(c, learn) THEN BalanceEpoch(b0) ELSE b0
           b2 == IF b1.rested = -1 THEN [b1 EXCEPT !.rested = 0] ELSE b1
           quiet == [b1 EXCEPT !.rested = -1, !.sampled = FALSE]
           taken == TakeSample(b2, c, scored)
<1>1. /\ read = "incomplete" => balance' = b0
      /\ read = "active" => balance' = quiet
      /\ read = "too few packs" => balance' = b2
      /\ read = "resting" => balance' = IF SampleDue(b2) THEN taken ELSE b2
  BY DEF FeedBalance
<1>2. (~NewEpoch(c, learn) => K \subseteq L) /\ (learn => Known(c) \subseteq L)
  BY CeilingIsKept
<1>3. balance \in BalanceOf(K) /\ Apart(balance)
  OBVIOUS
<1>4. Known(last) = IF read = "incomplete" THEN K ELSE L
  OBVIOUS
<1> HIDE DEF K, L
<1>5. b0 \in BalanceOf(K) /\ Apart(b0)
  BY <1>3, LaterKeeps
<1> HIDE DEF b0
<1>6. b1 \in BalanceOf(L) /\ Apart(b1)
  BY <1>2, <1>5, BalanceEpochKeeps, BalanceIsWider
<1> HIDE DEF b1
<1>r. \A r \in Int, s \in BOOLEAN :
        /\ [b1 EXCEPT !.rested = r] \in BalanceOf(L) /\ Apart([b1 EXCEPT !.rested = r])
        /\ [b1 EXCEPT !.rested = r, !.sampled = s] \in BalanceOf(L)
        /\ Apart([b1 EXCEPT !.rested = r, !.sampled = s])
  BY <1>6, RestKeeps, Zenon
<1>i. 0 \in Int /\ -1 \in Int /\ FALSE \in BOOLEAN
  OBVIOUS
<1>7. b2 \in BalanceOf(L) /\ Apart(b2)
  <2>1. [b1 EXCEPT !.rested = 0] \in BalanceOf(L) /\ Apart([b1 EXCEPT !.rested = 0])
    BY <1>i, <1>r, Zenon
  <2> QED
    BY <1>6, <2>1
<1>8. quiet \in BalanceOf(L) /\ Apart(quiet)
  BY <1>i, <1>r, Zenon
<1> HIDE DEF b2, quiet
<1>9. SampleDue(b2) => taken \in BalanceOf(L) /\ Apart(taken)
  BY <1>2, <1>7, TakeSampleKeeps
<1> HIDE DEF taken
<1>10. read \in {"incomplete", "active", "too few packs", "resting"}
  BY DEF BalanceReads
<1> QED
  BY <1>1, <1>4, <1>5, <1>7, <1>8, <1>9, <1>10

-----------------------------------------------------------------------------
(* The invariant. *)

CeilingsOf(name, ceil) == IF followed = name THEN Known(ceil) ELSE {}

LEMMA BaselinesInit ==
    Init => BaselinesIInv
<1> SUFFICES ASSUME Init PROVE BaselinesIInv
  OBVIOUS
<1>1. /\ efficiency = NewEfficiency /\ balance = NewBalance
      /\ saved = Store(Unknown, Unknown, NewEfficiency, NewBalance)
  BY DEF Init
<1>2. /\ saved.value = Unknown /\ saved.last = Unknown
      /\ saved.efficiency = NewEfficiency /\ saved.balance = NewBalance
  BY <1>1 DEF Store
<1>3. Tracked(NewEfficiency, NewBalance, lastCeiling) /\ Tracked(NewEfficiency, NewBalance, Unknown)
  BY NewTrackers, Zenon DEF Tracked
<1> QED
  BY <1>1, <1>2, <1>3, Zenon DEF BaselinesIInv

\* What a store holds is what was written.
LEMMA StoreFields ==
    ASSUME NEW v, NEW l, NEW e, NEW b
    PROVE  LET s == Store(v, l, e, b) IN
           s.value = v /\ s.last = l /\ s.efficiency = e /\ s.balance = b
BY DEF Store

LEMMA TrackedParts ==
    ASSUME NEW e, NEW b, NEW l
    PROVE  Tracked(e, b, l) <=> /\ e \in EfficiencyOf(CeilingsOf("efficiency", l)) /\ Pooled(e)
                                /\ b \in BalanceOf(CeilingsOf("balance", l)) /\ Apart(b)
BY Zenon DEF Tracked, CeilingsOf

\* A tracker that is not followed measures nothing, whatever the ceiling.
LEMMA OneIsFollowed ==
    ASSUME NEW l
    PROVE  /\ followed = "efficiency" => CeilingsOf("efficiency", l) = Known(l) /\ CeilingsOf("balance", l) = {}
           /\ followed = "balance" => CeilingsOf("balance", l) = Known(l) /\ CeilingsOf("efficiency", l) = {}
BY DEF CeilingsOf

LEMMA EfficiencyStep ==
    BaselinesIInv /\ followed = "efficiency" /\ UpdateEfficiency
      => /\ Tracked(efficiency', balance', lastCeiling')
         /\ UNCHANGED saved
<1> SUFFICES ASSUME BaselinesIInv, followed = "efficiency", UpdateEfficiency
             PROVE  Tracked(efficiency', balance', lastCeiling') /\ UNCHANGED saved
  OBVIOUS
<1>1. /\ efficiency \in EfficiencyOf(Known(lastCeiling)) /\ Pooled(efficiency)
      /\ balance \in BalanceOf({}) /\ Apart(balance)
  BY TrackedParts, OneIsFollowed DEF BaselinesIInv
<1>2. PICK poll \in Polls, learn \in BOOLEAN, restarted \in BOOLEAN, tier \in 0 .. 2,
           outcome \in Outcomes, dropped \in -1 .. Len(efficiency.windows) :
        LET c == Ceiling(ceiling, poll.value).value
        IN  /\ FeedEfficiency(c, learn, restarted, dropped, tier, outcome)
            /\ lastCeiling' = LastCeiling(c, learn)
            /\ UNCHANGED <<balance, saved>>
  BY ZenonT(40) DEF UpdateEfficiency
<1> DEFINE c == Ceiling(ceiling, poll.value).value
<1>3. /\ FeedEfficiency(c, learn, restarted, dropped, tier, outcome)
      /\ lastCeiling' = LastCeiling(c, learn)
      /\ balance' = balance /\ saved' = saved
  BY <1>2
<1> HIDE DEF c
<1>4. /\ efficiency' \in EfficiencyOf(Known(lastCeiling'))
      /\ Pooled(efficiency')
  BY <1>1, <1>3, FeedEfficiencyKeeps
<1> QED
  BY <1>1, <1>3, <1>4, TrackedParts, OneIsFollowed

LEMMA BalanceStep ==
    BaselinesIInv /\ followed = "balance" /\ UpdateBalance
      => /\ Tracked(efficiency', balance', lastCeiling')
         /\ saved' = Store(saved.value, saved.last, saved.efficiency, Later(saved.balance))
         /\ Tracked(saved.efficiency, Later(saved.balance), saved.last)
<1> SUFFICES ASSUME BaselinesIInv, followed = "balance", UpdateBalance
             PROVE  /\ Tracked(efficiency', balance', lastCeiling')
                    /\ saved' = Store(saved.value, saved.last, saved.efficiency, Later(saved.balance))
                    /\ Tracked(saved.efficiency, Later(saved.balance), saved.last)
  OBVIOUS
<1>1. /\ balance \in BalanceOf(Known(lastCeiling)) /\ Apart(balance)
      /\ efficiency \in EfficiencyOf({}) /\ Pooled(efficiency)
  BY TrackedParts, OneIsFollowed DEF BaselinesIInv
<1>2. PICK poll \in Polls, learn \in BOOLEAN, scored \in BOOLEAN, read \in BalanceReads :
        LET c == Ceiling(ceiling, poll.value).value
        IN  /\ scored => learn
            /\ FeedBalance(c, learn, scored, read)
            /\ lastCeiling' = IF read = "incomplete" THEN lastCeiling ELSE LastCeiling(c, learn)
            /\ saved' = [saved EXCEPT !.balance = Later(@)]
            /\ UNCHANGED efficiency
  BY Zenon DEF UpdateBalance
<1> DEFINE c == Ceiling(ceiling, poll.value).value
<1>3. /\ scored => learn
      /\ FeedBalance(c, learn, scored, read)
      /\ lastCeiling' = IF read = "incomplete" THEN lastCeiling ELSE LastCeiling(c, learn)
      /\ saved' = [saved EXCEPT !.balance = Later(saved.balance)]
      /\ efficiency' = efficiency
  BY <1>2
<1> HIDE DEF c
<1>4. balance' \in BalanceOf(Known(lastCeiling')) /\ Apart(balance')
  BY <1>1, <1>3, FeedBalanceKeeps
<1>5. Tracked(efficiency', balance', lastCeiling')
  BY <1>1, <1>3, <1>4, TrackedParts, OneIsFollowed
<1> DEFINE later == Later(saved.balance)
<1>6. saved' = Store(saved.value, saved.last, saved.efficiency, later)
  <2>1. saved = Store(saved.value, saved.last, saved.efficiency, saved.balance)
    BY DEF BaselinesIInv
  <2> HIDE DEF later
  <2>2. saved' = [saved EXCEPT !.balance = later]
    BY <1>3 DEF later
  <2> QED
    BY <2>1, <2>2 DEF Store
<1>7. Tracked(saved.efficiency, later, saved.last)
  <2>1. /\ saved.efficiency \in EfficiencyOf(CeilingsOf("efficiency", saved.last)) /\ Pooled(saved.efficiency)
        /\ saved.balance \in BalanceOf(CeilingsOf("balance", saved.last)) /\ Apart(saved.balance)
    BY TrackedParts DEF BaselinesIInv
  <2>2. later \in BalanceOf(CeilingsOf("balance", saved.last)) /\ Apart(later)
    BY <2>1, LaterKeeps
  <2> HIDE DEF later
  <2> QED
    BY <2>1, <2>2, TrackedParts
<1> QED
  BY <1>5, <1>6, <1>7

\* A reset, a save, a restart and an upgrade.
LEMMA ResetStep ==
    BaselinesIInv /\ ResetBaseline
      => Tracked(efficiency', balance', lastCeiling') /\ UNCHANGED saved
<1> SUFFICES ASSUME BaselinesIInv, ResetBaseline
             PROVE  Tracked(efficiency', balance', lastCeiling') /\ UNCHANGED saved
  OBVIOUS
<1>1. /\ efficiency \in EfficiencyOf(CeilingsOf("efficiency", lastCeiling)) /\ Pooled(efficiency)
      /\ balance \in BalanceOf(CeilingsOf("balance", lastCeiling)) /\ Apart(balance)
  BY TrackedParts DEF BaselinesIInv
<1>2. /\ efficiency' \in {efficiency, NewEfficiency}
      /\ balance' \in {balance, BalanceEpoch(balance)}
      /\ lastCeiling' = lastCeiling /\ saved' = saved
  BY DEF ResetBaseline
<1>3. /\ BalanceEpoch(balance) \in BalanceOf(CeilingsOf("balance", lastCeiling))
      /\ Apart(BalanceEpoch(balance))
  BY <1>1, BalanceEpochKeeps
<1> QED
  BY <1>1, <1>2, <1>3, NewTrackers, TrackedParts

LEMMA SaveStep ==
    BaselinesIInv /\ Save
      => /\ Tracked(efficiency', balance', lastCeiling')
         /\ saved' = Store(ceiling.value, lastCeiling, efficiency, Kept(balance))
         /\ Tracked(efficiency, Kept(balance), lastCeiling)
<1> SUFFICES ASSUME BaselinesIInv, Save
             PROVE  /\ Tracked(efficiency', balance', lastCeiling')
                    /\ saved' = Store(ceiling.value, lastCeiling, efficiency, Kept(balance))
                    /\ Tracked(efficiency, Kept(balance), lastCeiling)
  OBVIOUS
<1>1. /\ efficiency \in EfficiencyOf(CeilingsOf("efficiency", lastCeiling)) /\ Pooled(efficiency)
      /\ balance \in BalanceOf(CeilingsOf("balance", lastCeiling)) /\ Apart(balance)
  BY TrackedParts DEF BaselinesIInv
<1>2. /\ saved' = Store(ceiling.value, lastCeiling, efficiency, Kept(balance))
      /\ lastCeiling' = lastCeiling /\ efficiency' = efficiency /\ balance' = balance
  BY DEF Save
<1>3. /\ Kept(balance) \in BalanceOf(CeilingsOf("balance", lastCeiling))
      /\ Apart(Kept(balance))
  <2>1. -1 \in Int /\ FALSE \in BOOLEAN
    OBVIOUS
  <2> QED
    BY <1>1, <2>1, RestKeeps, Zenon DEF Kept
<1> QED
  BY <1>1, <1>2, <1>3, TrackedParts

LEMMA RestartStep ==
    BaselinesIInv /\ Restart
      => Tracked(efficiency', balance', lastCeiling') /\ UNCHANGED saved
BY Zenon DEF BaselinesIInv, Restart

LEMMA UpgradeStep ==
    BaselinesIInv /\ Upgrade
      => /\ Tracked(efficiency', balance', lastCeiling')
         /\ saved' = Store(saved.value, saved.last, efficiency', balance')
         /\ lastCeiling' = saved.last
<1> SUFFICES ASSUME BaselinesIInv, Upgrade
             PROVE  /\ Tracked(efficiency', balance', lastCeiling')
                    /\ saved' = Store(saved.value, saved.last, efficiency', balance')
                    /\ lastCeiling' = saved.last
  OBVIOUS
<1>1. /\ efficiency \in EfficiencyOf(CeilingsOf("efficiency", lastCeiling)) /\ Pooled(efficiency)
      /\ balance \in BalanceOf(CeilingsOf("balance", lastCeiling)) /\ Apart(balance)
      /\ saved.efficiency \in EfficiencyOf(CeilingsOf("efficiency", saved.last))
  BY TrackedParts DEF BaselinesIInv
<1>2. PICK kept : efficiency' = IF followed = "efficiency"
                                  THEN Rederive(saved.efficiency, kept) ELSE efficiency
  BY Zenon DEF Upgrade
<1>3. /\ balance' = IF followed = "balance" THEN NewBalance ELSE balance
      /\ saved' = Store(saved.value, saved.last, efficiency', balance')
      /\ lastCeiling' = saved.last
  BY Zenon DEF Upgrade, RestartSampling
<1>4. efficiency' \in EfficiencyOf(CeilingsOf("efficiency", saved.last)) /\ Pooled(efficiency')
  <2>1. CASE followed = "efficiency"
    BY <1>1, <1>2, <2>1, RederiveKeeps
  <2>2. CASE followed # "efficiency"
    BY <1>1, <1>2, <2>2 DEF CeilingsOf
  <2> QED
    BY <2>1, <2>2
<1>5. balance' \in BalanceOf(CeilingsOf("balance", saved.last)) /\ Apart(balance')
  <2>1. CASE followed = "balance"
    BY <1>3, <2>1, NewTrackers
  <2>2. CASE followed # "balance"
    BY <1>1, <1>3, <2>2 DEF CeilingsOf
  <2> QED
    BY <2>1, <2>2
<1> QED
  BY <1>3, <1>4, <1>5, TrackedParts

LEMMA BaselinesStep ==
    BaselinesIInv /\ [Next]_vars => BaselinesIInv'
<1> SUFFICES ASSUME BaselinesIInv, [Next]_vars PROVE BaselinesIInv'
  OBVIOUS
<1> USE Zenon
<1>1. /\ Tracked(efficiency, balance, lastCeiling)
      /\ Tracked(saved.efficiency, saved.balance, saved.last)
      /\ saved = Store(saved.value, saved.last, saved.efficiency, saved.balance)
  BY DEF BaselinesIInv
<1>2. ASSUME followed' = followed, Tracked(efficiency', balance', lastCeiling'),
             \/ saved' = saved
             \/ \E v, l, e, b : saved' = Store(v, l, e, b) /\ Tracked(e, b, l)
      PROVE  BaselinesIInv'
  <2>1. /\ Tracked(saved'.efficiency, saved'.balance, saved'.last)
        /\ saved' = Store(saved'.value, saved'.last, saved'.efficiency, saved'.balance)
    <3>1. CASE saved' = saved
      BY <1>1, <3>1
    <3>2. ASSUME NEW v, NEW l, NEW e, NEW b, saved' = Store(v, l, e, b), Tracked(e, b, l)
          PROVE  /\ Tracked(saved'.efficiency, saved'.balance, saved'.last)
                 /\ saved' = Store(saved'.value, saved'.last, saved'.efficiency, saved'.balance)
      <4>1. saved'.value = v /\ saved'.last = l /\ saved'.efficiency = e /\ saved'.balance = b
        BY <3>2, SMT DEF Store
      <4> QED
        BY <3>2, <4>1
    <3> QED
      BY <1>2, <3>1, <3>2
  <2> QED
    BY <1>2, <2>1 DEF BaselinesIInv, Tracked
<1>3. CASE UNCHANGED vars
  <2>1. /\ followed' = followed /\ efficiency' = efficiency /\ balance' = balance
        /\ lastCeiling' = lastCeiling /\ saved' = saved
    BY <1>3 DEF vars, trackers
  <2> QED
    BY <1>1, <1>2, <2>1
<1>4. CASE CounterNext /\ UNCHANGED <<followed, trackers>>
  <2>1. /\ followed' = followed /\ efficiency' = efficiency /\ balance' = balance
        /\ lastCeiling' = lastCeiling /\ saved' = saved
    BY <1>4 DEF trackers
  <2> QED
    BY <1>1, <1>2, <2>1
<1>5. CASE EngineNext /\ followed' = followed
  <2>1. CASE followed = "efficiency" /\ UpdateEfficiency
    <3>1. Tracked(efficiency', balance', lastCeiling') /\ saved' = saved
      BY <2>1, EfficiencyStep
    <3> QED
      BY <1>2, <1>5, <3>1
  <2>2. CASE followed = "balance" /\ UpdateBalance
    <3>1. /\ Tracked(efficiency', balance', lastCeiling')
          /\ saved' = Store(saved.value, saved.last, saved.efficiency, Later(saved.balance))
          /\ Tracked(saved.efficiency, Later(saved.balance), saved.last)
      BY <2>2, BalanceStep
    <3> QED
      BY <1>2, <1>5, <3>1
  <2>3. CASE ResetBaseline
    <3>1. Tracked(efficiency', balance', lastCeiling') /\ saved' = saved
      BY <2>3, ResetStep
    <3> QED
      BY <1>2, <1>5, <3>1
  <2>4. CASE Save
    <3>1. /\ Tracked(efficiency', balance', lastCeiling')
          /\ saved' = Store(ceiling.value, lastCeiling, efficiency, Kept(balance))
          /\ Tracked(efficiency, Kept(balance), lastCeiling)
      BY <2>4, SaveStep
    <3> QED
      BY <1>2, <1>5, <3>1
  <2>5. CASE Restart
    <3>1. Tracked(efficiency', balance', lastCeiling') /\ saved' = saved
      BY <2>5, RestartStep
    <3> QED
      BY <1>2, <1>5, <3>1
  <2>6. CASE Upgrade
    <3>1. /\ Tracked(efficiency', balance', lastCeiling')
          /\ saved' = Store(saved.value, saved.last, efficiency', balance')
          /\ lastCeiling' = saved.last
      BY <2>6, UpgradeStep
    <3>2. Tracked(efficiency', balance', saved.last)
      BY <3>1
    <3> QED
      BY <1>2, <1>5, <3>1, <3>2
  <2> QED
    BY <1>5, <2>1, <2>2, <2>3, <2>4, <2>5, <2>6 DEF EngineNext
<1> QED
  BY <1>3, <1>4, <1>5 DEF Next

\* The references are kept apart from another ceiling's, and from one another,
\* in every state.
THEOREM BaselinesInvariant ==
    Spec => []BaselinesIInv
BY BaselinesInit, BaselinesStep, PTL DEF Spec

\* What is compared was measured under the tracker's last ceiling, whatever the
\* readings of the register, the pauses of learning, the resets, the restarts from
\* an older store and the upgrades in between.
THEOREM ComparedUnderOneCeiling ==
    Spec => []EpochHasOneCeiling
<1>1. ASSUME BaselinesIInv PROVE EpochHasOneCeiling
  <2> DEFINE K == Known(lastCeiling)
  <2>1. efficiency \in EfficiencyOf(K) /\ balance \in BalanceOf(K)
    <3>1. /\ efficiency \in EfficiencyOf(CeilingsOf("efficiency", lastCeiling))
          /\ balance \in BalanceOf(CeilingsOf("balance", lastCeiling))
      BY <1>1, TrackedParts, Zenon DEF BaselinesIInv
    <3>2. CeilingsOf("efficiency", lastCeiling) \subseteq K /\ CeilingsOf("balance", lastCeiling) \subseteq K
      BY DEF CeilingsOf
    <3> QED
      BY <3>1, <3>2, EfficiencyIsWider, BalanceIsWider
  <2> HIDE DEF K
  <2>2. /\ efficiency.windows \in Seq(SUBSET K) /\ efficiency.pool \in Seq(SUBSET K)
        /\ efficiency.baseline.under \in SUBSET K
    BY <2>1, EfficiencyFields
  <2>3. /\ balance.scores \in Seq(SUBSET K) /\ balance.pool \in Seq(SUBSET K)
        /\ balance.baseline.under \in SUBSET K
    BY <2>1 DEF BalanceOf, Baselines
  <2>4. /\ efficiency.windows \o efficiency.pool \in Seq(SUBSET K)
        /\ balance.scores \o balance.pool \in Seq(SUBSET K)
    BY <2>2, <2>3
  <2>5. /\ UNION ToSet(efficiency.windows \o efficiency.pool) \subseteq K
        /\ UNION ToSet(balance.scores \o balance.pool) \subseteq K
    BY <2>4, UnionOf, Zenon
  <2> DEFINE windows == UNION ToSet(efficiency.windows \o efficiency.pool)
             samples == UNION ToSet(balance.scores \o balance.pool)
             measured == windows \cup samples
                           \cup efficiency.baseline.under \cup balance.baseline.under
  <2>6. measured \subseteq Known(lastCeiling) => EpochHasOneCeiling
    BY SMT DEF EpochHasOneCeiling
  <2> HIDE DEF windows, samples
  <2>7. measured \subseteq K
    BY <2>2, <2>3, <2>5 DEF windows, samples
  <2> QED
    BY <2>6, <2>7 DEF K
<1> QED
  BY <1>1, BaselinesInvariant, PTL

\* A pending efficiency baseline is collected from the windows that count: those
\* that a late calibration or an upgrade removed are not in it.
THEOREM PoolHoldsTheWindows ==
    Spec => []PoolIsTheWindows
<1>1. ASSUME BaselinesIInv PROVE PoolIsTheWindows
  BY <1>1, Zenon DEF BaselinesIInv, Tracked, Pooled, PoolIsTheWindows
<1> QED
  BY <1>1, BaselinesInvariant, PTL

\* Two samples of the pack balance are the spacing apart, across the epochs, the
\* resets and the restarts.
THEOREM SamplesAreSpaced ==
    Spec => []SamplesApart
<1>1. ASSUME BaselinesIInv PROVE SamplesApart
  BY <1>1, Zenon DEF BaselinesIInv, Tracked, Apart, SamplesApart
<1> QED
  BY <1>1, BaselinesInvariant, PTL
=============================================================================
