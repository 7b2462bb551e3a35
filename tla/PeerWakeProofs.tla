--------------------------- MODULE PeerWakeProofs ---------------------------
(***************************************************************************)
(* Proofs about PeerWake, for any number of coordinators on the bus and    *)
(* any holds: a coordinator that a peer has woken stays awake, and the     *)
(* poll interval and the cache follow the detector.                        *)
(***************************************************************************)
EXTENDS PeerWake, TLAPS

\* A detector counts dark polls only up to the night.
Detectors ==
    [mode : {"DAY", "NIGHT"}, below : 0 .. NIGHT_ENTRY_HOLD, hold : 0 .. PEER_WAKE_HOLD]

Sound(d) == d \in Detectors /\ (d.mode = "DAY" => d.below < NIGHT_ENTRY_HOLD)

SoundDetectors == \A c \in Coordinators : Sound(Detector(c))

\* What is left of the hold is what is left of the time to stay awake.
HeldAwake ==
    \A c \in Coordinators :
        loaded[c] /\ sinceDawn[c] < PEER_WAKE_HOLD
            => mode[c] = "DAY" /\ hold[c] + sinceDawn[c] >= PEER_WAKE_HOLD

IInv == PeerWakeTypeOK /\ SoundDetectors /\ HeldAwake /\ IntervalFollowsMode

-----------------------------------------------------------------------------
\* Evaluating a result, or a peer's wake, keeps a detector sound.
LEMMA EvaluateIsSound ==
    ASSUME NEW d, Sound(d), NEW seen
    PROVE  Sound(Evaluate(d, seen)) /\ Evaluate(d, seen).hold = d.hold
<1>1. /\ d \in Detectors
      /\ d.mode \in {"DAY", "NIGHT"} /\ d.below \in 0 .. NIGHT_ENTRY_HOLD
      /\ d.hold \in 0 .. PEER_WAKE_HOLD
    BY DEF Sound, Detectors
<1>2. /\ NIGHT_ENTRY_HOLD \in Nat \ {0}
      /\ NIGHT_ENTRY_HOLD \in 0 .. NIGHT_ENTRY_HOLD /\ 0 \in 0 .. NIGHT_ENTRY_HOLD
    BY PeerWakeAssumption
<1>3. CASE Suppressed(d)
    BY <1>1, <1>2, <1>3 DEF Evaluate, Sound, Detectors
<1>4. CASE ~Suppressed(d) /\ seen = "standby"
  <2>1. Evaluate(d, seen) = [d EXCEPT !.below = NIGHT_ENTRY_HOLD, !.mode = "NIGHT"]
    BY <1>4 DEF Evaluate, Unsuppressed, ByStatus
  <2> DEFINE e == [d EXCEPT !.below = NIGHT_ENTRY_HOLD, !.mode = "NIGHT"]
  <2>2. e \in Detectors /\ e.mode = "NIGHT" /\ e.hold = d.hold
    BY <1>1, <1>2 DEF Detectors
  <2>3. Evaluate(d, seen) = e
    BY <2>1
  <2> HIDE DEF e
  <2>4. QED
    BY <2>2, <2>3 DEF Sound
<1>5. CASE ~Suppressed(d) /\ seen # "standby"
  <2>1. Evaluate(d, seen) = ByPower(d, seen)
    BY <1>5 DEF Evaluate, Unsuppressed
  <2>2. d.mode = "DAY" => d.below + 1 \in 0 .. NIGHT_ENTRY_HOLD
    BY <1>1, <1>2 DEF Sound
  <2>3. CASE d.mode = "DAY" /\ seen = "dark"
    <3> DEFINE m == IF d.below + 1 >= NIGHT_ENTRY_HOLD THEN "NIGHT" ELSE d.mode
    <3>1. ByPower(d, seen) = [d EXCEPT !.below = d.below + 1, !.mode = m]
      BY <2>3 DEF ByPower
    <3>2. m \in {"DAY", "NIGHT"} /\ (m = "DAY" => d.below + 1 < NIGHT_ENTRY_HOLD)
      BY <1>1, <1>2, <2>2, <2>3
    <3> HIDE DEF m
    <3> DEFINE e == [d EXCEPT !.below = d.below + 1, !.mode = m]
    <3> HIDE DEF m
    <3>3. /\ e \in Detectors /\ e.mode = m /\ e.below = d.below + 1
          /\ e.hold = d.hold
      BY <1>1, <1>2, <2>2, <2>3, <3>2 DEF Detectors
    <3>4. Evaluate(d, seen) = e
      BY <2>1, <3>1
    <3> HIDE DEF e
    <3>5. QED
      BY <3>2, <3>3, <3>4 DEF Sound
  <2>4. CASE d.mode = "DAY" /\ seen \in {"dim", "bright"}
    BY <1>1, <1>2, <2>1, <2>4 DEF ByPower, Sound, Detectors
  <2>5. CASE d.mode = "NIGHT" /\ seen = "bright"
    <3>1. ByPower(d, seen) = [d EXCEPT !.below = 0, !.mode = "DAY"]
      BY <2>5 DEF ByPower
    <3> DEFINE e == [d EXCEPT !.below = 0, !.mode = "DAY"]
    <3>2. e \in Detectors /\ e.below = 0 /\ e.hold = d.hold
      BY <1>1, <1>2 DEF Detectors
    <3>3. Evaluate(d, seen) = e
      BY <2>1, <3>1
    <3> HIDE DEF e
    <3>4. QED
      BY <1>2, <3>2, <3>3 DEF Sound
  <2>6. CASE /\ ~(d.mode = "DAY" /\ seen = "dark")
             /\ ~(d.mode = "DAY" /\ seen \in {"dim", "bright"})
             /\ ~(d.mode = "NIGHT" /\ seen = "bright")
    BY <1>1, <2>1, <2>6 DEF ByPower, Sound
  <2>7. QED
    BY <2>3, <2>4, <2>5, <2>6
<1>6. QED
    BY <1>3, <1>4, <1>5

LEMMA ForcedIsSound ==
    ASSUME NEW d, Sound(d)
    PROVE  /\ Sound(ForcedDay(d)) /\ ForcedDay(d).mode = "DAY"
           /\ d.mode = "NIGHT" => ForcedDay(d).hold = PEER_WAKE_HOLD
    BY PeerWakeAssumption DEF Sound, ForcedDay, Detectors

\* In the hold an evaluation does not put the coordinator to sleep.
LEMMA HeldIsNotPutToSleep ==
    ASSUME NEW d, d.mode = "DAY", d.hold > 0, d \in Detectors, NEW seen
    PROVE  Evaluate(d, seen).mode = "DAY"
    BY DEF Evaluate, Suppressed, Detectors

-----------------------------------------------------------------------------
LEMMA InitIInv == PeerWakeInit => IInv
    BY PeerWakeAssumption
    DEF PeerWakeInit, IInv, PeerWakeTypeOK, SoundDetectors, Sound, Detectors, Detector,
        HeldAwake, IntervalFollowsMode, LongAgo, Skies

\* The detectors after a poll has ended are sound, and the interval follows them.
LEMMA EndPollKeeps ==
    ASSUME IInv, NEW c \in Coordinators, NEW seen, EndPoll(c, seen)
    PROVE  IInv'
<1> DEFINE own   == Evaluate(Detector(c), seen)
           after == AfterEvaluation(c, own)
<1>1. Sound(own) /\ own.hold = hold[c]
    BY EvaluateIsSound DEF IInv, SoundDetectors, Detector
<1>2. \A p \in Woken(c, own) : p \in Coordinators \ {c} /\ loaded[p] /\ mode[p] = "NIGHT"
    BY DEF Woken, SleepingPeers
<1>3. ASSUME NEW p \in Coordinators
      PROVE  /\ after[p] = IF p = c THEN own
                           ELSE IF p \in Woken(c, own) THEN ForcedDay(Detector(p))
                           ELSE Detector(p)
             /\ Sound(after[p])
             /\ Detector(p)' = after[p]
  <2>1. after[p] = IF p = c THEN own
                   ELSE IF p \in Woken(c, own) THEN ForcedDay(Detector(p)) ELSE Detector(p)
    BY DEF AfterEvaluation
  <2>2. Sound(Detector(p))
    BY DEF IInv, SoundDetectors
  <2>3. Sound(after[p])
    BY <1>1, <2>1, <2>2, ForcedIsSound
  <2>4. mode'[p] = after[p].mode /\ below'[p] = after[p].below /\ hold'[p] = after[p].hold
    BY DEF EndPoll
  <2>5. QED
    BY <2>1, <2>3, <2>4 DEF Detector, Sound, Detectors
<1>4. SoundDetectors'
    BY <1>3 DEF SoundDetectors
<1>5. PeerWakeTypeOK'
  <2>1. \A p \in Coordinators :
            /\ after[p].mode \in {"DAY", "NIGHT"} /\ after[p].below \in 0 .. NIGHT_ENTRY_HOLD
            /\ after[p].hold \in 0 .. PEER_WAKE_HOLD
    BY <1>3 DEF Sound, Detectors
  <2>2. 0 \in 0 .. LongAgo
    BY PeerWakeAssumption DEF LongAgo
  <2> HIDE DEF after
  <2>3. /\ mode' \in [Coordinators -> {"DAY", "NIGHT"}]
        /\ below' \in [Coordinators -> 0 .. NIGHT_ENTRY_HOLD]
        /\ hold' \in [Coordinators -> 0 .. PEER_WAKE_HOLD]
    BY <2>1 DEF EndPoll, after
  <2>4. /\ loaded' \in [Coordinators -> BOOLEAN] /\ spreading' \in [Coordinators -> BOOLEAN]
        /\ sky' \in [Coordinators -> Skies] /\ polling' \in [Coordinators -> BOOLEAN]
    BY DEF EndPoll, IInv, PeerWakeTypeOK
  <2>5. sinceDawn' \in [Coordinators -> 0 .. LongAgo]
    BY <2>2 DEF EndPoll, IInv, PeerWakeTypeOK
  <2>6. nightCache' \in [Coordinators -> BOOLEAN]
    BY DEF EndPoll, FollowMode, IInv, PeerWakeTypeOK
  <2>7. interval' \in [Coordinators -> {"day", "night"}]
    BY DEF EndPoll, FollowMode, IInv, PeerWakeTypeOK
  <2>8. QED
    BY <2>3, <2>4, <2>5, <2>6, <2>7 DEF PeerWakeTypeOK
<1>6. HeldAwake'
  <2> SUFFICES ASSUME NEW p \in Coordinators, loaded'[p], sinceDawn'[p] < PEER_WAKE_HOLD
               PROVE  mode'[p] = "DAY" /\ hold'[p] + sinceDawn'[p] >= PEER_WAKE_HOLD
    BY DEF HeldAwake
  <2>1. mode'[p] = after[p].mode /\ hold'[p] = after[p].hold
    BY DEF EndPoll
  <2>2. PEER_WAKE_HOLD \in Nat
    BY PeerWakeAssumption
  <2>3. CASE p \in Woken(c, own)
    <3>1. p # c /\ Detector(p).mode = "NIGHT" /\ Sound(Detector(p))
      BY <1>2, <2>3 DEF Detector, IInv, SoundDetectors
    <3>2. after[p] = ForcedDay(Detector(p))
      BY <1>3, <2>3, <3>1
    <3>3. sinceDawn'[p] = 0
      BY <2>3 DEF EndPoll
    <3>4. QED
      BY <2>1, <2>2, <3>1, <3>2, <3>3, ForcedIsSound
  <2>4. CASE p \notin Woken(c, own)
    <3>1. sinceDawn'[p] = sinceDawn[p] /\ loaded[p]
      BY <2>4 DEF EndPoll
    <3>2. /\ mode[p] = "DAY" /\ hold[p] + sinceDawn[p] >= PEER_WAKE_HOLD
          /\ hold[p] \in Nat /\ sinceDawn[p] \in Nat
      BY <3>1 DEF IInv, HeldAwake, PeerWakeTypeOK, LongAgo
    <3>3. hold[p] > 0
      BY <2>2, <3>1, <3>2
    <3>4. after[p].mode = "DAY" /\ after[p].hold = hold[p]
      <4>1. CASE p = c
        <5>1. Detector(c).mode = "DAY" /\ Detector(c).hold > 0 /\ Detector(c) \in Detectors
          BY <3>2, <3>3, <4>1 DEF Detector, IInv, SoundDetectors, Sound
        <5>2. QED
          BY <1>1, <1>3, <4>1, <5>1, HeldIsNotPutToSleep
      <4>2. CASE p # c
        <5>1. after[p] = Detector(p)
          BY <1>3, <2>4, <4>2
        <5> HIDE DEF after
        <5>2. QED
          BY <3>2, <5>1 DEF Detector
      <4>3. QED
        BY <4>1, <4>2
    <3>5. QED
      BY <2>1, <3>1, <3>2, <3>4
  <2>5. QED
    BY <2>3, <2>4
<1>7. IntervalFollowsMode'
  <2> SUFFICES ASSUME NEW p \in Coordinators
               PROVE  /\ nightCache'[p] <=> mode'[p] = "NIGHT"
                      /\ interval'[p] = IF mode'[p] = "NIGHT" THEN "night" ELSE "day"
    BY DEF IntervalFollowsMode
  <2>1. mode'[p] = after[p].mode
    BY DEF EndPoll
  <2>2. /\ nightCache'[p] = IF after[p].mode # mode[p] THEN after[p].mode = "NIGHT"
                            ELSE nightCache[p]
        /\ interval'[p] = IF after[p].mode = mode[p] THEN interval[p]
                          ELSE IF after[p].mode = "NIGHT" THEN "night" ELSE "day"
    BY DEF EndPoll, FollowMode
  <2>3. /\ nightCache[p] <=> mode[p] = "NIGHT"
        /\ interval[p] = IF mode[p] = "NIGHT" THEN "night" ELSE "day"
    BY DEF IInv, IntervalFollowsMode
  <2> HIDE DEF after
  <2>4. CASE after[p].mode = mode[p]
    BY <2>1, <2>2, <2>3, <2>4
  <2>5. CASE after[p].mode # mode[p]
    BY <2>1, <2>2, <2>5
  <2>6. QED
    BY <2>4, <2>5
<1>8. QED
    BY <1>4, <1>5, <1>6, <1>7 DEF IInv

-----------------------------------------------------------------------------
LEMMA StartPollKeeps ==
    ASSUME IInv, NEW c \in Coordinators, StartPoll(c)
    PROVE  IInv'
<1>1. interval' = interval
  <2>1. PollInterval(c) = interval[c]
    BY DEF PollInterval, IInv, IntervalFollowsMode, PeerWakeTypeOK
  <2>2. QED
    BY <2>1 DEF StartPoll, IInv, PeerWakeTypeOK
<1>2. QED
    BY <1>1 DEF StartPoll, IInv, PeerWakeTypeOK, SoundDetectors, Detector, detectors,
                HeldAwake, IntervalFollowsMode

LEMMA LoadKeeps ==
    ASSUME IInv, NEW c \in Coordinators, Load(c)
    PROVE  IInv'
<1>1. PEER_WAKE_HOLD \in Nat \ {0} /\ NIGHT_ENTRY_HOLD \in Nat \ {0}
    BY PeerWakeAssumption
<1>2. PeerWakeTypeOK'
    BY <1>1 DEF Load, IInv, PeerWakeTypeOK, LongAgo
<1>3. SoundDetectors'
  <2> SUFFICES ASSUME NEW p \in Coordinators PROVE Sound(Detector(p))'
    BY DEF SoundDetectors
  <2>1. CASE p = c
    <3>1. Detector(p)' = [mode |-> "DAY", below |-> 0, hold |-> 0]
      BY <2>1 DEF Load, Detector, IInv, PeerWakeTypeOK
    <3>2. QED
      BY <1>1, <3>1 DEF Sound, Detectors
  <2>2. CASE p # c
    BY <2>2 DEF Load, Detector, IInv, PeerWakeTypeOK, SoundDetectors
  <2>3. QED
    BY <2>1, <2>2
<1>4. HeldAwake'
    BY <1>1 DEF Load, IInv, PeerWakeTypeOK, HeldAwake, LongAgo
<1>5. IntervalFollowsMode'
    BY DEF Load, IInv, PeerWakeTypeOK, IntervalFollowsMode
<1>6. QED
    BY <1>2, <1>3, <1>4, <1>5 DEF IInv

LEMMA TickKeeps ==
    ASSUME IInv, Tick
    PROVE  IInv'
<1>1. PEER_WAKE_HOLD \in Nat \ {0}
    BY PeerWakeAssumption
<1>2. PeerWakeTypeOK'
    BY <1>1 DEF Tick, IInv, PeerWakeTypeOK, LongAgo
<1>3. SoundDetectors'
  <2> SUFFICES ASSUME NEW p \in Coordinators PROVE Sound(Detector(p))'
    BY DEF SoundDetectors
  <2>1. Sound(Detector(p)) /\ hold'[p] \in 0 .. PEER_WAKE_HOLD
    BY <1>2 DEF IInv, SoundDetectors, PeerWakeTypeOK
  <2>2. Detector(p)' = [mode |-> Detector(p).mode, below |-> Detector(p).below,
                        hold |-> hold'[p]]
    BY DEF Tick, Detector
  <2>3. QED
    BY <2>1, <2>2 DEF Sound, Detectors
<1>4. HeldAwake'
    BY <1>1 DEF Tick, IInv, PeerWakeTypeOK, HeldAwake, LongAgo
<1>5. IntervalFollowsMode'
    BY DEF Tick, IInv, IntervalFollowsMode
<1>6. QED
    BY <1>2, <1>3, <1>4, <1>5 DEF IInv

LEMMA NextKeeps == IInv /\ [PeerWakeNext]_wakeVars => IInv'
<1> SUFFICES ASSUME IInv, [PeerWakeNext]_wakeVars PROVE IInv'
    OBVIOUS
<1>1. ASSUME NEW c \in Coordinators, StartPoll(c) PROVE IInv'
    BY <1>1, StartPollKeeps
<1>2. ASSUME NEW c \in Coordinators, PollReads(c) PROVE IInv'
    BY <1>2, EndPollKeeps DEF PollReads
<1>3. ASSUME NEW c \in Coordinators, PollReadsNoPower(c) PROVE IInv'
    BY <1>3, EndPollKeeps DEF PollReadsNoPower
<1>4. ASSUME NEW c \in Coordinators, PollFails(c) PROVE IInv'
    BY <1>4 DEF PollFails, IInv, PeerWakeTypeOK, SoundDetectors, Detector, detectors,
                HeldAwake, IntervalFollowsMode
<1>5. ASSUME NEW c \in Coordinators, Unload(c) PROVE IInv'
    BY <1>5 DEF Unload, IInv, PeerWakeTypeOK, SoundDetectors, Detector, detectors,
                HeldAwake, IntervalFollowsMode
<1>6. ASSUME NEW c \in Coordinators, Load(c) PROVE IInv'
    BY <1>6, LoadKeeps
<1>7. ASSUME NEW c \in Coordinators, NEW s \in Skies, SkyChanges(c, s) PROVE IInv'
    BY <1>7 DEF SkyChanges, IInv, PeerWakeTypeOK, SoundDetectors, Detector, detectors,
                HeldAwake, IntervalFollowsMode
<1>8. CASE Tick
    BY <1>8, TickKeeps
<1>9. CASE UNCHANGED wakeVars
    BY <1>9 DEF wakeVars, IInv, PeerWakeTypeOK, SoundDetectors, Detector, detectors,
                HeldAwake, IntervalFollowsMode
<1>10. QED
    BY <1>1, <1>2, <1>3, <1>4, <1>5, <1>6, <1>7, <1>8, <1>9 DEF PeerWakeNext

LEMMA IInvHolds == PeerWakeSpec => []IInv
<1>1. QED
    BY InitIInv, NextKeeps, PTL DEF PeerWakeSpec, PeerWakeSafety

\* Every state keeps its type, the counts of dark polls and the holds in particular.
THEOREM PeerWakeTypeCorrect == PeerWakeSpec => []PeerWakeTypeOK
<1>1. IInv => PeerWakeTypeOK
    BY DEF IInv
<1>2. QED
    BY <1>1, IInvHolds, PTL

\* On a bus of any number of devices, a coordinator that a peer has woken stays
\* awake for the hold, however its own polls, the wakes of others, failures and
\* reloads interleave (HS-2310-004).
THEOREM WokenStayAwake == PeerWakeSpec => []SleepersStayAwake
<1>1. IInv => SleepersStayAwake
    BY DEF IInv, HeldAwake, SleepersStayAwake
<1>2. QED
    BY <1>1, IInvHolds, PTL

\* The interval and the cache are in night mode exactly when the detector is,
\* in the middle of a poll too.
THEOREM IntervalIsTheModes == PeerWakeSpec => []IntervalFollowsMode
<1>1. IInv => IntervalFollowsMode
    BY DEF IInv
<1>2. QED
    BY <1>1, IInvHolds, PTL
=============================================================================
