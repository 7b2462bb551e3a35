-------------------------- MODULE ModbusGuardProofs --------------------------
(***************************************************************************)
(* Safety of the bus serialiser, for any number of tasks, devices and any  *)
(* bounds.  The order is that of the dependencies: types, then who holds   *)
(* the lock, then the counters and the queue bounds, then the pacing.      *)
(***************************************************************************)
EXTENDS ModbusGuard, FiniteSetTheorems, SequenceTheorems, TLAPS

USE DEF InFlightStates, PcStates

-----------------------------------------------------------------------------
(* Types. *)

\* A report is clamped into the range it is clamped to.
LEMMA ClampInRange ==
    \A lo, hi, x \in Int : lo <= hi => Clamp(lo, x, hi) \in lo .. hi
BY DEF Clamp

\* Removing one position from the lock's queue leaves a queue of tasks.
LEMMA LeaveQueueType ==
    ASSUME NEW r \in Tasks, waiters \in Seq(Tasks), LeaveQueue(r)
    PROVE  waiters' \in Seq(Tasks)
<1>1. PICK i \in DOMAIN waiters : waiters' = RemoveAt(waiters, i)
  BY DEF LeaveQueue
<1>2. i \in 1 .. Len(waiters)
  OBVIOUS
<1>3. SubSeq(waiters, 1, i - 1) \in Seq(Tasks)
  BY <1>2, SubSeqProperties
<1>4. SubSeq(waiters, i + 1, Len(waiters)) \in Seq(Tasks)
  BY <1>2, SubSeqProperties
<1> QED
  BY <1>1, <1>3, <1>4, ConcatProperties DEF RemoveAt

\* Taking the lock keeps the control points, the holder and the pause typed.
LEMMA TakeLockType ==
    ASSUME TypeOK, NEW r \in Tasks, TakeLock(r)
    PROVE  /\ pc' \in [Tasks -> PcStates]
           /\ holder' \in Tasks \cup {NoTask}
           /\ pause' \in 0 .. MAX_GAP
BY BoundsAssumption DEF TypeOK, TakeLock

LEMMA GiveBackSlotsType ==
    ASSUME TypeOK, NEW r \in Tasks, GiveBackSlots(r)
    PROVE  queueDepth' \in Int /\ priorityDepth' \in Int
BY DEF TypeOK, GiveBackSlots

\* The control point and the clocks stay within their ranges.
THEOREM TypeCorrect == Spec => []TypeOK
<1>1. Init => TypeOK
  <2>1. << >> \in Seq(Tasks)
    OBVIOUS
  <2>2. /\ MIN_GAP \in MIN_GAP .. MAX_GAP
        /\ MAX_QUEUE_DEPTH \in 1 .. MAX_QUEUE_DEPTH
        /\ MAX_GAP \in 0 .. MAX_GAP
        /\ 0 \in 0 .. MAX_GAP
    BY BoundsAssumption
  <2> SUFFICES ASSUME Init
               PROVE  TypeOK
    OBVIOUS
  <2>3. /\ pc \in [Tasks -> PcStates]
        /\ gapOf \in [Sources -> {0} \cup (MIN_GAP .. MAX_GAP)]
        /\ depthOf \in [Sources -> {0} \cup (1 .. MAX_QUEUE_DEPTH)]
    BY DEF Init
  <2>4. /\ waiters \in Seq(Tasks)
        /\ holder \in Tasks \cup {NoTask}
        /\ overBudget \in BOOLEAN
    BY <2>1, Zenon DEF Init
  <2>5. /\ queueDepth \in Int
        /\ priorityDepth \in Int
    BY DEF Init
  <2>6. /\ effectiveGap \in MIN_GAP .. MAX_GAP
        /\ maxQueueDepth \in 1 .. MAX_QUEUE_DEPTH
        /\ sinceEnd \in 0 .. MAX_GAP
        /\ pause \in 0 .. MAX_GAP
    BY <2>2 DEF Init
  <2> QED
    BY <2>3, <2>4, <2>5, <2>6 DEF TypeOK
<1>2. TypeOK /\ [Next]_vars => TypeOK'
  <2> SUFFICES ASSUME TypeOK, [Next]_vars
               PROVE  TypeOK'
    OBVIOUS
  <2> USE DEF lockVars, depthVars, paramVars, clockVars
  <2>1. ASSUME NEW r \in Tasks, Shed(r)
        PROVE  TypeOK'
    BY <2>1 DEF TypeOK, Shed
  <2>2. ASSUME NEW r \in Tasks, Enter(r)
        PROVE  TypeOK'
    <3>1. queueDepth' \in Int /\ priorityDepth' \in Int
      BY <2>2 DEF TypeOK, Enter
    <3>2. CASE TakeLock(r) /\ UNCHANGED waiters
      BY <2>2, <3>1, <3>2, TakeLockType DEF TypeOK, Enter
    <3>3. CASE /\ waiters' = Append(waiters, r)
               /\ pc' = [pc EXCEPT ![r] = "waiting"]
               /\ UNCHANGED <<holder, pause>>
      <4>1. waiters' \in Seq(Tasks)
        BY <3>3, AppendProperties DEF TypeOK
      <4> QED
        BY <2>2, <3>1, <3>3, <4>1 DEF TypeOK, Enter
    <3> QED
      BY <2>2, <3>2, <3>3 DEF Enter
  <2>3. ASSUME NEW r \in Tasks, LockAcquired(r)
        PROVE  TypeOK'
    <3>1. waiters' \in Seq(Tasks)
      BY <2>3, HeadTailProperties DEF TypeOK, LockAcquired
    <3> QED
      BY <2>3, <3>1, TakeLockType DEF TypeOK, LockAcquired
  <2>4. ASSUME NEW r \in Tasks, GapElapsed(r)
        PROVE  TypeOK'
    BY <2>4 DEF TypeOK, GapElapsed
  <2>5. ASSUME NEW r \in Tasks, AdmissionTimeout(r)
        PROVE  TypeOK'
    <3>1. waiters' \in Seq(Tasks)
      BY <2>5, LeaveQueueType DEF TypeOK, AdmissionTimeout
    <3> QED
      BY <2>5, <3>1, GiveBackSlotsType DEF TypeOK, AdmissionTimeout
  <2>6. ASSUME NEW r \in Tasks, CancelWaiting(r)
        PROVE  TypeOK'
    <3>1. waiters' \in Seq(Tasks)
      BY <2>6, LeaveQueueType DEF TypeOK, CancelWaiting
    <3> QED
      BY <2>6, <3>1, GiveBackSlotsType DEF TypeOK, CancelWaiting
  <2>7. ASSUME NEW r \in Tasks, CancelInGap(r)
        PROVE  TypeOK'
    BY <2>7, GiveBackSlotsType, BoundsAssumption DEF TypeOK, CancelInGap
  <2>8. ASSUME NEW r \in Tasks, Exit(r)
        PROVE  TypeOK'
    BY <2>8, GiveBackSlotsType, BoundsAssumption DEF TypeOK, Exit
  <2>9. ASSUME NEW s \in Sources, NEW gap \in GapReports, UpdateGap(s, gap)
        PROVE  TypeOK'
    <3>1. Clamp(MIN_GAP, gap, MAX_GAP) \in MIN_GAP .. MAX_GAP
      <4>1. MIN_GAP \in Int /\ gap \in Int /\ MAX_GAP \in Int
        BY BoundsAssumption
      <4> QED
        BY <4>1, BoundsAssumption, ClampInRange
    <3>2. gapOf' \in [Sources -> {0} \cup (MIN_GAP .. MAX_GAP)]
      BY <2>9, <3>1 DEF TypeOK, UpdateGap
    <3>3. Contributions(gapOf') \subseteq MIN_GAP .. MAX_GAP
      BY <3>2 DEF Contributions
    <3>4. effectiveGap' \in MIN_GAP .. MAX_GAP
      BY <2>9, <3>3 DEF UpdateGap, Greatest
    <3> QED
      BY <2>9, <3>2, <3>4 DEF TypeOK, UpdateGap
  <2>10. ASSUME NEW s \in Sources, NEW depth \in DepthReports,
                UpdateMaxQueueDepth(s, depth)
         PROVE  TypeOK'
    <3>1. Clamp(1, depth, MAX_QUEUE_DEPTH) \in 1 .. MAX_QUEUE_DEPTH
      <4>1. /\ 1 \in Int /\ depth \in Int /\ MAX_QUEUE_DEPTH \in Int
            /\ 1 <= MAX_QUEUE_DEPTH
        BY BoundsAssumption
      <4> QED
        BY <4>1, ClampInRange
    <3>2. depthOf' \in [Sources -> {0} \cup (1 .. MAX_QUEUE_DEPTH)]
      BY <2>10, <3>1 DEF TypeOK, UpdateMaxQueueDepth
    <3>3. Contributions(depthOf') \subseteq 1 .. MAX_QUEUE_DEPTH
      BY <3>2 DEF Contributions
    <3>4. maxQueueDepth' \in 1 .. MAX_QUEUE_DEPTH
      BY <2>10, <3>3 DEF UpdateMaxQueueDepth, Least
    <3> QED
      BY <2>10, <3>2, <3>4 DEF TypeOK, UpdateMaxQueueDepth
  <2>11. ASSUME NEW s \in Sources, RemoveSource(s)
         PROVE  TypeOK'
    <3>1. /\ gapOf' \in [Sources -> {0} \cup (MIN_GAP .. MAX_GAP)]
          /\ depthOf' \in [Sources -> {0} \cup (1 .. MAX_QUEUE_DEPTH)]
      BY <2>11 DEF TypeOK, RemoveSource
    <3>2. /\ Contributions(gapOf') \subseteq MIN_GAP .. MAX_GAP
          /\ Contributions(depthOf') \subseteq 1 .. MAX_QUEUE_DEPTH
      BY <3>1 DEF Contributions
    <3>3. effectiveGap' \in MIN_GAP .. MAX_GAP
      <4>1. \/ effectiveGap' = MIN_GAP
            \/ effectiveGap' \in Contributions(gapOf')
        BY <2>11 DEF RemoveSource, Greatest
      <4> QED
        BY <3>2, <4>1, BoundsAssumption
    <3>4. maxQueueDepth' \in 1 .. MAX_QUEUE_DEPTH
      <4>1. \/ maxQueueDepth' = MAX_QUEUE_DEPTH
            \/ maxQueueDepth' \in Contributions(depthOf')
        BY <2>11 DEF RemoveSource, Least
      <4> QED
        BY <3>2, <4>1, BoundsAssumption
    <3> QED
      BY <2>11, <3>1, <3>3, <3>4 DEF TypeOK, RemoveSource
  <2>12. CASE Tick
    BY <2>12, BoundsAssumption DEF TypeOK, Tick
  <2>13. CASE AirtimeRecovers
    BY <2>13 DEF TypeOK, AirtimeRecovers
  <2>14. CASE UNCHANGED vars
    BY <2>14 DEF TypeOK, vars
  <2> QED
    BY <2>1, <2>2, <2>3, <2>4, <2>5, <2>6, <2>7, <2>8, <2>9, <2>10, <2>11,
       <2>12, <2>13, <2>14 DEF Next, Request, Parameters
<1> QED
  BY <1>1, <1>2, PTL DEF Spec

-----------------------------------------------------------------------------
(* The lock. *)

\* At every moment the lock is free or held by a request that is sleeping out
\* its gap or on the line, and nobody else is: no exit path keeps it.
THEOREM LockNeverLost == Spec => []LockHeldByLiveRequest
<1>1. Init => LockHeldByLiveRequest
  BY DEF Init, LockHeldByLiveRequest
<1>2. TypeOK /\ LockHeldByLiveRequest /\ [Next]_vars => LockHeldByLiveRequest'
  <2> SUFFICES ASSUME TypeOK, LockHeldByLiveRequest, [Next]_vars
               PROVE  LockHeldByLiveRequest'
    OBVIOUS
  <2> USE TasksAssumption DEF TypeOK, LockHeldByLiveRequest, lockVars
  <2>1. ASSUME NEW r \in Tasks, Shed(r)
        PROVE  LockHeldByLiveRequest'
    BY <2>1 DEF Shed, Outside
  <2>2. ASSUME NEW r \in Tasks, Enter(r)
        PROVE  LockHeldByLiveRequest'
    BY <2>2 DEF Enter, Outside, LockIsFree, TakeLock
  <2>3. ASSUME NEW r \in Tasks, LockAcquired(r)
        PROVE  LockHeldByLiveRequest'
    BY <2>3 DEF LockAcquired, TakeLock
  <2>4. ASSUME NEW r \in Tasks, GapElapsed(r)
        PROVE  LockHeldByLiveRequest'
    BY <2>4 DEF GapElapsed
  <2>5. ASSUME NEW r \in Tasks, AdmissionTimeout(r) \/ CancelWaiting(r)
        PROVE  LockHeldByLiveRequest'
    BY <2>5 DEF AdmissionTimeout, CancelWaiting
  <2>6. ASSUME NEW r \in Tasks, CancelInGap(r) \/ Exit(r)
        PROVE  LockHeldByLiveRequest'
    BY <2>6 DEF CancelInGap, Exit
  <2>7. ASSUME NEW s \in Sources, Parameters(s)
        PROVE  LockHeldByLiveRequest'
    BY <2>7 DEF Parameters, UpdateGap, UpdateMaxQueueDepth, RemoveSource
  <2>8. CASE Tick \/ AirtimeRecovers \/ UNCHANGED vars
    BY <2>8 DEF Tick, AirtimeRecovers, vars
  <2> QED
    BY <2>1, <2>2, <2>3, <2>4, <2>5, <2>6, <2>7, <2>8 DEF Next, Request
<1> QED
  BY <1>1, <1>2, TypeCorrect, PTL DEF Spec

-----------------------------------------------------------------------------
(* The counters and the bounds of the queue. *)

\* The sets the counters count are finite.
LEMMA InFlightFinite ==
    /\ IsFiniteSet(InFlight)
    /\ IsFiniteSet(PriorityInFlight)
    /\ IsFiniteSet(InFlight \ PriorityInFlight)
    /\ Cardinality(InFlight) \in Nat
    /\ Cardinality(PriorityInFlight) \in Nat
    /\ Cardinality(InFlight \ PriorityInFlight) \in Nat
<1>1. /\ InFlight \subseteq Tasks
      /\ PriorityInFlight \subseteq Tasks
      /\ InFlight \ PriorityInFlight \subseteq Tasks
  BY TasksAssumption DEF InFlight, PriorityInFlight
<1>2. \A S : S \subseteq Tasks => IsFiniteSet(S)
  BY TasksAssumption, FS_Subset
<1> QED
  BY <1>1, <1>2, FS_CardinalityType

\* How a request that starts changes the two sets.
LEMMA FlightGrows ==
    ASSUME TypeOK, NEW r \in Tasks, Outside(r), NEW q \in InFlightStates,
           pc' = [pc EXCEPT ![r] = q]
    PROVE  /\ InFlight' = InFlight \cup {r}
           /\ PriorityInFlight' = IF r \in PriorityTasks
                                  THEN PriorityInFlight \cup {r}
                                  ELSE PriorityInFlight
           /\ r \notin InFlight /\ r \notin PriorityInFlight
BY TasksAssumption DEF TypeOK, Outside, InFlight, PriorityInFlight

\* How a request that ends changes them.
LEMMA FlightShrinks ==
    ASSUME TypeOK, NEW r \in Tasks, pc[r] \in InFlightStates,
           NEW q \in PcStates \ InFlightStates, pc' = [pc EXCEPT ![r] = q]
    PROVE  /\ InFlight' = InFlight \ {r}
           /\ PriorityInFlight' = IF r \in PriorityTasks
                                  THEN PriorityInFlight \ {r}
                                  ELSE PriorityInFlight
           /\ r \in InFlight
           /\ r \in PriorityTasks => r \in PriorityInFlight
BY TasksAssumption DEF TypeOK, InFlight, PriorityInFlight

\* A request that moves on within admission, or one that stays outside it,
\* leaves them alone.
LEMMA FlightKept ==
    ASSUME TypeOK, NEW r \in Tasks, NEW q \in PcStates,
           pc[r] \in InFlightStates <=> q \in InFlightStates,
           pc' = [pc EXCEPT ![r] = q]
    PROVE  /\ InFlight' = InFlight
           /\ PriorityInFlight' = PriorityInFlight
BY TasksAssumption DEF TypeOK, InFlight, PriorityInFlight

\* Where the lock is taken the request is in flight.
LEMMA TakeLockInFlight ==
    ASSUME NEW r \in Tasks, TakeLock(r)
    PROVE  \E q \in InFlightStates : pc' = [pc EXCEPT ![r] = q]
BY DEF TakeLock

\* What a step does to the requests in flight and to the counters: it starts
\* one request, ends one, or leaves both alone.
Starts(r) ==
    /\ ~QueueFull(r)
    /\ ~PriorityLaneFull(r)
    /\ r \notin InFlight /\ r \notin PriorityInFlight
    /\ InFlight' = InFlight \cup {r}
    /\ PriorityInFlight' = IF r \in PriorityTasks THEN PriorityInFlight \cup {r}
                           ELSE PriorityInFlight
    /\ queueDepth' = queueDepth + 1
    /\ priorityDepth' = IF r \in PriorityTasks THEN priorityDepth + 1
                        ELSE priorityDepth

Ends(r) ==
    /\ r \in InFlight /\ (r \in PriorityTasks => r \in PriorityInFlight)
    /\ InFlight' = InFlight \ {r}
    /\ PriorityInFlight' = IF r \in PriorityTasks THEN PriorityInFlight \ {r}
                           ELSE PriorityInFlight
    /\ GiveBackSlots(r)

Keeps ==
    /\ InFlight' = InFlight
    /\ PriorityInFlight' = PriorityInFlight
    /\ UNCHANGED depthVars

LEMMA StepOnSlots ==
    ASSUME TypeOK, [Next]_vars
    PROVE  Keeps \/ \E r \in Tasks : Starts(r) \/ Ends(r)
<1> USE DEF depthVars
<1>1. ASSUME NEW r \in Tasks, Shed(r)
      PROVE  Keeps
  <2>1. pc[r] \in InFlightStates <=> "shed" \in InFlightStates
    BY <1>1 DEF Shed, Outside
  <2> QED
    BY <1>1, <2>1, FlightKept DEF Shed, Keeps
<1>2. ASSUME NEW r \in Tasks, Enter(r)
      PROVE  Starts(r)
  <2>1. PICK q \in InFlightStates : pc' = [pc EXCEPT ![r] = q]
    BY <1>2, TakeLockInFlight DEF Enter
  <2>2. Outside(r)
    BY <1>2 DEF Enter
  <2> QED
    BY <1>2, <2>1, <2>2, FlightGrows DEF Enter, Starts
<1>3. ASSUME NEW r \in Tasks, LockAcquired(r)
      PROVE  Keeps
  <2>1. PICK q \in InFlightStates : pc' = [pc EXCEPT ![r] = q]
    BY <1>3, TakeLockInFlight DEF LockAcquired
  <2>2. pc[r] \in InFlightStates <=> q \in InFlightStates
    BY <1>3 DEF LockAcquired
  <2> QED
    BY <1>3, <2>1, <2>2, FlightKept DEF LockAcquired, Keeps
<1>4. ASSUME NEW r \in Tasks, GapElapsed(r)
      PROVE  Keeps
  <2>1. pc[r] \in InFlightStates <=> "serving" \in InFlightStates
    BY <1>4 DEF GapElapsed
  <2> QED
    BY <1>4, <2>1, FlightKept DEF GapElapsed, Keeps
<1>5. ASSUME NEW r \in Tasks, \/ AdmissionTimeout(r) \/ CancelWaiting(r)
                              \/ CancelInGap(r) \/ Exit(r)
      PROVE  Ends(r)
  <2>1. PICK q \in PcStates \ InFlightStates : pc' = [pc EXCEPT ![r] = q]
    BY <1>5 DEF AdmissionTimeout, CancelWaiting, CancelInGap, Exit
  <2>2. pc[r] \in InFlightStates /\ GiveBackSlots(r)
    BY <1>5 DEF AdmissionTimeout, CancelWaiting, CancelInGap, Exit
  <2> QED
    BY <2>1, <2>2, FlightShrinks DEF Ends
<1>6. CASE \/ \E s \in Sources : Parameters(s)
           \/ Tick \/ AirtimeRecovers \/ UNCHANGED vars
  <2>1. UNCHANGED pc /\ UNCHANGED depthVars
    BY <1>6 DEF Parameters, UpdateGap, UpdateMaxQueueDepth, RemoveSource, Tick,
                AirtimeRecovers, vars
  <2> QED
    BY <2>1 DEF Keeps, InFlight, PriorityInFlight
<1> QED
  BY <1>1, <1>2, <1>3, <1>4, <1>5, <1>6 DEF Next, Request

\* The counters are the numbers of requests in flight, for any number of tasks
\* and whatever is cancelled, shed or timed out.
THEOREM CountersAreExact == Spec => []CountersExact
<1>1. Init => CountersExact
  <2> SUFFICES ASSUME Init
               PROVE  CountersExact
    OBVIOUS
  <2>1. InFlight = {} /\ PriorityInFlight = {}
    BY TasksAssumption DEF Init, InFlight, PriorityInFlight
  <2> QED
    BY <2>1, FS_EmptySet DEF Init, CountersExact
<1>2. TypeOK /\ CountersExact /\ [Next]_vars => CountersExact'
  <2> SUFFICES ASSUME TypeOK, CountersExact, [Next]_vars
               PROVE  CountersExact'
    OBVIOUS
  <2>1. ASSUME NEW r \in Tasks, Starts(r)
        PROVE  CountersExact'
    BY <2>1, InFlightFinite, FS_AddElement DEF Starts, CountersExact
  <2>2. ASSUME NEW r \in Tasks, Ends(r)
        PROVE  CountersExact'
    BY <2>2, InFlightFinite, FS_RemoveElement
       DEF Ends, GiveBackSlots, CountersExact
  <2>3. CASE Keeps
    BY <2>3 DEF Keeps, depthVars, CountersExact
  <2> QED
    BY <2>1, <2>2, <2>3, StepOnSlots
<1> QED
  BY <1>1, <1>2, TypeCorrect, PTL DEF Spec

\* Neither lane ever exceeds its own bound, however the reported depths move.
THEOREM QueueIsBounded == Spec => []QueueBounded
<1>1. Init => QueueBounded
  <2> SUFFICES ASSUME Init
               PROVE  QueueBounded
    OBVIOUS
  <2>1. InFlight \ PriorityInFlight = {} /\ PriorityInFlight = {}
    BY TasksAssumption DEF Init, InFlight, PriorityInFlight
  <2> QED
    BY <2>1, FS_EmptySet, BoundsAssumption DEF QueueBounded
<1>2. TypeOK /\ CountersExact /\ QueueBounded /\ [Next]_vars => QueueBounded'
  <2> SUFFICES ASSUME TypeOK, CountersExact, QueueBounded, [Next]_vars
               PROVE  QueueBounded'
    OBVIOUS
  <2> DEFINE Normal == InFlight \ PriorityInFlight
  <2>1. ASSUME NEW r \in Tasks, Starts(r)
        PROVE  QueueBounded'
    <3>1. CASE r \in PriorityTasks
      <4>1. Normal' = Normal
        BY <2>1, <3>1 DEF Starts
      <4>2. priorityDepth < MAX_PRIORITY_QUEUE_DEPTH
        BY <2>1, <3>1, BoundsAssumption DEF Starts, PriorityLaneFull, TypeOK
      <4>3. Cardinality(PriorityInFlight') = priorityDepth + 1
        BY <2>1, <3>1, InFlightFinite, FS_AddElement DEF Starts, CountersExact
      <4>4. Cardinality(PriorityInFlight') <= MAX_PRIORITY_QUEUE_DEPTH
        <5> HIDE DEF Normal
        <5> QED
          BY <4>2, <4>3, BoundsAssumption DEF TypeOK
      <4>5. Cardinality(Normal') <= MAX_QUEUE_DEPTH
        BY <4>1 DEF QueueBounded
      <4> QED
        BY <4>4, <4>5 DEF QueueBounded
    <3>2. CASE r \notin PriorityTasks
      <4>1. Normal' = Normal \cup {r} /\ PriorityInFlight' = PriorityInFlight
        BY <2>1, <3>2 DEF Starts
      <4>2. queueDepth < MAX_QUEUE_DEPTH
        BY <2>1, <3>2, BoundsAssumption
           DEF Starts, QueueFull, ExemptFromShedding, TypeOK
      <4>3. Cardinality(Normal) <= Cardinality(InFlight)
        BY InFlightFinite, FS_Subset
      <4>4. Cardinality(Normal \cup {r}) <= Cardinality(Normal) + 1
        BY InFlightFinite, FS_AddElement
      <4> HIDE DEF Normal
      <4>5. Cardinality(Normal') <= MAX_QUEUE_DEPTH
        <5>1. Cardinality(Normal) \in Nat
          BY InFlightFinite DEF Normal
        <5>2. Cardinality(Normal') <= Cardinality(Normal) + 1
          BY <4>1, <4>4
        <5>3. Cardinality(Normal) <= queueDepth
          BY <4>3 DEF CountersExact
        <5>4. Cardinality(Normal') \in Nat
          BY InFlightFinite, <4>1, FS_AddElement, FS_CardinalityType DEF Normal
        <5> QED
          BY <5>1, <5>2, <5>3, <5>4, <4>2, BoundsAssumption DEF TypeOK
      <4> QED
        BY <4>1, <4>5 DEF QueueBounded, Normal
    <3> QED
      BY <3>1, <3>2
  <2>2. ASSUME NEW r \in Tasks, Ends(r)
        PROVE  QueueBounded'
    <3>1. Normal' \subseteq Normal /\ PriorityInFlight' \subseteq PriorityInFlight
      BY <2>2 DEF Ends, PriorityInFlight
    <3>2. /\ Cardinality(Normal') <= Cardinality(Normal)
          /\ Cardinality(PriorityInFlight') <= Cardinality(PriorityInFlight)
          /\ Cardinality(Normal') \in Nat
          /\ Cardinality(PriorityInFlight') \in Nat
      BY <3>1, InFlightFinite, FS_Subset, FS_CardinalityType
    <3> QED
      BY <3>2, InFlightFinite, BoundsAssumption DEF QueueBounded
  <2>3. CASE Keeps
    BY <2>3 DEF Keeps, QueueBounded
  <2> QED
    BY <2>1, <2>2, <2>3, StepOnSlots
<1> QED
  BY <1>1, <1>2, TypeCorrect, CountersAreExact, PTL DEF Spec

-----------------------------------------------------------------------------
(* The pacing of the line. *)

\* A request in its gap never wakes before the hardware minimum has passed.
THEOREM GapAlwaysCovered == Spec => []GapIsCovered
<1>1. Init => GapIsCovered
  BY DEF Init, GapIsCovered
<1>2. TypeOK /\ LockHeldByLiveRequest /\ GapIsCovered /\ [Next]_vars => GapIsCovered'
  <2> SUFFICES ASSUME TypeOK, LockHeldByLiveRequest, GapIsCovered, [Next]_vars
               PROVE  GapIsCovered'
    OBVIOUS
  <2> USE BoundsAssumption, TasksAssumption
          DEF TypeOK, LockHeldByLiveRequest, GapIsCovered, clockVars
  <2>1. ASSUME NEW r \in Tasks, Enter(r)
        PROVE  GapIsCovered'
    BY <2>1 DEF Enter, Outside, LockIsFree, TakeLock
  <2>2. ASSUME NEW r \in Tasks, LockAcquired(r)
        PROVE  GapIsCovered'
    BY <2>2 DEF LockAcquired, TakeLock
  <2>3. ASSUME NEW r \in Tasks, CancelInGap(r) \/ Exit(r)
        PROVE  GapIsCovered'
    BY <2>3 DEF CancelInGap, Exit
  <2>4. ASSUME NEW r \in Tasks, \/ Shed(r) \/ GapElapsed(r)
                                \/ AdmissionTimeout(r) \/ CancelWaiting(r)
        PROVE  GapIsCovered'
    BY <2>4 DEF Shed, GapElapsed, AdmissionTimeout, CancelWaiting
  <2>5. ASSUME NEW s \in Sources, Parameters(s)
        PROVE  GapIsCovered'
    BY <2>5 DEF Parameters, UpdateGap, UpdateMaxQueueDepth, RemoveSource
  <2>6. CASE Tick
    BY <2>6 DEF Tick
  <2>7. CASE AirtimeRecovers \/ UNCHANGED vars
    BY <2>7 DEF AirtimeRecovers, vars
  <2> QED
    BY <2>1, <2>2, <2>3, <2>4, <2>5, <2>6, <2>7 DEF Next, Request
<1> QED
  BY <1>1, <1>2, TypeCorrect, LockNeverLost, PTL DEF Spec

\* Every request starts talking to the device at least MIN_GAP after the one
\* before it ended.
THEOREM LineIsPaced == Spec => PacedLine
<1> DEFINE Paced == \A r \in Tasks : pc[r] # "serving" /\ pc'[r] = "serving"
                                     => sinceEnd >= MIN_GAP
<1>1. TypeOK /\ GapIsCovered /\ [Next]_vars => [Paced]_vars
  <2> SUFFICES ASSUME TypeOK, GapIsCovered, [Next]_vars, ~ UNCHANGED vars
               PROVE  Paced
    OBVIOUS
  <2> USE BoundsAssumption DEF TypeOK
  <2>1. ASSUME NEW r \in Tasks, Enter(r) \/ LockAcquired(r)
        PROVE  Paced
    BY <2>1 DEF Enter, LockAcquired, TakeLock
  <2>2. ASSUME NEW r \in Tasks, GapElapsed(r)
        PROVE  Paced
    BY <2>2 DEF GapElapsed, GapIsCovered
  <2>3. ASSUME NEW r \in Tasks, \/ Shed(r) \/ AdmissionTimeout(r)
                                \/ CancelWaiting(r) \/ CancelInGap(r) \/ Exit(r)
        PROVE  Paced
    BY <2>3 DEF Shed, AdmissionTimeout, CancelWaiting, CancelInGap, Exit
  <2>4. CASE (\E s \in Sources : Parameters(s)) \/ Tick \/ AirtimeRecovers
    BY <2>4 DEF Parameters, UpdateGap, UpdateMaxQueueDepth, RemoveSource, Tick,
                AirtimeRecovers
  <2> QED
    BY <2>1, <2>2, <2>3, <2>4 DEF Next, Request
<1> QED
  BY <1>1, TypeCorrect, GapAlwaysCovered, PTL DEF Spec, PacedLine
-----------------------------------------------------------------------------
(* The shared parameters. *)

\* The gap in force is at least, and the depth in force at most, what every
\* device now contributing asks for, and none stays in force when its device
\* is gone: for any number of devices reporting and leaving in any order.
THEOREM ParametersAreSafest == Spec => []SafestAggregate
<1>1. Init => SafestAggregate
  BY DEF Init, SafestAggregate
<1>2. TypeOK /\ SafestAggregate /\ [Next]_vars => SafestAggregate'
  <2> SUFFICES ASSUME TypeOK, SafestAggregate, [Next]_vars
               PROVE  SafestAggregate'
    OBVIOUS
  <2>1. ASSUME NEW s \in Sources, NEW gap \in GapReports, UpdateGap(s, gap)
        PROVE  SafestAggregate'
    <3>1. /\ effectiveGap' \in Contributions(gapOf')
          /\ \A c \in Contributions(gapOf') : c <= effectiveGap'
      BY <2>1 DEF UpdateGap, Greatest
    <3>2. \A t \in Sources : gapOf'[t] # 0 => gapOf'[t] \in Contributions(gapOf')
      BY DEF Contributions
    <3> QED
      BY <2>1, <3>1, <3>2 DEF UpdateGap, SafestAggregate, Contributions
  <2>2. ASSUME NEW s \in Sources, NEW depth \in DepthReports,
               UpdateMaxQueueDepth(s, depth)
        PROVE  SafestAggregate'
    <3>1. /\ maxQueueDepth' \in Contributions(depthOf')
          /\ \A c \in Contributions(depthOf') : maxQueueDepth' <= c
      BY <2>2 DEF UpdateMaxQueueDepth, Least
    <3> QED
      BY <2>2, <3>1 DEF UpdateMaxQueueDepth, SafestAggregate, Contributions
  <2>3. ASSUME NEW s \in Sources, RemoveSource(s)
        PROVE  SafestAggregate'
    <3>1. /\ effectiveGap' \in Contributions(gapOf') \cup {MIN_GAP}
          /\ \A c \in Contributions(gapOf') : c <= effectiveGap'
      BY <2>3 DEF RemoveSource, Greatest
    <3>2. /\ maxQueueDepth' \in Contributions(depthOf') \cup {MAX_QUEUE_DEPTH}
          /\ \A c \in Contributions(depthOf') : maxQueueDepth' <= c
      BY <2>3 DEF RemoveSource, Least
    <3>3. \A t \in Sources : /\ gapOf'[t] \in Int /\ depthOf'[t] \in Int
                             /\ gapOf'[t] # 0 => gapOf'[t] \in Contributions(gapOf')
                             /\ depthOf'[t] # 0
                                  => depthOf'[t] \in Contributions(depthOf')
      BY <2>3, BoundsAssumption DEF RemoveSource, TypeOK, Contributions
    <3>4. effectiveGap' \in Int
      BY <3>1, <3>3, BoundsAssumption DEF Contributions
    <3> QED
      BY <3>1, <3>2, <3>3, <3>4 DEF SafestAggregate
  <2>4. CASE UNCHANGED paramVars
    BY <2>4 DEF paramVars, SafestAggregate, Contributions
  <2>5. ASSUME NEW r \in Tasks, Request(r)
        PROVE  UNCHANGED paramVars
    BY <2>5 DEF Request, Shed, Enter, LockAcquired, GapElapsed, AdmissionTimeout,
                CancelWaiting, CancelInGap, Exit, paramVars
  <2>6. CASE Tick \/ AirtimeRecovers \/ UNCHANGED vars
    BY <2>4, <2>6 DEF Tick, AirtimeRecovers, vars, paramVars
  <2> QED
    BY <2>1, <2>2, <2>3, <2>4, <2>5, <2>6 DEF Next, Parameters
<1> QED
  BY <1>1, <1>2, TypeCorrect, PTL DEF Spec

-----------------------------------------------------------------------------
(* The order of the queue. *)

\* What is left of a sequence without its k-th element.
LEMMA RemoveAtProperties ==
    ASSUME NEW S, NEW s \in Seq(S), NEW k \in 1 .. Len(s)
    PROVE  /\ RemoveAt(s, k) \in Seq(S) /\ Len(RemoveAt(s, k)) = Len(s) - 1
           /\ \A i \in 1 .. Len(s) - 1 :
                 RemoveAt(s, k)[i] = IF i < k THEN s[i] ELSE s[i + 1]
<1> DEFINE n == Len(s)
           front == SubSeq(s, 1, k - 1)
           back  == SubSeq(s, k + 1, n)
<1>1. n \in Nat /\ DOMAIN s = 1 .. n /\ k \in 1 .. n /\ \A i \in 1 .. n : s[i] \in S
  OBVIOUS
<1>2. front \in Seq(S) /\ Len(front) = k - 1 /\ \A i \in 1 .. k - 1 : front[i] = s[i]
  <2>1. \A i \in 1 .. k - 1 : s[i] \in S
    BY <1>1
  <2>2. /\ front \in Seq(S)
        /\ Len(front) = IF 1 <= k - 1 THEN (k - 1) - 1 + 1 ELSE 0
        /\ \A i \in 1 .. (k - 1) - 1 + 1 : front[i] = s[1 + i - 1]
    BY <1>1, <2>1, SubSeqProperties
  <2>3. /\ (k - 1) - 1 + 1 = k - 1 /\ (1 <= k - 1 \/ k - 1 = 0)
        /\ \A i \in 1 .. k - 1 : 1 + i - 1 = i
    BY <1>1
  <2> HIDE DEF n, front
  <2> QED
    BY <2>2, <2>3
<1>3. back \in Seq(S) /\ Len(back) = n - k /\ \A i \in 1 .. n - k : back[i] = s[k + i]
  <2>1. \A i \in k + 1 .. n : s[i] \in S
    BY <1>1
  <2>2. /\ back \in Seq(S)
        /\ Len(back) = IF k + 1 <= n THEN n - (k + 1) + 1 ELSE 0
        /\ \A i \in 1 .. n - (k + 1) + 1 : back[i] = s[(k + 1) + i - 1]
    BY <1>1, <2>1, SubSeqProperties
  <2> HIDE DEF n, back
  <2>3. /\ n - (k + 1) + 1 = n - k /\ (k + 1 <= n \/ n - k = 0)
        /\ \A i \in 1 .. n - k : (k + 1) + i - 1 = k + i
    BY <1>1
  <2> QED
    BY <2>2, <2>3
<1>4. /\ RemoveAt(s, k) \in Seq(S) /\ Len(RemoveAt(s, k)) = Len(front) + Len(back)
      /\ \A i \in 1 .. Len(front) + Len(back) :
            RemoveAt(s, k)[i] = IF i <= Len(front) THEN front[i] ELSE back[i - Len(front)]
  <2>1. RemoveAt(s, k) = front \o back
    BY DEF RemoveAt
  <2>2. front \in Seq(S) /\ back \in Seq(S)
    BY <1>2, <1>3
  <2> HIDE DEF front, back
  <2>3. /\ front \o back \in Seq(S) /\ Len(front \o back) = Len(front) + Len(back)
        /\ \A i \in 1 .. Len(front) + Len(back) :
              (front \o back)[i] = IF i <= Len(front) THEN front[i] ELSE back[i - Len(front)]
    BY <2>2, ConcatProperties, Zenon
  <2> QED
    BY <2>1, <2>3, Zenon
<1> HIDE DEF n, front, back
<1>5. (k - 1) + (n - k) = n - 1
  BY <1>1
<1>6. ASSUME NEW i \in 1 .. n - 1
      PROVE  RemoveAt(s, k)[i] = IF i < k THEN s[i] ELSE s[i + 1]
  <2>1. RemoveAt(s, k)[i] = IF i <= k - 1 THEN front[i] ELSE back[i - (k - 1)]
    BY <1>2, <1>3, <1>4, <1>5
  <2>2. CASE i < k
    <3>1. i <= k - 1 /\ i \in 1 .. k - 1
      BY <1>1, <2>2
    <3> QED
      BY <1>2, <2>1, <2>2, <3>1
  <2>3. CASE ~(i < k)
    <3>1. ~(i <= k - 1) /\ i - (k - 1) \in 1 .. n - k /\ k + (i - (k - 1)) = i + 1
      BY <1>1, <2>3
    <3> QED
      BY <1>3, <2>1, <2>3, <3>1
  <2> QED
    BY <2>2, <2>3
<1> QED
  BY <1>2, <1>3, <1>4, <1>5, <1>6 DEF n

\* A position taken out of the queue: of a task that is queued once nothing stays.
LEMMA QueueShrinks ==
    ASSUME waiters \in Seq(Tasks), NEW r \in Tasks, LeaveQueue(r),
           \A i, j \in DOMAIN waiters : waiters[i] = waiters[j] => i = j
    PROVE  /\ \A t \in Tasks : Contains(waiters', t) <=> Contains(waiters, t) /\ t # r
           /\ \A i, j \in DOMAIN waiters' : waiters'[i] = waiters'[j] => i = j
<1>1. PICK k \in DOMAIN waiters : waiters[k] = r /\ waiters' = RemoveAt(waiters, k)
  BY DEF LeaveQueue
<1> DEFINE n == Len(waiters)
<1>2. /\ n \in Nat /\ DOMAIN waiters = 1 .. n /\ k \in 1 .. n
      /\ \A i, j \in 1 .. n : waiters[i] = waiters[j] => i = j
  BY <1>1
<1>3. /\ waiters' \in Seq(Tasks) /\ Len(waiters') = n - 1
      /\ \A i \in 1 .. n - 1 : waiters'[i] = IF i < k THEN waiters[i] ELSE waiters[i + 1]
  <2>1. k \in 1 .. Len(waiters)
    BY <1>2
  <2>2. LET rest == RemoveAt(waiters, k)
        IN  /\ rest \in Seq(Tasks) /\ Len(rest) = Len(waiters) - 1
            /\ \A i \in 1 .. Len(waiters) - 1 :
                  rest[i] = IF i < k THEN waiters[i] ELSE waiters[i + 1]
    BY <2>1, RemoveAtProperties
  <2> QED
    BY <1>1, <2>2
<1>4. DOMAIN waiters' = 1 .. n - 1
  BY <1>3
<1>5. Len(waiters) = n
  OBVIOUS
<1> HIDE DEF n
<1> DEFINE before(i) == IF i < k THEN i ELSE i + 1
<1>6. \A i \in 1 .. n - 1 : /\ waiters'[i] = waiters[before(i)] /\ before(i) \in 1 .. n
                            /\ before(i) # k
  BY <1>2, <1>3
<1>7. \A i, j \in 1 .. n - 1 : before(i) = before(j) => i = j
  <2>1. n \in Nat /\ k \in Nat
    BY <1>2
  <2> QED
    BY <2>1
<1>8. \A i \in 1 .. n : i # k => \E j \in 1 .. n - 1 : before(j) = i
  <2>1. \A i \in 1 .. n : i < k => i \in 1 .. n - 1 /\ before(i) = i
    BY <1>2
  <2>2. \A i \in 1 .. n : i > k => i - 1 \in 1 .. n - 1 /\ before(i - 1) = i
    BY <1>2
  <2>3. \A i \in 1 .. n : i # k => i < k \/ i > k
    BY <1>2
  <2> HIDE DEF before
  <2> QED
    BY <2>1, <2>2, <2>3, Zenon
<1> HIDE DEF before
<1>9. \A i, j \in DOMAIN waiters' : waiters'[i] = waiters'[j] => i = j
  BY <1>2, <1>4, <1>6, <1>7
<1>10. ASSUME NEW t \in Tasks
       PROVE  Contains(waiters', t) <=> Contains(waiters, t) /\ t # r
  <2>1. Contains(waiters', t) <=> \E i \in 1 .. n - 1 : waiters'[i] = t
    BY <1>3 DEF Contains
  <2>2. Contains(waiters, t) <=> \E i \in 1 .. n : waiters[i] = t
    BY <1>5 DEF Contains
  <2> QED
    BY <1>1, <1>2, <1>6, <1>8, <2>1, <2>2, SMTT(20)
<1> QED
  BY <1>9, <1>10

\* A task that queues behind the others.
LEMMA QueueGrows ==
    ASSUME waiters \in Seq(Tasks), NEW r \in Tasks, ~Contains(waiters, r),
           \A i, j \in DOMAIN waiters : waiters[i] = waiters[j] => i = j
    PROVE  /\ \A t \in Tasks : Contains(Append(waiters, r), t) <=> Contains(waiters, t) \/ t = r
           /\ \A i, j \in DOMAIN Append(waiters, r) :
                 Append(waiters, r)[i] = Append(waiters, r)[j] => i = j
<1> DEFINE n == Len(waiters)
           more == Append(waiters, r)
<1>1. /\ n \in Nat /\ DOMAIN waiters = 1 .. n
      /\ Len(more) = n + 1 /\ DOMAIN more = 1 .. n + 1
      /\ \A i \in 1 .. n : more[i] = waiters[i]
      /\ more[n + 1] = r
  OBVIOUS
<1>2. \A i \in 1 .. n : waiters[i] # r
  BY DEF Contains
<1> HIDE DEF n, more
<1>3. \A t \in Tasks : Contains(more, t) <=> Contains(waiters, t) \/ t = r
  <2>1. Len(waiters) = n
    BY DEF n
  <2>2. \A i \in 1 .. n + 1 : i \in 1 .. n \/ i = n + 1
    BY <1>1
  <2>3. n + 1 \in 1 .. n + 1 /\ \A i \in 1 .. n : i \in 1 .. n + 1
    BY <1>1
  <2> QED
    BY <1>1, <2>1, <2>2, <2>3, Zenon DEF Contains
<1>4. \A i, j \in DOMAIN more : more[i] = more[j] => i = j
  BY <1>1, <1>2
<1> QED
  BY <1>3, <1>4 DEF more

\* The first of the queue leaves it.
LEMMA QueueAdvances ==
    ASSUME waiters \in Seq(Tasks), waiters # << >>,
           \A i, j \in DOMAIN waiters : waiters[i] = waiters[j] => i = j
    PROVE  /\ \A t \in Tasks : Contains(Tail(waiters), t)
                               <=> Contains(waiters, t) /\ t # Head(waiters)
           /\ \A i, j \in DOMAIN Tail(waiters) :
                 Tail(waiters)[i] = Tail(waiters)[j] => i = j
<1> DEFINE n == Len(waiters)
           rest == Tail(waiters)
<1>1. /\ n \in Nat \ {0} /\ DOMAIN waiters = 1 .. n /\ Head(waiters) = waiters[1]
      /\ Len(rest) = n - 1 /\ DOMAIN rest = 1 .. n - 1
      /\ \A i \in 1 .. n - 1 : rest[i] = waiters[i + 1]
  OBVIOUS
<1>2. Len(waiters) = n
  OBVIOUS
<1> HIDE DEF n, rest
<1>3. ASSUME NEW t \in Tasks
      PROVE  Contains(rest, t) <=> Contains(waiters, t) /\ t # waiters[1]
  <2>1. Contains(rest, t) => Contains(waiters, t) /\ t # waiters[1]
    BY <1>1, <1>2, SMTT(20) DEF Contains
  <2>2. ASSUME Contains(waiters, t), t # waiters[1] PROVE Contains(rest, t)
    <3>1. PICK i \in 1 .. n : waiters[i] = t
      BY <1>2, <2>2 DEF Contains
    <3>2. i - 1 \in 1 .. n - 1 /\ (i - 1) + 1 = i
      BY <1>1, <2>2, <3>1
    <3> QED
      BY <1>1, <3>1, <3>2 DEF Contains
  <2> QED
    BY <2>1, <2>2
<1>4. ASSUME NEW i \in 1 .. n - 1, NEW j \in 1 .. n - 1, rest[i] = rest[j] PROVE i = j
  <2>1. i + 1 \in 1 .. n /\ j + 1 \in 1 .. n /\ (i + 1 = j + 1 => i = j)
    BY <1>1
  <2>2. waiters[i + 1] = waiters[j + 1]
    BY <1>1, <1>4
  <2> QED
    BY <1>1, <2>1, <2>2
<1> QED
  BY <1>1, <1>3, <1>4 DEF rest

\* The lock's queue is exactly the tasks that wait, however many of them give
\* up at once and in whatever order: none is forgotten, none woken twice.
THEOREM QueueHoldsTheWaiters == Spec => []QueueIsTheWaiters
<1>1. Init => QueueIsTheWaiters
  BY DEF Init, QueueIsTheWaiters, Contains
<1>2. TypeOK /\ QueueIsTheWaiters /\ [Next]_vars => QueueIsTheWaiters'
  <2> SUFFICES ASSUME TypeOK, QueueIsTheWaiters, [Next]_vars
               PROVE  QueueIsTheWaiters'
    OBVIOUS
  <2> DEFINE Waits(t) == pc[t] = "waiting"
  <2>0. /\ pc \in [Tasks -> PcStates] /\ waiters \in Seq(Tasks)
        /\ \A t \in Tasks : pc[t] = "waiting" <=> Contains(waiters, t)
        /\ \A i, j \in DOMAIN waiters : waiters[i] = waiters[j] => i = j
    BY DEF TypeOK, QueueIsTheWaiters
  <2>1. ASSUME UNCHANGED waiters, \A t \in Tasks : pc'[t] = "waiting" <=> pc[t] = "waiting"
        PROVE  QueueIsTheWaiters'
    BY <2>0, <2>1 DEF QueueIsTheWaiters, Contains
  <2>2. ASSUME NEW r \in Tasks, Enter(r)
        PROVE  QueueIsTheWaiters'
    <3>1. pc[r] # "waiting" /\ pc' \in [Tasks -> PcStates]
      BY <2>0, <2>2 DEF Enter, Outside, TakeLock
    <3>2. CASE LockIsFree /\ TakeLock(r) /\ UNCHANGED waiters
      BY <2>0, <2>1, <3>1, <3>2 DEF TakeLock
    <3>3. CASE waiters' = Append(waiters, r) /\ pc' = [pc EXCEPT ![r] = "waiting"]
      <4>1. ~Contains(waiters, r)
        BY <2>0, <3>1
      <4>2. \A t \in Tasks : pc'[t] = "waiting" <=> pc[t] = "waiting" \/ t = r
        BY <2>0, <3>3
      <4> QED
        BY <2>0, <3>3, <4>1, <4>2, QueueGrows, Zenon DEF QueueIsTheWaiters
    <3> QED
      BY <2>2, <3>2, <3>3 DEF Enter
  <2>3. ASSUME NEW r \in Tasks, LockAcquired(r)
        PROVE  QueueIsTheWaiters'
    <3>1. /\ waiters # << >> /\ Head(waiters) = r /\ waiters' = Tail(waiters)
          /\ \A t \in Tasks : pc'[t] = "waiting" <=> pc[t] = "waiting" /\ t # r
      BY <2>0, <2>3 DEF LockAcquired, TakeLock
    <3> QED
      BY <2>0, <3>1, QueueAdvances, Zenon DEF QueueIsTheWaiters
  <2>4. ASSUME NEW r \in Tasks, AdmissionTimeout(r) \/ CancelWaiting(r)
        PROVE  QueueIsTheWaiters'
    <3>1. /\ LeaveQueue(r)
          /\ \A t \in Tasks : pc'[t] = "waiting" <=> pc[t] = "waiting" /\ t # r
      BY <2>0, <2>4 DEF AdmissionTimeout, CancelWaiting
    <3> QED
      BY <2>0, <3>1, QueueShrinks, Zenon DEF QueueIsTheWaiters
  <2>5. ASSUME NEW r \in Tasks, Shed(r) \/ GapElapsed(r) \/ CancelInGap(r) \/ Exit(r)
        PROVE  QueueIsTheWaiters'
    BY <2>0, <2>1, <2>5 DEF Shed, Outside, GapElapsed, CancelInGap, Exit, lockVars
  <2>6. CASE (\E s \in Sources : Parameters(s)) \/ Tick \/ AirtimeRecovers \/ UNCHANGED vars
    BY <2>1, <2>6 DEF Parameters, UpdateGap, UpdateMaxQueueDepth, RemoveSource, Tick,
                      AirtimeRecovers, vars, lockVars
  <2> QED
    BY <2>2, <2>3, <2>4, <2>5, <2>6 DEF Next, Request
<1> QED
  BY <1>1, <1>2, TypeCorrect, PTL DEF Spec

\* First come, first served: whoever gets the lock was ahead of everybody who
\* goes on waiting, on the fast path as well, for any number of tasks.
THEOREM NobodyOvertakes == Spec => NoOvertaking
<1> DEFINE InOrder ==
      \A r, t \in Tasks :
          /\ holder # r /\ holder' = r
          /\ pc[t] = "waiting" /\ pc'[t] = "waiting"
          => /\ pc[r] = "waiting"
             /\ \A i, j \in DOMAIN waiters :
                    waiters[i] = r /\ waiters[j] = t => i < j
<1>1. TypeOK /\ QueueIsTheWaiters /\ [Next]_vars => [InOrder]_vars
  <2> SUFFICES ASSUME TypeOK, QueueIsTheWaiters, Next,
                      NEW r \in Tasks, NEW t \in Tasks, holder # r, holder' = r,
                      pc[t] = "waiting", pc'[t] = "waiting"
               PROVE  /\ pc[r] = "waiting"
                      /\ \A i, j \in DOMAIN waiters :
                             waiters[i] = r /\ waiters[j] = t => i < j
    OBVIOUS
  <2>1. waiters # << >>
    BY DEF QueueIsTheWaiters, Contains
  <2>2. \E q \in Tasks : holder' = q /\ (Enter(q) \/ LockAcquired(q)) /\ TakeLock(q)
    <3>1. ASSUME NEW q \in Tasks, Request(q)
          PROVE  holder' = q /\ (Enter(q) \/ LockAcquired(q)) /\ TakeLock(q)
      BY <3>1, TasksAssumption
         DEF Request, Shed, Enter, LockAcquired, TakeLock, GapElapsed, AdmissionTimeout,
             CancelWaiting, CancelInGap, Exit, lockVars
    <3>2. ~ ((\E s \in Sources : Parameters(s)) \/ Tick \/ AirtimeRecovers)
      BY DEF Parameters, UpdateGap, UpdateMaxQueueDepth, RemoveSource, Tick,
             AirtimeRecovers, lockVars
    <3> QED
      BY <3>1, <3>2 DEF Next
  <2>3. LockAcquired(r) /\ TakeLock(r)
    BY <2>1, <2>2 DEF Enter, LockIsFree, TakeLock
  <2>4. pc[r] = "waiting" /\ waiters[1] = r /\ t # r
    BY <2>1, <2>3 DEF LockAcquired, TakeLock, TypeOK
  <2>5. \A i, j \in DOMAIN waiters : waiters[i] = r /\ waiters[j] = t => i < j
    <3>1. /\ DOMAIN waiters = 1 .. Len(waiters) /\ Len(waiters) \in Nat
          /\ \A i, j \in DOMAIN waiters : waiters[i] = waiters[j] => i = j
      BY DEF TypeOK, QueueIsTheWaiters
    <3> QED
      BY <2>4, <3>1
  <2> QED
    BY <2>4, <2>5
<1> QED
  BY <1>1, TypeCorrect, QueueHoldsTheWaiters, PTL DEF Spec, NoOvertaking
=============================================================================
