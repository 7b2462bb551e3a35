----------------------------- MODULE ModbusGuard -----------------------------
(***************************************************************************)
(* The per-endpoint Modbus serialiser of src/modbus_guard.py: one          *)
(* ModbusGuard object shared by every task (coordinator poll, keep-alive   *)
(* probe, write) that talks to one physical bus.                           *)
(*                                                                         *)
(* A task runs `async with guard.request(...)`.  Its control point is      *)
(*   "idle"     not inside the context manager                             *)
(*   "waiting"  queued on guard._lock                   (__aenter__)       *)
(*   "gap"      holds the lock, sleeping out the inter-request gap         *)
(*   "serving"  admitted: the body of the `async with` talks to the device *)
(* and, once an attempt has failed and until the task tries again,         *)
(*   "shed"     ModbusQueueShed was raised to it                           *)
(*   "timedout" ModbusAdmissionTimeout was raised to it                    *)
(*   "cancelled" it was cancelled before admission: entry unload, or an    *)
(*              outer asyncio.timeout such as the whole-poll deadline      *)
(*                                                                         *)
(* Code between two awaits is one action.  Time is counted in ticks of the *)
(* gap clock; the 10 s admission timeout and the 10 s airtime window are   *)
(* nondeterministic (they may fire at any point where they could).         *)
(***************************************************************************)
EXTENDS Integers, Sequences, FiniteSets, SequencesExt

CONSTANTS
    Tasks,                    \* the tasks sharing the endpoint
    PriorityTasks,            \* those that call request(priority=True)
    Sources,                  \* device serial numbers that report parameters
    MAX_QUEUE_DEPTH,          \* deepest queue, 3 in the code
    MAX_PRIORITY_QUEUE_DEPTH, \* the priority lane's own bound, 4 in the code
    MIN_GAP,                  \* MIN_INTER_REQUEST_GAP, in ticks
    MAX_GAP,                  \* the 500 ms clamp, in ticks
    GapReports,               \* gaps a device may report, clamped or not
    DepthReports,             \* queue depths a device may report
    NoTask                    \* the lock is free

ASSUME TasksAssumption ==
    /\ IsFiniteSet(Tasks)
    /\ PriorityTasks \subseteq Tasks
    /\ NoTask \notin Tasks

ASSUME BoundsAssumption ==
    /\ MAX_QUEUE_DEPTH \in Nat \ {0}
    /\ MAX_PRIORITY_QUEUE_DEPTH \in Nat
    /\ MIN_GAP \in Nat \ {0}
    /\ MAX_GAP \in Nat
    /\ MIN_GAP <= MAX_GAP
    /\ GapReports \subseteq Int
    /\ DepthReports \subseteq Int

VARIABLES
    pc,             \* control point of each task
    waiters,        \* FIFO of tasks queued on guard._lock
    holder,         \* the task that holds guard._lock, or NoTask
    queueDepth,     \* _queue_depth
    priorityDepth,  \* _priority_queue_depth
    overBudget,     \* the priority lane has used up its airtime budget
    gapOf,          \* _gap_contributions, 0 for a source that has none
    depthOf,        \* _depth_contributions, 0 for a source that has none
    effectiveGap,   \* _effective_gap
    maxQueueDepth,  \* _max_queue_depth
    sinceEnd,       \* ticks since _last_request_end, at most MAX_GAP
    pause           \* ticks the lock holder still has to sleep

lockVars   == <<waiters, holder>>
depthVars  == <<queueDepth, priorityDepth>>
paramVars  == <<gapOf, depthOf, effectiveGap, maxQueueDepth>>
clockVars  == <<sinceEnd, pause>>
vars       == <<pc, lockVars, depthVars, overBudget, paramVars, clockVars>>

InFlightStates == {"waiting", "gap", "serving"}
PcStates       == InFlightStates \cup {"idle", "shed", "timedout", "cancelled"}

InFlight         == {r \in Tasks : pc[r] \in InFlightStates}
PriorityInFlight == {r \in PriorityTasks : pc[r] \in InFlightStates}

TypeOK ==
    /\ pc \in [Tasks -> PcStates]
    /\ waiters \in Seq(Tasks)
    /\ holder \in Tasks \cup {NoTask}
    /\ queueDepth \in Int
    /\ priorityDepth \in Int
    /\ overBudget \in BOOLEAN
    /\ gapOf \in [Sources -> {0} \cup (MIN_GAP .. MAX_GAP)]
    /\ depthOf \in [Sources -> {0} \cup (1 .. MAX_QUEUE_DEPTH)]
    /\ effectiveGap \in MIN_GAP .. MAX_GAP
    /\ maxQueueDepth \in 1 .. MAX_QUEUE_DEPTH
    /\ sinceEnd \in 0 .. MAX_GAP
    /\ pause \in 0 .. MAX_GAP

Init ==
    /\ pc = [r \in Tasks |-> "idle"]
    /\ waiters = << >>
    /\ holder = NoTask
    /\ queueDepth = 0
    /\ priorityDepth = 0
    /\ overBudget = FALSE
    /\ gapOf = [s \in Sources |-> 0]
    /\ depthOf = [s \in Sources |-> 0]
    /\ effectiveGap = MIN_GAP
    /\ maxQueueDepth = MAX_QUEUE_DEPTH
    /\ sinceEnd = MAX_GAP
    /\ pause = 0

-----------------------------------------------------------------------------
(* The shared parameters: the safest value over every contributing device. *)

\* Mutant: the upper bound of a report is forgotten.
ClampBelowOnly(lo, x, hi) == IF x < lo THEN lo ELSE x

Clamp(lo, x, hi) == IF x < lo THEN lo ELSE IF x > hi THEN hi ELSE x

Contributions(f) == {f[s] : s \in Sources} \ {0}

Greatest(S) == {x \in S : \A y \in S : y <= x}
Least(S)    == {x \in S : \A y \in S : x <= y}

\* Mutant (Defect P): whoever reports last overwrites the shared gap.
UpdateGapOverwrites(s, gap) ==
    /\ gapOf' = [gapOf EXCEPT ![s] = Clamp(MIN_GAP, gap, MAX_GAP)]
    /\ effectiveGap' = Clamp(MIN_GAP, gap, MAX_GAP)
    /\ UNCHANGED <<pc, lockVars, depthVars, overBudget,
                   depthOf, maxQueueDepth, clockVars>>

\* update_gap: the widest gap any contributor asks for.
UpdateGap(s, gap) ==
    /\ gapOf' = [gapOf EXCEPT ![s] = Clamp(MIN_GAP, gap, MAX_GAP)]
    /\ effectiveGap' \in Greatest(Contributions(gapOf'))
    /\ UNCHANGED <<pc, lockVars, depthVars, overBudget,
                   depthOf, maxQueueDepth, clockVars>>

\* update_max_queue_depth: the shallowest queue any contributor asks for.
UpdateMaxQueueDepth(s, depth) ==
    /\ depthOf' = [depthOf EXCEPT ![s] = Clamp(1, depth, MAX_QUEUE_DEPTH)]
    /\ maxQueueDepth' \in Least(Contributions(depthOf'))
    /\ UNCHANGED <<pc, lockVars, depthVars, overBudget,
                   gapOf, effectiveGap, clockVars>>

\* remove_source: the device's entry unloaded; defaults once nobody is left.
RemoveSource(s) ==
    /\ gapOf' = [gapOf EXCEPT ![s] = 0]
    /\ depthOf' = [depthOf EXCEPT ![s] = 0]
    /\ effectiveGap' \in IF Contributions(gapOf') = {} THEN {MIN_GAP}
                         ELSE Greatest(Contributions(gapOf'))
    /\ maxQueueDepth' \in IF Contributions(depthOf') = {} THEN {MAX_QUEUE_DEPTH}
                          ELSE Least(Contributions(depthOf'))
    /\ UNCHANGED <<pc, lockVars, depthVars, overBudget, clockVars>>

-----------------------------------------------------------------------------
(* asyncio.Lock.  release() resolves the future of the first waiter, which *)
(* takes the lock when it runs; a newcomer cannot barge while someone      *)
(* waits, and a woken waiter that is cancelled wakes the next one.         *)

\* Mutant: a newcomer may barge in front of a woken waiter.
LockIsUnheld == holder = NoTask

LockIsFree == holder = NoTask /\ waiters = << >>

\* Mutant: the sleep is one tick short.
TakeLockSleepsShort(r) ==
    /\ holder' = r
    /\ pause' = IF sinceEnd < effectiveGap THEN effectiveGap - sinceEnd - 1 ELSE 0
    /\ pc' = [pc EXCEPT ![r] = IF sinceEnd < effectiveGap THEN "gap" ELSE "serving"]

\* r has the lock: sleep out what is left of the gap, or go straight on.
TakeLock(r) ==
    /\ holder' = r
    /\ pause' = IF sinceEnd < effectiveGap THEN effectiveGap - sinceEnd ELSE 0
    /\ pc' = [pc EXCEPT ![r] = IF sinceEnd < effectiveGap THEN "gap" ELSE "serving"]

\* Mutant: a waiter that gave up stays queued.
StayQueued(r) == UNCHANGED waiters

LeaveQueue(r) ==
    \E i \in DOMAIN waiters : waiters[i] = r /\ waiters' = RemoveAt(waiters, i)

\* Mutant: the priority lane's counter is not given back.
GiveBackMainSlotOnly(r) ==
    /\ queueDepth' = queueDepth - 1
    /\ UNCHANGED priorityDepth

\* Every exit path gives back the queue slots the request took.
GiveBackSlots(r) ==
    /\ queueDepth' = queueDepth - 1
    /\ priorityDepth' = IF r \in PriorityTasks THEN priorityDepth - 1
                        ELSE priorityDepth

-----------------------------------------------------------------------------
(* __aenter__ *)

Outside(r) == pc[r] \notin InFlightStates

\* A priority request whose airtime budget is spent is weighed as a normal one.
ExemptFromShedding(r) == r \in PriorityTasks /\ ~overBudget

QueueFull(r) == ~ExemptFromShedding(r) /\ queueDepth >= maxQueueDepth

\* Mutant: off by one at the lane's bound.
PriorityLaneOverfull(r) ==
    r \in PriorityTasks /\ priorityDepth > MAX_PRIORITY_QUEUE_DEPTH

PriorityLaneFull(r) ==
    r \in PriorityTasks /\ priorityDepth >= MAX_PRIORITY_QUEUE_DEPTH

\* ModbusQueueShed, from either of the two checks.
Shed(r) ==
    /\ Outside(r)
    /\ QueueFull(r) \/ PriorityLaneFull(r)
    /\ pc' = [pc EXCEPT ![r] = "shed"]
    /\ UNCHANGED <<lockVars, depthVars, overBudget, paramVars, clockVars>>

\* The request takes its slots and either gets the lock at once or queues.
Enter(r) ==
    /\ Outside(r)
    /\ ~QueueFull(r)
    /\ ~PriorityLaneFull(r)
    /\ queueDepth' = queueDepth + 1
    /\ priorityDepth' = IF r \in PriorityTasks THEN priorityDepth + 1
                        ELSE priorityDepth
    /\ \/ /\ LockIsFree
          /\ TakeLock(r)
          /\ UNCHANGED waiters
       \/ /\ ~LockIsFree
          /\ waiters' = Append(waiters, r)
          /\ pc' = [pc EXCEPT ![r] = "waiting"]
          /\ UNCHANGED <<holder, pause>>
    /\ UNCHANGED <<overBudget, paramVars, sinceEnd>>

\* The first waiter runs after a release and takes the lock.
LockAcquired(r) ==
    /\ pc[r] = "waiting"
    /\ holder = NoTask
    /\ waiters # << >>
    /\ Head(waiters) = r
    /\ waiters' = Tail(waiters)
    /\ TakeLock(r)
    /\ UNCHANGED <<depthVars, overBudget, paramVars, sinceEnd>>

\* Mutant: the sleep is cut short.
GapIgnored(r) ==
    /\ pc[r] = "gap"
    /\ pc' = [pc EXCEPT ![r] = "serving"]
    /\ UNCHANGED <<lockVars, depthVars, overBudget, paramVars, clockVars>>

\* The inter-request sleep is over: admission is complete.
GapElapsed(r) ==
    /\ pc[r] = "gap"
    /\ pause = 0
    /\ pc' = [pc EXCEPT ![r] = "serving"]
    /\ UNCHANGED <<lockVars, depthVars, overBudget, paramVars, clockVars>>

\* QUEUE_WAIT_TIMEOUT expires on lock.acquire(): ModbusAdmissionTimeout.
AdmissionTimeout(r) ==
    /\ pc[r] = "waiting"
    /\ LeaveQueue(r)
    /\ GiveBackSlots(r)
    /\ pc' = [pc EXCEPT ![r] = "timedout"]
    /\ UNCHANGED <<holder, overBudget, paramVars, clockVars>>

\* CancelledError reaches lock.acquire().
CancelWaiting(r) ==
    /\ pc[r] = "waiting"
    /\ LeaveQueue(r)
    /\ GiveBackSlots(r)
    /\ pc' = [pc EXCEPT ![r] = "cancelled"]
    /\ UNCHANGED <<holder, overBudget, paramVars, clockVars>>

\* Mutant: `except Exception` instead of BaseException: the lock is kept.
CancelInGapKeepsLock(r) ==
    /\ pc[r] = "gap"
    /\ GiveBackSlots(r)
    /\ pause' = 0
    /\ pc' = [pc EXCEPT ![r] = "cancelled"]
    /\ UNCHANGED <<lockVars, overBudget, paramVars, sinceEnd>>

\* CancelledError reaches the gap sleep, with the lock already held.
CancelInGap(r) ==
    /\ pc[r] = "gap"
    /\ holder' = NoTask
    /\ GiveBackSlots(r)
    /\ pause' = 0
    /\ pc' = [pc EXCEPT ![r] = "cancelled"]
    /\ UNCHANGED <<waiters, overBudget, paramVars, sinceEnd>>

(* __aexit__: the body ended, in success, in an error or by cancellation.  *)
(* A priority request adds its service time to the window, which may put   *)
(* the lane over its airtime budget.                                       *)
Exit(r) ==
    /\ pc[r] = "serving"
    /\ sinceEnd' = 0
    /\ GiveBackSlots(r)
    /\ holder' = NoTask
    /\ pc' = [pc EXCEPT ![r] = "idle"]
    /\ IF r \in PriorityTasks THEN overBudget' \in BOOLEAN
                              ELSE UNCHANGED overBudget
    /\ UNCHANGED <<waiters, paramVars, pause>>

-----------------------------------------------------------------------------
(* Time. *)

\* One tick of the gap clock; ticks during service do not matter, because
\* Exit resets the clock.
Tick ==
    /\ sinceEnd < MAX_GAP
    /\ \A r \in Tasks : pc[r] # "serving"
    /\ sinceEnd' = sinceEnd + 1
    /\ pause' = IF pause > 0 THEN pause - 1 ELSE 0
    /\ UNCHANGED <<pc, lockVars, depthVars, overBudget, paramVars>>

\* The priority share of the window falls below the budget, or the window
\* rolls over.
AirtimeRecovers ==
    /\ overBudget
    /\ overBudget' = FALSE
    /\ UNCHANGED <<pc, lockVars, depthVars, paramVars, clockVars>>

Request(r) ==
    \/ Shed(r)
    \/ Enter(r)
    \/ LockAcquired(r)
    \/ GapElapsed(r)
    \/ AdmissionTimeout(r)
    \/ CancelWaiting(r)
    \/ CancelInGap(r)
    \/ Exit(r)

Parameters(s) ==
    \/ \E gap \in GapReports : UpdateGap(s, gap)
    \/ \E depth \in DepthReports : UpdateMaxQueueDepth(s, depth)
    \/ RemoveSource(s)

Next ==
    \/ \E r \in Tasks : Request(r)
    \/ \E s \in Sources : Parameters(s)
    \/ Tick
    \/ AirtimeRecovers

Spec == Init /\ [][Next]_vars

(* Fairness: the event loop runs a woken task, a sleep ends, and every     *)
(* device call is bounded by the caller's own timeout.  Nothing forces a   *)
(* task to issue a request, to time out or to be cancelled.                *)
Fairness ==
    /\ WF_vars(Tick)
    /\ \A r \in Tasks : /\ WF_vars(LockAcquired(r))
                        /\ WF_vars(GapElapsed(r))
                        /\ WF_vars(Exit(r))

FairSpec == Spec /\ Fairness

-----------------------------------------------------------------------------
(* Safety. *)

\* The task in the gap or on the line is the one that holds the lock, and a
\* held lock belongs to a live task: no exit path keeps it (the deadlock the
\* BaseException handler of __aenter__ is there to prevent).
LockHeldByLiveRequest ==
    /\ holder # NoTask => pc[holder] \in {"gap", "serving"}
    /\ \A r \in Tasks : pc[r] \in {"gap", "serving"} => holder = r

\* The two counters count exactly the requests in flight: no path through
\* admission, timeout, cancellation or completion leaks or returns a slot
\* twice, which would shed every later request or disable the bound.
CountersExact ==
    /\ queueDepth = Cardinality(InFlight)
    /\ priorityDepth = Cardinality(PriorityInFlight)

\* Whatever the interleaving and however the parameters move, normal requests
\* never hold more than MAX_QUEUE_DEPTH slots and priority ones never more
\* than their lane's bound (so the queue is bounded by the sum).
QueueBounded ==
    /\ Cardinality(PriorityInFlight) <= MAX_PRIORITY_QUEUE_DEPTH
    /\ Cardinality(InFlight \ PriorityInFlight) <= MAX_QUEUE_DEPTH

\* The queue of the lock holds every waiting task, once each: a waiter that
\* timed out or was cancelled is never woken and no waiter is forgotten.
QueueIsTheWaiters ==
    /\ \A r \in Tasks : pc[r] = "waiting" <=> Contains(waiters, r)
    /\ \A i, j \in DOMAIN waiters : waiters[i] = waiters[j] => i = j

\* While the holder sleeps out the gap, the time since the last request plus
\* the sleep that is left covers the hardware minimum.
GapIsCovered ==
    \A r \in Tasks : pc[r] = "gap" => sinceEnd + pause >= MIN_GAP

\* The parameters in force are the safest over the devices now contributing,
\* not those of whoever reported last (Defect P), and none outlives its source.
SafestAggregate ==
    /\ \A s \in Sources : /\ gapOf[s] # 0 => effectiveGap >= gapOf[s]
                          /\ depthOf[s] # 0 => maxQueueDepth <= depthOf[s]
    /\ effectiveGap \in Contributions(gapOf) \cup {MIN_GAP}
    /\ maxQueueDepth \in Contributions(depthOf) \cup {MAX_QUEUE_DEPTH}

-----------------------------------------------------------------------------
(* Action properties. *)

\* Nobody starts talking to the device sooner than the hardware minimum after
\* the previous request ended, however the gap moved, whoever was cancelled
\* in its gap and whichever path (fast lock or queue) led there.
PacedLine ==
    [][\A r \in Tasks : pc[r] # "serving" /\ pc'[r] = "serving"
                        => sinceEnd >= MIN_GAP]_vars

\* No overtaking: a task that was already waiting when another one came is
\* not still waiting when that later one gets the lock.
NoOvertaking ==
    [][\A r, t \in Tasks :
          /\ holder # r /\ holder' = r
          /\ pc[t] = "waiting" /\ pc'[t] = "waiting"
          => /\ pc[r] = "waiting"
             /\ \A i, j \in DOMAIN waiters :
                    waiters[i] = r /\ waiters[j] = t => i < j]_vars

-----------------------------------------------------------------------------
(* Liveness. *)

\* A task that queued for the bus leaves the queue: the lock is never lost
\* and every waiter is woken in turn, even if no admission timeout ever fires.
WaiterIsServed == \A r \in Tasks : (pc[r] = "waiting") ~> (pc[r] # "waiting")

-----------------------------------------------------------------------------
(* What the documentation promises and the code does not keep. *)

\* "the keep-alive probe must always be able to run regardless of how many
\* coordinators are waiting" (request()): a priority task is shed only when
\* the priority lane itself is full.
PriorityNeverShedByTheQueue ==
    [][\A r \in PriorityTasks :
          pc[r] # "shed" /\ pc'[r] = "shed" => PriorityLaneFull(r)]_vars
=============================================================================
