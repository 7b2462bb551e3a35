------------------------------ MODULE PollCycle ------------------------------
(***************************************************************************)
(* One poll of HuaweiSolarUpdateCoordinator (src/update_coordinator.py):   *)
(* _async_update_data and the chunked batch it runs, over the register     *)
(* cache seen through CacheContract.  Each phase is an await of the poll,  *)
(*   "idle"     no poll is running                                         *)
(*   "backoff"  asleep before a poll in back-off                           *)
(*   "asking"   waiting for admission by the bus guard                     *)
(*   "onwire"   batch_update of one chunk, inside the guard                *)
(*   "busy"     pausing after a 0x06 reply, before the chunk is retried    *)
(*   "pause"    between two chunks                                         *)
(* and the code between two awaits is one action, in particular the last   *)
(* chunk together with everything that follows it.  Between the awaits the *)
(* keep-alive may report the link lost or restored, values may expire, and *)
(* the whole poll may be cancelled.  Home Assistant runs one poll of a     *)
(* coordinator at a time (its debouncer's lock).                           *)
(***************************************************************************)
EXTENDS CacheContract

CONSTANTS
    Fast, Normal,               \* tiers; the rest is SLOW or STATIC
    Energy,                     \* is_energy_counter
    ChunkOf,                    \* rank of the chunk a register is read in
    MAX_CONSECUTIVE_TIMEOUTS,
    TIMEOUT_CAP,                \* bound on the counter, beyond the threshold
    BUSY_MAX_RETRIES,
    BACKOFF_NORMAL_DIVISOR

ASSUME PollAssumption ==
    /\ Fast \cup Normal \cup Energy \subseteq Registers
    /\ Fast \cap Normal = {} /\ (Fast \cup Normal) \cap Static = {}
    /\ ChunkOf \in [Registers -> Nat]
    /\ Values \subseteq Nat
    /\ MAX_CONSECUTIVE_TIMEOUTS \in Nat \ {0}
    /\ TIMEOUT_CAP \in Nat /\ TIMEOUT_CAP > MAX_CONSECUTIVE_TIMEOUTS
    /\ BUSY_MAX_RETRIES \in Nat
    /\ BACKOFF_NORMAL_DIVISOR \in Nat \ {0}

VARIABLES
    phase,          \* where the poll is
    batch,          \* names passed to _execute_batch (before: names due)
    todo,           \* names of the chunks not yet finished
    fresh,          \* merged: what this poll has read
    recorded,       \* recorded_names
    prior,          \* energy counters served positive before this poll's reads
    busyRetries,
    failure,        \* first_failure; after the poll, how it ended
    outcome,        \* history: what this poll recorded for each register
    timeouts,       \* _consecutive_timeouts, at most TIMEOUT_CAP
    backoffCycle,   \* _backoff_cycle modulo BACKOFF_NORMAL_DIVISOR
    data,           \* coordinator.data, what the entities show
    available,      \* last_update_success
    calm            \* environment: bus, link and device are fine, for now

batchVars == <<batch, todo, fresh, recorded, prior, busyRetries>>
entityVars == <<data, available>>
pollVars == <<phase, batchVars, failure, outcome>>
vars == <<cacheVars, pollVars, timeouts, backoffCycle, entityVars, calm>>

Phases == {"idle", "backoff", "asking", "onwire", "busy", "pause"}
TimeoutKinds == {"shed", "admission", "timeout"}
Failures == TimeoutKinds \cup {"none", "illegal", "device", "cancelled"}

InBatch == phase \in {"asking", "onwire", "busy", "pause"}

\* What is being read is part of what is left, nothing is left between polls,
\* and what was read or recorded belongs to the batch.
TypeOK ==
    /\ ContractTypeOK
    /\ phase \in Phases
    /\ batch \subseteq Registers /\ todo \subseteq batch /\ recorded \subseteq batch
    /\ DOMAIN fresh \subseteq recorded /\ \A n \in DOMAIN fresh : fresh[n] \in Values
    /\ recorded \cap todo = {}
    /\ prior \subseteq Energy \cap batch
    /\ busyRetries \in 0 .. BUSY_MAX_RETRIES
    /\ failure \in Failures
    /\ outcome \in [Registers -> {"none", "owed", "read", "missed", "twice"}]
    /\ timeouts \in 0 .. TIMEOUT_CAP
    /\ backoffCycle \in 0 .. BACKOFF_NORMAL_DIVISOR - 1
    /\ data \in [Registers -> Values \cup {NoValue}]
    /\ available \in BOOLEAN /\ calm \in BOOLEAN
    /\ phase = "idle" => batch = {}
    /\ InBatch => todo # {}

Init ==
    /\ ContractInit
    /\ phase = "idle"
    /\ batch = {} /\ todo = {} /\ fresh = << >> /\ recorded = {} /\ prior = {}
    /\ busyRetries = 0
    /\ failure = "none"
    /\ outcome = [n \in Registers |-> "none"]
    /\ timeouts = 0
    /\ backoffCycle = 0
    /\ data = [n \in Registers |-> NoValue]
    /\ available = TRUE
    /\ calm \in BOOLEAN

-----------------------------------------------------------------------------
(* Helpers. *)

\* What merge and the stale-cache fallback take from the cache.
Served(v, s) == [n \in Registers |-> IF Servable(s[n]) THEN v[n] ELSE NoValue]

Record(o, names, what) ==
    [n \in Registers |-> IF n \notin names THEN o[n]
                         ELSE IF o[n] = "owed" THEN what ELSE "twice"]

Owed(names) == [n \in Registers |-> IF n \in names THEN "owed" ELSE "none"]

\* merged.update(results): what was read replaces and adds.
Merged(f, results) ==
    [n \in DOMAIN f \cup DOMAIN results |-> IF n \in DOMAIN results THEN results[n] ELSE f[n]]

\* The names of the first chunk that is left, in address order.
Chunk == {n \in todo : \A m \in todo : ChunkOf[n] <= ChunkOf[m]}

\* The pre-poll snapshot of the suspicious-zero guard, and what it catches.
PositivePrior(names) ==
    {n \in names \cap Energy : Servable(status[n]) /\ value[n] > 0}

Suspicious(f) == {n \in DOMAIN f \cap prior : f[n] = 0}

InBackoff == timeouts >= MAX_CONSECUTIVE_TIMEOUTS

\* _pick_backoff_canary: a FAST register that has been read, or else any.
Canaries ==
    LET cachedFast == {n \in Fast : status[n] # "never"} IN
    IF cachedFast # {} THEN cachedFast ELSE Registers

\* Mutant (Defect T): in back-off nothing is forced through.
WithoutCanary(names, canary) == names

WithCanary(names, canary) == IF names = {} THEN {canary} ELSE names

\* The one starved register promoted past the deferral: one that was never
\* read goes first (overdue without limit), otherwise perhaps one that is
\* overdue by more than its ceiling.
Promotions(starvable) ==
    LET never == {n \in starvable : status[n] = "never"} IN
    IF never # {} THEN {{n} : n \in never} ELSE {{}} \cup {{n} : n \in starvable}

-----------------------------------------------------------------------------
(* The end of a poll: everything after _execute_batch, and its bookkeeping. *)

\* Mutant: the guard blanks the cache entry but leaves the zero in `fresh`.
PollSucceedsWithZero(v, s, f) ==
    LET s2 == [n \in Registers |-> IF n \in Suspicious(f) THEN AfterInvalidate(s[n])
                                   ELSE s[n]]
    IN  /\ value' = v /\ status' = s2
        /\ data' = [n \in Registers |-> IF n \in DOMAIN f THEN f[n]
                                        ELSE Served(v, s2)[n]]
        /\ available' = TRUE /\ timeouts' = 0 /\ backoffCycle' = 0

\* Steps 10 and 11: counters reset, suspicious zeros dropped, merge.
PollSucceeds(v, s, f) ==
    LET s2 == [n \in Registers |-> IF n \in Suspicious(f) THEN AfterInvalidate(s[n])
                                   ELSE s[n]]
    IN  /\ value' = v
        /\ status' = s2
        /\ data' = [n \in Registers |-> IF n \in DOMAIN f \ Suspicious(f) THEN f[n]
                                        ELSE Served(v, s2)[n]]
        /\ available' = TRUE
        /\ timeouts' = 0
        /\ backoffCycle' = 0

\* The except branches: sheds and admission timeouts count like timeouts;
\* the cache answers for the device unless the address is illegal or the
\* cache has nothing (UpdateFailed).
PollFails(v, s, kind) ==
    /\ value' = v
    /\ status' = s
    /\ timeouts' = IF kind \in TimeoutKinds /\ timeouts < TIMEOUT_CAP
                   THEN timeouts + 1 ELSE timeouts
    /\ UNCHANGED backoffCycle
    /\ IF kind = "illegal" \/ \A n \in Registers : ~Servable(s[n])
       THEN available' = FALSE /\ UNCHANGED data
       ELSE available' = TRUE /\ data' = Served(v, s)

ForgetBatch ==
    /\ phase' = "idle"
    /\ batch' = {} /\ todo' = {} /\ fresh' = << >> /\ recorded' = {} /\ prior' = {}
    /\ busyRetries' = 0

\* Mutant (before F03): what the deadline left unread is not reconciled.
EndBatchUnreconciled(v, s, f, rec, out, fail) ==
    LET verdict == IF batch \ rec # {} /\ fail = "none" THEN "timeout" ELSE fail IN
    /\ IF verdict = "none" THEN PollSucceeds(v, s, f) ELSE PollFails(v, s, verdict)
    /\ outcome' = out
    /\ failure' = verdict
    /\ ForgetBatch

\* The end of _execute_batch: what was neither read nor recorded is a miss,
\* and a device timeout if nothing had failed before.
EndBatch(v, s, f, rec, out, fail) ==
    LET missing == batch \ rec
        verdict == IF missing # {} /\ fail = "none" THEN "timeout" ELSE fail
    IN  \E gone \in MayExpire(s, missing) :
            LET s2 == MissedStatuses(s, missing, gone) IN
            /\ IF verdict = "none" THEN PollSucceeds(v, s2, f)
                                   ELSE PollFails(v, s2, verdict)
            /\ outcome' = Record(out, missing, "missed")
            /\ failure' = verdict
            /\ ForgetBatch

\* A chunk is finished, one way or the other: on to the next, or to the end.
AfterChunk(v, s, f, rec, out, fail) ==
    LET left == todo \ Chunk IN
    IF left = {} THEN EndBatch(v, s, f, rec, out, fail)
    ELSE /\ value' = v /\ status' = s
         /\ fresh' = f /\ recorded' = rec /\ outcome' = out /\ failure' = fail
         /\ todo' = left
         /\ busyRetries' = 0
         /\ phase' = "pause"
         /\ UNCHANGED <<batch, prior, timeouts, backoffCycle, entityVars>>

-----------------------------------------------------------------------------
(* The start of a poll. *)

\* Mutant: filter_stale leaves out what is BAD, as it is not served anyway.
StaleSetsWithoutBad ==
    {stale \in SUBSET Registers :
        \A n \in Registers : /\ status[n] \in {"never", "uncertain"} => n \in stale
                             /\ status[n] \in {"expired", "pending"} => n \notin stale}

\* filter_stale: whatever is not GOOD, and what its TTL makes due.
StaleSets ==
    {stale \in SUBSET Registers :
        \A n \in Registers : status[n] # "good" => n \in stale}

\* An early return with the cached snapshot: nothing is read.
ServeCached ==
    /\ data' = Served(value, status)
    /\ available' = TRUE

\* Step 4: everything is fresh and there is no back-off to leave.
FullyCached ==
    /\ phase = "idle"
    /\ ~InBackoff
    /\ {} \in StaleSets
    /\ ServeCached
    /\ failure' = "none"
    /\ outcome' = Owed({})
    /\ UNCHANGED <<cacheVars, phase, batchVars, timeouts, backoffCycle, calm>>

\* Outside back-off the whole stale set is read.
StartBatch ==
    /\ phase = "idle"
    /\ ~InBackoff
    /\ \E stale \in StaleSets \ {{}} :
          /\ batch' = stale
          /\ todo' = stale
          /\ prior' = PositivePrior(stale)
          /\ outcome' = Owed(stale)
    /\ phase' = "asking"
    /\ failure' = "none"
    /\ backoffCycle' = 0
    /\ UNCHANGED <<cacheVars, fresh, recorded, busyRetries, timeouts, entityVars, calm>>

\* In back-off the poll first sleeps; a canary stands in for an empty set.
StartBackoff ==
    /\ phase = "idle"
    /\ InBackoff
    /\ \E stale \in StaleSets, canary \in Canaries :
          LET names == WithCanary(stale, canary) IN
          /\ outcome' = Owed(names)
          /\ IF names = {}
             THEN ServeCached /\ UNCHANGED <<phase, batch, backoffCycle>>
             ELSE /\ phase' = "backoff"
                  /\ batch' = names
                  /\ backoffCycle' = (backoffCycle + 1) % BACKOFF_NORMAL_DIVISOR
                  /\ UNCHANGED entityVars
    /\ failure' = "none"
    /\ UNCHANGED <<cacheVars, todo, fresh, recorded, prior, busyRetries, timeouts, calm>>

\* Step 5 after the sleep: FAST, NORMAL on its turn, one starved register and,
\* if that is nothing, a canary; the others are recorded as deferred.
BackoffWakes ==
    /\ phase = "backoff"
    /\ LET kept == {n \in batch : \/ n \in Fast
                                  \/ n \in Normal /\ backoffCycle = 0}
           starvable == (batch \ kept) \ (Normal \ Energy)
       IN  \E promoted \in Promotions(starvable), canary \in Canaries :
              LET names == WithCanary(kept \cup promoted, canary)
                  deferred == batch \ names
              IN  /\ Miss(deferred)
                  /\ outcome' = Record([n \in Registers |-> IF n \in names THEN "owed"
                                                            ELSE outcome[n]],
                                       deferred, "missed")
                  /\ IF names = {}
                     THEN /\ data' = Served(value, status')
                          /\ available' = TRUE
                          /\ phase' = "idle" /\ batch' = {}
                          /\ UNCHANGED <<todo, prior>>
                     ELSE /\ batch' = names
                          /\ todo' = names
                          /\ prior' = PositivePrior(names)
                          /\ phase' = "asking"
                          /\ UNCHANGED entityVars
    /\ UNCHANGED <<fresh, recorded, busyRetries, failure, timeouts, backoffCycle, calm>>

-----------------------------------------------------------------------------
(* The chunks. *)

Admitted ==
    /\ phase = "asking"
    /\ phase' = "onwire"
    /\ UNCHANGED <<cacheVars, batchVars, failure, outcome, timeouts, backoffCycle,
                   entityVars, calm>>

\* batch_update answered: stored at once, with no await after the guard.
ChunkAnswered(results) ==
    /\ phase = "onwire"
    /\ AfterChunk(StoredValues(value, results), StoredStatuses(status, results),
                  Merged(fresh, results), recorded \cup Chunk,
                  Record(outcome, Chunk, "read"), failure)
    /\ UNCHANGED calm

\* Mutant: a failed chunk is not added to recorded_names.
ChunkFailsUnrecorded(kind) ==
    \E gone \in MayExpire(status, Chunk) :
        AfterChunk(value, MissedStatuses(status, Chunk, gone), fresh, recorded,
                   Record(outcome, Chunk, "missed"),
                   IF failure = "none" THEN kind ELSE failure)

\* The chunk failed: its registers are recorded, the other chunks still run.
ChunkFails(kind) ==
    \E gone \in MayExpire(status, Chunk) :
        AfterChunk(value, MissedStatuses(status, Chunk, gone), fresh,
                   recorded \cup Chunk, Record(outcome, Chunk, "missed"),
                   IF failure = "none" THEN kind ELSE failure)

\* The guard sheds the request or its admission times out.
Refused(kind) ==
    /\ phase = "asking"
    /\ ~calm
    /\ ChunkFails(kind)
    /\ UNCHANGED calm

ReadFails(kind) ==
    /\ phase = "onwire"
    /\ ~calm
    /\ ChunkFails(kind)
    /\ UNCHANGED calm

\* Mutant: off by one in the number of retries.
DeviceBusyOnceMore ==
    /\ phase = "onwire"
    /\ ~calm
    /\ busyRetries <= BUSY_MAX_RETRIES
    /\ busyRetries' = busyRetries + 1
    /\ phase' = "busy"
    /\ UNCHANGED <<cacheVars, batch, todo, fresh, recorded, prior, failure, outcome,
                   timeouts, backoffCycle, entityVars, calm>>

\* Mutant: the retries are not counted.
DeviceBusyForever ==
    /\ phase = "onwire"
    /\ ~calm
    /\ phase' = "busy"
    /\ UNCHANGED <<cacheVars, batchVars, failure, outcome,
                   timeouts, backoffCycle, entityVars, calm>>

\* 0x06: the chunk is retried a bounded number of times.
DeviceBusy ==
    /\ phase = "onwire"
    /\ ~calm
    /\ busyRetries < BUSY_MAX_RETRIES
    /\ busyRetries' = busyRetries + 1
    /\ phase' = "busy"
    /\ UNCHANGED <<cacheVars, batch, todo, fresh, recorded, prior, failure, outcome,
                   timeouts, backoffCycle, entityVars, calm>>

\* The pause is over: ask for the bus again, or for the first time.
AskAgain ==
    /\ phase \in {"busy", "pause"}
    /\ phase' = "asking"
    /\ UNCHANGED <<cacheVars, batchVars, failure, outcome, timeouts, backoffCycle,
                   entityVars, calm>>

\* BATCH_POLL_DEADLINE fires at whatever the batch is awaiting.
Deadline ==
    /\ InBatch
    /\ ~calm
    /\ EndBatch(value, status, fresh, recorded, outcome, failure)
    /\ UNCHANGED calm

\* CancelledError from outside (setup timeout, unload): nothing is concluded.
Cancelled ==
    /\ phase # "idle"
    /\ ~calm
    /\ ForgetBatch
    /\ failure' = "cancelled"
    /\ UNCHANGED <<cacheVars, outcome, timeouts, backoffCycle, entityVars, calm>>

-----------------------------------------------------------------------------
(* Around the poll. *)

\* on_connection_lost
ConnectionLost ==
    /\ ~calm
    /\ LoseLink
    /\ UNCHANGED <<pollVars, timeouts, backoffCycle, entityVars, calm>>

\* on_connection_restored
ConnectionRestored ==
    /\ timeouts' = 0
    /\ UNCHANGED <<cacheVars, pollVars, backoffCycle, entityVars, calm>>

\* What this poll has read cannot expire before it ends: the deadline is
\* shorter than every limit.
TimePasses ==
    /\ Expire(Registers \ DOMAIN fresh)
    /\ UNCHANGED <<pollVars, timeouts, backoffCycle, entityVars, calm>>

Weather ==
    /\ calm' = ~calm
    /\ UNCHANGED <<cacheVars, pollVars, timeouts, backoffCycle, entityVars>>

StartPoll == FullyCached \/ StartBatch \/ StartBackoff

\* Something answers every await of the poll: the guard, the device, a timer.
PollStep ==
    \/ BackoffWakes
    \/ Admitted
    \/ \E kind \in {"shed", "admission"} : Refused(kind)
    \/ \E results \in [Chunk -> Values] : ChunkAnswered(results)
    \/ \E kind \in {"timeout", "illegal", "device"} : ReadFails(kind)
    \/ DeviceBusy
    \/ AskAgain
    \/ Deadline

Environment == ConnectionLost \/ ConnectionRestored \/ TimePasses \/ Weather

Next == StartPoll \/ PollStep \/ Cancelled \/ Environment

Spec == Init /\ [][Next]_vars

(* Fairness: Home Assistant keeps polling, and every await of a poll ends: *)
(* the guard admits or refuses, a read is bounded by its chunk timeout,    *)
(* sleeps end.  Nothing is assumed of the environment.                     *)
Fairness == WF_vars(StartPoll) /\ WF_vars(PollStep)

FairSpec == Spec /\ Fairness

-----------------------------------------------------------------------------
(* Safety. *)

\* Every register a poll was to deliver is accounted for exactly once: read,
\* or recorded as missed (its chunk failed, back-off deferred it, or the
\* deadline cut it off), wherever the poll stopped.  The expiry rule counts
\* "consecutive polls that did not deliver this register", so a register
\* recorded twice would be blanked by a single bad poll, and one recorded
\* nowhere would stay trusted (F03).
AccountedOnce ==
    /\ \A n \in Registers : outcome[n] # "twice"
    /\ phase = "idle" /\ failure # "cancelled" => \A n \in Registers : outcome[n] # "owed"

\* No silent trust: a register that was due and not read is not GOOD, from the
\* moment its chunk fails or the poll ends, and until it is read again; only
\* what the poll read, or had no reason to read, is.
UnreadIsNotGood ==
    \A n \in Registers :
        \/ outcome[n] = "missed"
        \/ outcome[n] = "owed" /\ phase = "idle" /\ failure # "cancelled"
        => status[n] # "good"

\* A poll ends: it leaves the awaits without being cancelled.
Ends == phase # "idle" /\ phase' = "idle" /\ failure' # "cancelled"

\* At the end of every poll that publishes, what the entities see is what the
\* cache is willing to serve: `fresh` and the cache are two copies of what was
\* read, and the zero guard, a link loss between two chunks or a partial
\* failure must not make them tell different stories.
PublishesWhatItTrusts ==
    [][Ends /\ available' => data' = Served(value', status')]_vars

\* The suspicious-zero guard: after a poll that succeeded, an energy counter
\* that was positive before it is neither published as zero nor left as a
\* trusted zero in the cache.
ZeroGuarded ==
    [][Ends /\ failure' = "none" =>
          \A n \in prior : data'[n] # 0 /\ (Servable(status'[n]) => value'[n] # 0)]_vars

-----------------------------------------------------------------------------
(* Liveness. *)

\* Defect T: a coordinator cannot be wedged in back-off: once bus and device
\* answer for good, it leaves back-off for good, whatever the TTLs make due.
BackoffEnds == <>[]calm => <>[](~InBackoff)

\* And every register is delivered again and again: no state of its cache
\* entry (never read, pending, expired) keeps it from being polled.
EveryRegisterRefreshed ==
    <>[]calm => \A n \in Registers : []<>(status[n] = "good" \/ outcome[n] = "read")

\* A poll always ends, even if the device answers BUSY for ever.
PollTerminates == (phase # "idle") ~> (phase = "idle")

-----------------------------------------------------------------------------
(* What the documentation promises and the code does not keep. *)

\* "Energy counter registers must not be served from a stale cache fallback
\* after a Modbus timeout, nor accept a suspicious live zero"
\* (is_energy_counter): also when another chunk of the poll fails.
NoZeroThroughFallback ==
    [][Ends /\ available' => \A n \in prior : data'[n] # 0]_vars
=============================================================================
