------------------------------ MODULE SyncPower ------------------------------
(***************************************************************************)
(* The synchronised power reading of                                       *)
(* src/synchronized_power_coordinator.py: up to four sources, each taken   *)
(* from the cache of its regular coordinator or read on the bus, combined  *)
(* into one reading that says whether its parts belong together.           *)
(* The caches change under it whenever it waits for the bus.  Capture      *)
(* times are modelled by ages.  A cached value that is not a number counts *)
(* as no value.                                                            *)
(***************************************************************************)
EXTENDS Integers, Sequences

CONSTANTS
    ReadOrder,  \* the installed sources: inverter 1, meter, battery, inverter 2
    TOLERANCE,  \* SYNC_POWER_CACHE_ALIGNMENT_TOLERANCE_S
    DEADLINE,   \* SYNC_POWER_POLL_DEADLINE
    ReadLimit,  \* QUEUE_WAIT_TIMEOUT and update_timeout together
    MaxAge,     \* bound: a cached value is refreshed or blanked by this age
    None        \* no value

Sources == {ReadOrder[i] : i \in DOMAIN ReadOrder}

ASSUME SyncAssumption ==
    /\ ReadOrder \in Seq(Sources) /\ ReadOrder # << >>
    /\ \A i, j \in DOMAIN ReadOrder : ReadOrder[i] = ReadOrder[j] => i = j
    /\ TOLERANCE \in Nat /\ DEADLINE \in Nat \ {0} /\ ReadLimit \in Nat /\ MaxAge \in Nat
    /\ None \notin Nat

VARIABLES
    cache,      \* quality and age of each source in its regular cache
    dedicated,  \* _dedicated_reads_enabled
    phase,      \* "idle"; "next": about to take a source; "reading" it
    turn,       \* position in ReadOrder
    taken,      \* age of what this poll took for each source, or None
    oldest, newest,     \* ages of first_capture_at and last_capture_at
    elapsed,    \* since the poll started
    waited,     \* since this read was requested
    failing,    \* _consecutive_failures > 0
    result,     \* what the poll that has just ended returned, forgotten at once
    fresh       \* history: sources GOOD in their cache since that poll started

NoResult == [kind |-> "none", uncertain |-> FALSE, age |-> [s \in Sources |-> None]]

poll == <<phase, turn, taken, oldest, newest, elapsed, waited>>
vars == <<cache, dedicated, poll, failing, result, fresh>>

Now     == ReadOrder[turn]
Good(s)   == cache[s].quality = "GOOD"
Served(s) == cache[s].quality # "BAD"
GoodNow   == {s \in Sources : Good(s)}
Bad       == [age |-> 0, quality |-> "BAD"]
Nothing   == [s \in Sources |-> None]
Ages      == 0 .. MaxAge + ReadLimit + DEADLINE

TypeOK ==
    /\ cache \in [Sources -> [age : 0 .. MaxAge, quality : {"GOOD", "UNCERTAIN", "BAD"}]]
    /\ dedicated \in BOOLEAN /\ failing \in BOOLEAN
    /\ phase \in {"idle", "next", "reading"}
    /\ turn \in 1 .. Len(ReadOrder) + 1
    /\ taken \in [Sources -> Ages \cup {None}]
    /\ oldest = None <=> newest = None
    /\ oldest # None => oldest \in Ages /\ newest \in 0 .. oldest
    /\ \A s \in Sources : taken[s] # None => oldest # None /\ taken[s] \in newest .. oldest
    /\ elapsed \in Nat /\ waited \in 0 .. ReadLimit
    /\ result \in [kind : {"none", "failed", "data"}, uncertain : BOOLEAN,
                   age : [Sources -> Ages \cup {None}]]
    /\ fresh \subseteq Sources

Init ==
    /\ cache = [s \in Sources |-> Bad]
    /\ dedicated \in BOOLEAN
    /\ phase = "idle" /\ turn = 1 /\ taken = Nothing
    /\ oldest = None /\ newest = None /\ elapsed = 0 /\ waited = 0
    /\ failing = FALSE
    /\ result = NoResult
    /\ fresh = {}

-----------------------------------------------------------------------------
(* The regular caches, as their coordinators leave them. *)

Changed(s, entry) ==
    /\ phase # "next"
    /\ cache' = [cache EXCEPT ![s] = entry]
    /\ fresh' = IF phase = "idle" THEN {}
                ELSE IF entry.quality = "GOOD" THEN fresh ELSE fresh \ {s}
    /\ result' = NoResult
    /\ UNCHANGED <<dedicated, poll, failing>>

Refreshed(s) == Changed(s, [age |-> 0, quality |-> "GOOD"])

Missed(s) == Good(s) /\ Changed(s, [cache[s] EXCEPT !.quality = "UNCERTAIN"])

\* Expired, or invalidated by a write.
Blanked(s) == Served(s) /\ Changed(s, Bad)

-----------------------------------------------------------------------------
(* One poll. *)

Publish(ages, uncertain) ==
    result' = [kind |-> "data", uncertain |-> uncertain, age |-> ages]

AgesOf(S) == [s \in Sources |-> IF s \in S THEN cache[s].age ELSE None]

\* _try_cache_shortcut: everything GOOD and captured together.
Aligned == \A s, t \in Sources : cache[s].age - cache[t].age <= TOLERANCE

Shortcut == GoodNow = Sources /\ Aligned

TakeShortcut ==
    /\ phase = "idle" /\ dedicated /\ Shortcut
    /\ Publish(AgesOf(Sources), FALSE)
    /\ fresh' = GoodNow
    /\ UNCHANGED <<cache, dedicated, poll, failing>>

\* _cache_only_snapshot: each value on its own, alignment never claimed.
CacheOnly ==
    /\ phase = "idle" /\ ~dedicated
    /\ Publish(AgesOf({s \in Sources : Served(s)}), TRUE)
    /\ fresh' = GoodNow
    /\ UNCHANGED <<cache, dedicated, poll, failing>>

StartReads ==
    /\ phase = "idle" /\ dedicated /\ ~Shortcut
    /\ phase' = "next"
    /\ fresh' = GoodNow
    /\ result' = NoResult
    /\ UNCHANGED <<cache, dedicated, turn, taken, oldest, newest, elapsed, waited, failing>>

\* Mutant (ICS-01): the moment of the call, not of the capture.
CallTime(age) == 0

CaptureAge(age) == age

\* Mutant: first and last in the order of the calls.
MarkInOrder(age) ==
    /\ oldest' = IF oldest = None THEN age ELSE oldest
    /\ newest' = age

\* _mark_success
Mark(age) ==
    /\ oldest' = IF oldest = None \/ age > oldest THEN age ELSE oldest
    /\ newest' = IF newest = None \/ age < newest THEN age ELSE newest

Unmarked == UNCHANGED <<oldest, newest>>

\* _read_one returns this for the source whose turn it is.
Took(age) ==
    /\ taken' = [taken EXCEPT ![Now] = age]
    /\ turn' = turn + 1
    /\ phase' = "next"

TookFromCache == Took(cache[Now].age) /\ Mark(CaptureAge(cache[Now].age))

\* Mutant: a GOOD value counts only while there is time for a read.
UsableInTime == Good(Now) /\ elapsed < DEADLINE

Usable == Good(Now)

\* Mutant (before MOD-02): no deadline for the whole poll.
NeverLate == FALSE

Late == elapsed >= DEADLINE

Undecided == phase = "next" /\ turn <= Len(ReadOrder)

FromCache ==
    /\ Undecided /\ Usable
    /\ TookFromCache
    /\ UNCHANGED <<cache, dedicated, elapsed, waited, failing, result, fresh>>

TooLate ==
    /\ Undecided /\ ~Usable /\ Late
    /\ Took(None) /\ Unmarked
    /\ UNCHANGED <<cache, dedicated, elapsed, waited, failing, result, fresh>>

Request ==
    /\ Undecided /\ ~Usable /\ ~Late
    /\ phase' = "reading"
    /\ waited' = 0
    /\ UNCHANGED <<cache, dedicated, turn, taken, oldest, newest, elapsed, failing,
                   result, fresh>>

\* The answer may hold no number: a success all the same.
ReadAnswered ==
    /\ phase = "reading"
    /\ \E age \in {0, None} : Took(age)
    /\ Mark(0)
    /\ UNCHANGED <<cache, dedicated, elapsed, waited, failing, result, fresh>>

\* Shed, not admitted in time, timed out or refused: a value the cache holds
\* as UNCERTAIN is the last resort.
ReadFails ==
    /\ phase = "reading"
    /\ \/ cache[Now].quality = "UNCERTAIN" /\ TookFromCache
       \/ cache[Now].quality # "UNCERTAIN" /\ Took(None) /\ Unmarked
    /\ UNCHANGED <<cache, dedicated, elapsed, waited, failing, result, fresh>>

PollEnds ==
    /\ phase' = "idle" /\ turn' = 1 /\ taken' = Nothing
    /\ oldest' = None /\ newest' = None /\ elapsed' = 0 /\ waited' = 0

\* Every source has had its turn.
Finish ==
    /\ phase = "next" /\ turn > Len(ReadOrder)
    /\ failing' = (oldest = None)
    /\ IF oldest = None
       THEN result' = [NoResult EXCEPT !.kind = "failed"]
       ELSE Publish(taken, oldest - newest > TOLERANCE)
    /\ PollEnds
    /\ UNCHANGED <<cache, dedicated, fresh>>

\* The entry is unloaded while the poll waits: CancelledError.
Cancelled ==
    /\ phase = "reading"
    /\ PollEnds
    /\ result' = NoResult
    /\ fresh' = {}
    /\ UNCHANGED <<cache, dedicated, failing>>

-----------------------------------------------------------------------------
(* Time passes while the poll waits, for no longer than a read may take. *)

Older(age) == IF age = None THEN None ELSE age + 1

Tick ==
    /\ phase # "next"
    /\ phase = "reading" => waited < ReadLimit
    /\ \A s \in Sources : Served(s) => cache[s].age < MaxAge
    /\ cache' = [s \in Sources |-> IF Served(s) THEN [cache[s] EXCEPT !.age = @ + 1] ELSE Bad]
    /\ IF phase = "idle" THEN UNCHANGED poll
       ELSE /\ elapsed' = elapsed + 1 /\ waited' = waited + 1
            /\ taken' = [s \in Sources |-> Older(taken[s])]
            /\ oldest' = Older(oldest) /\ newest' = Older(newest)
            /\ UNCHANGED <<phase, turn>>
    /\ fresh' = IF phase = "idle" THEN {} ELSE fresh
    /\ result' = NoResult
    /\ UNCHANGED <<dedicated, failing>>

Poll ==
    \/ TakeShortcut \/ CacheOnly \/ StartReads
    \/ FromCache \/ TooLate \/ Request \/ ReadAnswered \/ ReadFails \/ Finish
    \/ Cancelled

Next == Poll \/ Tick \/ \E s \in Sources : Refreshed(s) \/ Missed(s) \/ Blanked(s)

Spec == Init /\ [][Next]_vars

-----------------------------------------------------------------------------
Published(s) == result.kind = "data" /\ result.age[s] # None

\* A reading that is not flagged uncertain combines values captured within the
\* tolerance of each other, whichever mixture of caches of different age and
\* of separately guarded reads it comes from.
UnflaggedIsAligned ==
    result.kind = "data" /\ ~result.uncertain =>
        \A s, t \in {u \in Sources : Published(u)} :
            result.age[s] - result.age[t] <= TOLERANCE

\* A source whose cache was GOOD throughout a poll is in its reading, however
\* late its turn came: neither the deadline nor the failure of the others
\* costs a value that needs no read.
FreshIsPublished ==
    result.kind # "none" => \A s \in fresh : Published(s)

\* However many reads fail or crawl, a poll lasts no longer than its deadline
\* and the one read that was started before it.
PollIsBounded == elapsed < DEADLINE + ReadLimit

\* A failed read does not blank a value its cache still serves (the comment
\* of the fallback in _read_one: information is not thrown away).
FailureBlanksNothing ==
    [][ReadFails /\ Served(Now) => taken'[Now] # None]_vars
=============================================================================
