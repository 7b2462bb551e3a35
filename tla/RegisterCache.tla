---------------------------- MODULE RegisterCache ----------------------------
(***************************************************************************)
(* The adaptive, tier-aware register cache of src/register_cache.py, with  *)
(* its clocks: one entry per register that has been read, its adaptive     *)
(* TTL, its count of missed refreshes and the time since it became         *)
(* uncertain.  Timestamps are modelled by ages in ticks, capped at MaxAge, *)
(* which is beyond every limit they are compared with.                     *)
(***************************************************************************)
EXTENDS Integers

CONSTANTS
    Registers,
    Values,
    Classes,                \* per register: the tiers classify_register may give it
    BaseTTL, CapTTL,        \* per tier: _tier_base_ttl (SLOW is an option), _TIER_CAP_TTL
    Floor,                  \* per register: the configured cadence floor
    PollInterval,           \* default_ttl of filter_stale
    Ceiling,                \* per register: starvation or energy ceiling
    ADAPTIVE_FACTOR,
    NIGHT_TTL_MULTIPLIER,
    MIN_MISSED,             \* min_missed_refreshes
    HARD_FACTOR,            \* uncertain_hard_limit_factor
    MaxAge,                 \* where ages are capped
    NoEntry, NoValue

Tiers == {"fast", "normal", "slow", "static"}

Static == {n \in Registers : Classes[n] = {"static"}}

Larger(a, b)  == IF a >= b THEN a ELSE b
Smaller(a, b) == IF a <= b THEN a ELSE b

ASSUME CacheAssumption ==
    /\ NoEntry \notin Values /\ NoValue \notin Values
    /\ Classes \in [Registers -> SUBSET Tiers \ {{}}]
    /\ \A n \in Registers : "static" \in Classes[n] => n \in Static
    /\ BaseTTL \in [Tiers -> Nat] /\ CapTTL \in [Tiers -> Nat]
    /\ Floor \in [Registers -> Nat] /\ PollInterval \in Nat
    /\ Ceiling \in [Registers -> Nat]
    /\ ADAPTIVE_FACTOR \in Nat \ {0} /\ NIGHT_TTL_MULTIPLIER \in Nat \ {0}
    /\ MIN_MISSED \in Nat \ {0, 1} /\ HARD_FACTOR \in Nat \ {0}
    /\ MaxAge \in Nat
    /\ \A n \in Registers : Ceiling[n] * HARD_FACTOR < MaxAge
    /\ \A n \in Registers : Ceiling[n] < MaxAge

VARIABLES
    store,      \* _store: an entry per register, or NoEntry
    night       \* _night_mode

vars == <<store, night>>

NotUncertain == -1  \* uncertain_since is None

Entry == [value : Values, age : 0 .. MaxAge, quality : {"GOOD", "UNCERTAIN", "BAD"},
          tier : Tiers, pending : BOOLEAN,  \* reason is WRITE_PENDING
          ttl : Nat, missed : 0 .. MIN_MISSED, unsure : NotUncertain .. MaxAge]

ASSUME NoEntryAssumption == NoEntry \notin Entry

\* A GOOD entry carries no trace of earlier failures, an UNCERTAIN one knows
\* since when, and only a BAD one can be pending.
TypeOK ==
    /\ store \in [Registers -> Entry \cup {NoEntry}]
    /\ night \in BOOLEAN
    /\ \A n \in Registers :
          LET e == store[n] IN
          e # NoEntry =>
             /\ e.quality = "GOOD" => e.missed = 0 /\ e.unsure = NotUncertain
             /\ e.quality = "UNCERTAIN" => e.unsure # NotUncertain
             /\ e.pending => e.quality = "BAD"

Init ==
    /\ store = [n \in Registers |-> NoEntry]
    /\ night = FALSE

-----------------------------------------------------------------------------
(* Reading the cache. *)

Cached(n) == store[n] # NoEntry

\* Mutant: expiry on age alone (the rule before HS-2302-001).
ExpiredByAge(n) ==
    /\ store[n].quality = "UNCERTAIN"
    /\ n \notin Static
    /\ store[n].age > Ceiling[n]

\* _live_quality: the lazy EXPIRED transition, decided on read.
Expired(n) ==
    LET e == store[n] IN
    /\ e.quality = "UNCERTAIN"
    /\ n \notin Static
    /\ \/ e.age > Ceiling[n] /\ e.missed >= MIN_MISSED
       \/ e.unsure > Ceiling[n] * HARD_FACTOR

LiveQuality(n) ==
    IF ~Cached(n) \/ Expired(n) THEN "BAD" ELSE store[n].quality

\* What merge() and get() serve.
Served(n) == LiveQuality(n) # "BAD"

\* _effective_ttl: night stretching, then the configured floor.
EffectiveTTL(n) ==
    LET e == store[n]
        stretched == IF night
                     THEN Smaller(e.ttl * NIGHT_TTL_MULTIPLIER, CapTTL[e.tier])
                     ELSE e.ttl
    IN  IF n \in Static THEN e.ttl ELSE Larger(stretched, Floor[n])

\* filter_stale: NORMAL registers are never due within the poll interval.
Due(n) ==
    \/ LiveQuality(n) # "GOOD"
    \/ store[n].age >= IF store[n].tier = "normal" THEN Larger(EffectiveTTL(n), PollInterval)
                       ELSE EffectiveTTL(n)

-----------------------------------------------------------------------------
(* Changing it. *)

\* Mutant: an unchanged value stretches the TTL without a cap.
StretchForever(tier, ttl) == ttl * ADAPTIVE_FACTOR

Stretch(tier, ttl) == Smaller(ttl * ADAPTIVE_FACTOR, CapTTL[tier])

\* update, for one register: the TTL adapts to whether the value changed,
\* unless the stored one was known wrong.
Refreshed(n, v, tier) ==
    LET e == store[n] IN
    [value |-> v, age |-> 0, quality |-> "GOOD", tier |-> tier, pending |-> FALSE,
     ttl |-> IF Cached(n) /\ ~e.pending /\ e.value = v THEN Stretch(tier, e.ttl)
             ELSE BaseTTL[tier],
     missed |-> 0, unsure |-> NotUncertain]

\* A register is classified when it is first stored.
Update(results) ==
    /\ \E tier \in [DOMAIN results -> Tiers] :
          /\ \A n \in DOMAIN results :
                tier[n] \in IF Cached(n) THEN {store[n].tier} ELSE Classes[n]
          /\ store' = [n \in Registers |->
                          IF n \in DOMAIN results
                          THEN Refreshed(n, results[n], tier[n]) ELSE store[n]]
    /\ UNCHANGED night

\* Mutant: the clock of the hard limit is never started.
UnsureKept(e) == e.unsure

Unsure(e) == IF e.unsure = NotUncertain THEN 0 ELSE e.unsure

\* Mutant: a failed re-read turns a known-wrong value into an uncertain one.
MissedForgetsPending(e) ==
    [e EXCEPT !.quality = "UNCERTAIN", !.pending = FALSE,
              !.missed = Smaller(@ + 1, MIN_MISSED), !.unsure = Unsure(e)]

\* record_attempt with anything but GOOD, for one entry.
Missed(e) ==
    IF e.pending
    THEN [e EXCEPT !.missed = Smaller(@ + 1, MIN_MISSED)]
    ELSE [e EXCEPT !.quality = "UNCERTAIN", !.missed = Smaller(@ + 1, MIN_MISSED),
                   !.unsure = Unsure(e)]

RecordAttempt(names) ==
    /\ store' = [n \in Registers |-> IF n \in names /\ Cached(n)
                                     THEN Missed(store[n]) ELSE store[n]]
    /\ UNCHANGED night

Invalidate(n) ==
    /\ Cached(n)
    /\ store' = [store EXCEPT ![n].quality = "BAD", ![n].pending = TRUE]
    /\ UNCHANGED night

\* invalidate_all: not an attempt, so the misses are left alone.
InvalidateAll ==
    /\ store' = [n \in Registers |->
                    IF Cached(n) /\ ~store[n].pending /\ n \notin Static
                    THEN [store[n] EXCEPT !.quality = "UNCERTAIN",
                                          !.unsure = Unsure(store[n])]
                    ELSE store[n]]
    /\ UNCHANGED night

\* set_night_mode: leaving night mode resets the NORMAL and FAST TTLs.
SetNightMode(active) ==
    /\ active # night
    /\ night' = active
    /\ store' = [n \in Registers |->
                    IF ~active /\ Cached(n) /\ store[n].tier \in {"normal", "fast"}
                    THEN [store[n] EXCEPT !.ttl = BaseTTL[store[n].tier]]
                    ELSE store[n]]

\* time.monotonic() advances.
Older(t) == IF t \in 0 .. MaxAge - 1 THEN t + 1 ELSE t

Tick ==
    /\ store' = [n \in Registers |->
                    IF Cached(n)
                    THEN [store[n] EXCEPT !.age = Older(@), !.unsure = Older(@)]
                    ELSE NoEntry]
    /\ UNCHANGED night

Next ==
    \/ \E names \in SUBSET Registers :
          \/ \E results \in [names -> Values] : Update(results)
          \/ RecordAttempt(names)
    \/ \E n \in Registers : Invalidate(n)
    \/ InvalidateAll
    \/ \E active \in BOOLEAN : SetNightMode(active)
    \/ Tick

Spec == Init /\ [][Next]_vars

-----------------------------------------------------------------------------
(* The cache implements its contract: whatever the clocks say, a value known *)
(* to be wrong is not served again until it is read, a link loss or a miss   *)
(* leaves values served, and only uncertain, non-STATIC values expire.       *)

StatusOf(n) ==
    CASE ~Cached(n)                    -> "never"
      [] Cached(n) /\ store[n].pending -> "pending"
      [] Cached(n) /\ ~store[n].pending /\ Expired(n) -> "expired"
      [] Cached(n) /\ ~store[n].pending /\ ~Expired(n)
            /\ store[n].quality = "GOOD" -> "good"
      [] OTHER -> "uncertain"

Contract == INSTANCE CacheContract WITH
    value  <- [n \in Registers |-> IF Cached(n) THEN store[n].value ELSE NoValue],
    status <- [n \in Registers |-> StatusOf(n)]

ImplementsContract == Contract!ContractSpec

\* A value that is trusted and not due for a refresh is recent: neither the
\* adaptive stretching, nor night mode, nor a change of mode lets a GOOD value
\* go unread for longer than its tier allows (its base or cap, its configured
\* floor, the poll interval).
GoodIsRecent ==
    \A n \in Registers :
        ~Due(n) /\ n \notin Static =>
            store[n].age < Larger(Larger(BaseTTL[store[n].tier], CapTTL[store[n].tier]),
                                  Larger(Floor[n], PollInterval))

\* Two missed refreshes are needed to blank a value, however old it is (a value
\* one poll old survives one shed poll), and lasting uncertainty blanks it
\* whatever the misses: an unservable value that is not pending has missed
\* enough refreshes or has been uncertain beyond the hard limit, and no value
\* is served beyond that limit.
BlankedForCause ==
    \A n \in Registers \ Static :
        Cached(n) /\ ~store[n].pending =>
            /\ ~Served(n) => \/ store[n].missed >= MIN_MISSED
                             \/ store[n].unsure > Ceiling[n] * HARD_FACTOR
            /\ Served(n) => store[n].unsure <= Ceiling[n] * HARD_FACTOR
=============================================================================
