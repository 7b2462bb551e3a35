------------------------- MODULE RegisterCacheProofs -------------------------
(***************************************************************************)
(* Proofs about RegisterCache, for any registers, values, tiers, limits    *)
(* and factors: its type, how long a value is trusted, why one is blanked, *)
(* and that every step of it is one its contract allows.                   *)
(***************************************************************************)
EXTENDS RegisterCache, TLAPS

\* What the operations leave in an entry: a GOOD one carries no trace of
\* failures, an UNCERTAIN one knows since when, only a pending one is BAD
\* before it expires, and the TTL stays within its tier.
Good(e) ==
    /\ e \in Entry
    /\ e.quality = "GOOD" => e.missed = 0 /\ e.unsure = NotUncertain
    /\ e.quality = "UNCERTAIN" => e.unsure # NotUncertain
    /\ e.pending <=> e.quality = "BAD"
    /\ e.ttl <= Larger(BaseTTL[e.tier], CapTTL[e.tier])

IInv ==
    /\ store \in [Registers -> Entry \cup {NoEntry}]
    /\ night \in BOOLEAN
    /\ \A n \in Registers : store[n] # NoEntry => Good(store[n])

-----------------------------------------------------------------------------
(* One entry. *)

LEMMA Limits ==
    /\ MaxAge \in Nat /\ MIN_MISSED \in Nat \ {0, 1}
    /\ \A t \in Tiers : BaseTTL[t] \in Nat /\ CapTTL[t] \in Nat
    /\ \A n \in Registers : Ceiling[n] \in Nat /\ Ceiling[n] * HARD_FACTOR \in Nat
    /\ \A n \in Registers : Floor[n] \in Nat
    /\ PollInterval \in Nat
    /\ \A t \in Nat : t * ADAPTIVE_FACTOR \in Nat /\ t * NIGHT_TTL_MULTIPLIER \in Nat
<1>1. \A a, b \in Nat : a * b \in Nat
    OBVIOUS
<1>2. QED
    BY <1>1, CacheAssumption DEF CacheAssumption

\* A value that has been read is a sound entry again.
LEMMA RefreshedIsGood ==
    ASSUME IInv, NEW n \in Registers, NEW v \in Values, NEW tier \in Tiers,
           Cached(n) => tier = store[n].tier
    PROVE  Good(Refreshed(n, v, tier))
<1> DEFINE ttl == Refreshed(n, v, tier).ttl
<1>1. BaseTTL[tier] \in Nat /\ CapTTL[tier] \in Nat
    BY Limits
<1>2. ttl \in Nat /\ ttl <= Larger(BaseTTL[tier], CapTTL[tier])
  <2>1. CASE Cached(n) /\ ~store[n].pending /\ store[n].value = v
    <3>1. store[n].ttl \in Nat
      BY <2>1 DEF IInv, Cached, Good, Entry
    <3>2. store[n].ttl * ADAPTIVE_FACTOR \in Nat
      BY <3>1, Limits
    <3>3. ttl = Smaller(store[n].ttl * ADAPTIVE_FACTOR, CapTTL[tier])
      BY <2>1 DEF Refreshed, Stretch
    <3>4. QED
      BY <1>1, <3>2, <3>3 DEF Smaller, Larger
  <2>2. CASE ~(Cached(n) /\ ~store[n].pending /\ store[n].value = v)
    BY <1>1, <2>2 DEF Refreshed, Larger
  <2>3. QED
    BY <2>1, <2>2
<1>3. Refreshed(n, v, tier) = [value |-> v, age |-> 0, quality |-> "GOOD", tier |-> tier,
          pending |-> FALSE, ttl |-> ttl, missed |-> 0, unsure |-> NotUncertain]
    BY DEF Refreshed
<1> HIDE DEF ttl
<1>4. 0 \in 0 .. MaxAge /\ 0 \in 0 .. MIN_MISSED /\ NotUncertain \in NotUncertain .. MaxAge
    BY Limits DEF NotUncertain
<1>5. QED
    BY <1>2, <1>3, <1>4 DEF Good, Entry

\* The other operations change an entry into a sound one.
LEMMA MissedIsGood ==
    ASSUME NEW e, Good(e)
    PROVE  /\ Good(Missed(e)) /\ Missed(e).value = e.value /\ Missed(e).pending = e.pending
           /\ ~e.pending => Missed(e).quality = "UNCERTAIN"
           /\ Missed(e).age = e.age
           /\ Missed(e).missed = Smaller(e.missed + 1, MIN_MISSED)
           /\ ~e.pending => Missed(e).unsure = Unsure(e)
<1> DEFINE more == Smaller(e.missed + 1, MIN_MISSED)
<1>1. /\ e \in Entry /\ e.missed \in 0 .. MIN_MISSED /\ e.unsure \in NotUncertain .. MaxAge
      /\ e.pending \in BOOLEAN
    BY DEF Good, Entry
<1>2. more \in 0 .. MIN_MISSED
    BY <1>1, Limits DEF Smaller
<1>3. Unsure(e) \in NotUncertain .. MaxAge /\ Unsure(e) # NotUncertain
    BY <1>1, Limits DEF Unsure, NotUncertain
<1> HIDE DEF more
<1>4. CASE e.pending
  <2> DEFINE d == [e EXCEPT !.missed = more]
  <2>1. Missed(e) = d
    BY <1>4 DEF Missed, more
  <2>2. /\ d \in Entry /\ d.value = e.value /\ d.pending = e.pending /\ d.age = e.age
        /\ d.quality = e.quality /\ d.unsure = e.unsure /\ d.ttl = e.ttl /\ d.tier = e.tier
        /\ d.missed = more
    BY <1>1, <1>2 DEF Entry
  <2> HIDE DEF d
  <2>3. QED
    BY <1>4, <2>1, <2>2 DEF Good, more
<1>5. CASE ~e.pending
  <2> DEFINE d == [e EXCEPT !.quality = "UNCERTAIN", !.missed = more, !.unsure = Unsure(e)]
  <2>1. Missed(e) = d
    BY <1>5 DEF Missed, more
  <2>2. /\ d \in Entry /\ d.value = e.value /\ d.pending = e.pending /\ d.age = e.age
        /\ d.quality = "UNCERTAIN" /\ d.unsure = Unsure(e) /\ d.ttl = e.ttl /\ d.tier = e.tier
        /\ d.missed = more
    BY <1>1, <1>2, <1>3 DEF Entry
  <2> HIDE DEF d
  <2>3. QED
    BY <1>3, <1>5, <2>1, <2>2 DEF Good, more
<1>6. QED
    BY <1>1, <1>4, <1>5

\* invalidate_all and set_night_mode touch one field or two.
LEMMA LostIsGood ==
    ASSUME NEW e, Good(e), ~e.pending
    PROVE  LET d == [e EXCEPT !.quality = "UNCERTAIN", !.unsure = Unsure(e)] IN
           /\ Good(d) /\ d.value = e.value /\ d.pending = FALSE /\ d.quality = "UNCERTAIN"
           /\ d.age = e.age /\ d.missed = e.missed /\ d.unsure = Unsure(e)
<1> DEFINE d == [e EXCEPT !.quality = "UNCERTAIN", !.unsure = Unsure(e)]
<1>1. e \in Entry /\ e.unsure \in NotUncertain .. MaxAge
    BY DEF Good, Entry
<1>2. Unsure(e) \in NotUncertain .. MaxAge /\ Unsure(e) # NotUncertain
    BY <1>1, Limits DEF Unsure, NotUncertain
<1>3. /\ d \in Entry /\ d.value = e.value /\ d.pending = e.pending /\ d.age = e.age
      /\ d.quality = "UNCERTAIN" /\ d.unsure = Unsure(e) /\ d.ttl = e.ttl /\ d.tier = e.tier
      /\ d.missed = e.missed
    BY <1>1, <1>2 DEF Entry
<1>4. e.pending = FALSE
    BY <1>1 DEF Entry
<1> HIDE DEF d
<1>5. /\ Good(d) /\ d.value = e.value /\ d.pending = FALSE /\ d.quality = "UNCERTAIN"
      /\ d.age = e.age /\ d.missed = e.missed /\ d.unsure = Unsure(e)
    BY <1>2, <1>3, <1>4 DEF Good
<1>6. QED
    BY <1>5 DEF d

LEMMA ReclockedIsGood ==
    ASSUME NEW e, Good(e)
    PROVE  LET d == [e EXCEPT !.ttl = BaseTTL[e.tier]] IN
           /\ Good(d) /\ d.value = e.value /\ d.pending = e.pending
           /\ d.quality = e.quality /\ d.age = e.age /\ d.missed = e.missed
           /\ d.unsure = e.unsure
<1> DEFINE d == [e EXCEPT !.ttl = BaseTTL[e.tier]]
<1>1. e \in Entry /\ e.tier \in Tiers
    BY DEF Good, Entry
<1>2. BaseTTL[e.tier] \in Nat /\ CapTTL[e.tier] \in Nat
    BY <1>1, Limits
<1>3. /\ d \in Entry /\ d.value = e.value /\ d.pending = e.pending /\ d.age = e.age
      /\ d.quality = e.quality /\ d.unsure = e.unsure /\ d.ttl = BaseTTL[e.tier]
      /\ d.tier = e.tier /\ d.missed = e.missed
    BY <1>1, <1>2 DEF Entry
<1>4. d.ttl <= Larger(BaseTTL[d.tier], CapTTL[d.tier])
    BY <1>2, <1>3 DEF Larger
<1> HIDE DEF d
<1>5. /\ Good(d) /\ d.value = e.value /\ d.pending = e.pending
      /\ d.quality = e.quality /\ d.age = e.age /\ d.missed = e.missed
      /\ d.unsure = e.unsure
    BY <1>3, <1>4 DEF Good
<1>6. QED
    BY <1>5 DEF d

LEMMA InvalidIsGood ==
    ASSUME NEW e, Good(e)
    PROVE  LET d == [e EXCEPT !.quality = "BAD", !.pending = TRUE] IN
           Good(d) /\ d.value = e.value /\ d.pending = TRUE
<1> DEFINE d == [e EXCEPT !.quality = "BAD", !.pending = TRUE]
<1>1. e \in Entry
    BY DEF Good
<1>2. /\ d \in Entry /\ d.value = e.value /\ d.pending = TRUE /\ d.quality = "BAD"
      /\ d.ttl = e.ttl /\ d.tier = e.tier
    BY <1>1 DEF Entry
<1> HIDE DEF d
<1>3. Good(d) /\ d.value = e.value /\ d.pending = TRUE
    BY <1>2 DEF Good
<1>4. QED
    BY <1>3 DEF d

LEMMA AgedIsGood ==
    ASSUME NEW e, Good(e)
    PROVE  LET d == [e EXCEPT !.age = Older(e.age), !.unsure = Older(e.unsure)] IN
           /\ Good(d) /\ d.value = e.value /\ d.pending = e.pending
           /\ d.quality = e.quality /\ d.missed = e.missed
           /\ d.age >= e.age /\ d.unsure >= e.unsure
<1> DEFINE d == [e EXCEPT !.age = Older(e.age), !.unsure = Older(e.unsure)]
<1>1. e \in Entry /\ e.age \in 0 .. MaxAge /\ e.unsure \in NotUncertain .. MaxAge
    BY DEF Good, Entry
<1>2. /\ Older(e.age) \in 0 .. MaxAge /\ Older(e.unsure) \in NotUncertain .. MaxAge
      /\ Older(e.age) >= e.age /\ Older(e.unsure) >= e.unsure
      /\ e.unsure = NotUncertain <=> Older(e.unsure) = NotUncertain
    BY <1>1, Limits DEF Older, NotUncertain
<1>3. /\ d \in Entry /\ d.value = e.value /\ d.pending = e.pending /\ d.age = Older(e.age)
      /\ d.quality = e.quality /\ d.unsure = Older(e.unsure) /\ d.ttl = e.ttl
      /\ d.tier = e.tier /\ d.missed = e.missed
    BY <1>1, <1>2 DEF Entry
<1> HIDE DEF d
<1>4. /\ Good(d) /\ d.value = e.value /\ d.pending = e.pending
      /\ d.quality = e.quality /\ d.missed = e.missed
      /\ d.age >= e.age /\ d.unsure >= e.unsure
    BY <1>2, <1>3 DEF Good
<1>5. QED
    BY <1>4 DEF d

-----------------------------------------------------------------------------
(* The invariant. *)

LEMMA InitIInv == Init => IInv
    BY DEF Init, IInv

\* Every operation leaves entries that are sound.
LEMMA UpdateKeeps ==
    ASSUME IInv, NEW names \in SUBSET Registers, NEW results \in [names -> Values],
           Update(results)
    PROVE  IInv'
<1>1. PICK tier \in [DOMAIN results -> Tiers] :
          /\ \A n \in DOMAIN results :
                tier[n] \in IF Cached(n) THEN {store[n].tier} ELSE Classes[n]
          /\ store' = [n \in Registers |->
                          IF n \in DOMAIN results
                          THEN Refreshed(n, results[n], tier[n]) ELSE store[n]]
    BY DEF Update
<1>2. ASSUME NEW n \in Registers
      PROVE  store'[n] \in Entry \cup {NoEntry} /\ (store'[n] # NoEntry => Good(store'[n]))
  <2>1. CASE n \in DOMAIN results
    <3>1. tier[n] \in Tiers /\ results[n] \in Values /\ (Cached(n) => tier[n] = store[n].tier)
      BY <1>1, <2>1
    <3>2. Good(Refreshed(n, results[n], tier[n]))
      BY <3>1, RefreshedIsGood
    <3>3. QED
      BY <1>1, <2>1, <3>2 DEF Good
  <2>2. CASE n \notin DOMAIN results
    BY <1>1, <2>2 DEF IInv
  <2>3. QED
    BY <2>1, <2>2
<1>3. QED
    BY <1>1, <1>2 DEF IInv, Update

LEMMA RecordAttemptKeeps ==
    ASSUME IInv, NEW names \in SUBSET Registers, RecordAttempt(names)
    PROVE  IInv'
<1>1. ASSUME NEW n \in Registers
      PROVE  store'[n] \in Entry \cup {NoEntry} /\ (store'[n] # NoEntry => Good(store'[n]))
  <2>1. CASE n \in names /\ Cached(n)
    <3>1. Good(Missed(store[n])) /\ store'[n] = Missed(store[n])
      BY <2>1, MissedIsGood DEF IInv, Cached, RecordAttempt
    <3>2. QED
      BY <3>1 DEF Good
  <2>2. CASE ~(n \in names /\ Cached(n))
    BY <2>2 DEF IInv, RecordAttempt
  <2>3. QED
    BY <2>1, <2>2
<1>2. QED
    BY <1>1 DEF IInv, RecordAttempt

LEMMA InvalidateKeeps ==
    ASSUME IInv, NEW n \in Registers, Invalidate(n)
    PROVE  IInv'
<1>1. store' = [store EXCEPT ![n] = [store[n] EXCEPT !.quality = "BAD", !.pending = TRUE]]
    BY DEF Invalidate
<1>2. Good([store[n] EXCEPT !.quality = "BAD", !.pending = TRUE])
    BY InvalidIsGood DEF IInv, Invalidate, Cached
<1>3. [store[n] EXCEPT !.quality = "BAD", !.pending = TRUE] \in Entry
    BY <1>2 DEF Good
<1>4. QED
    BY <1>1, <1>2, <1>3 DEF IInv, Invalidate

LEMMA InvalidateAllKeeps ==
    ASSUME IInv, InvalidateAll
    PROVE  IInv'
<1>1. ASSUME NEW n \in Registers
      PROVE  store'[n] \in Entry \cup {NoEntry} /\ (store'[n] # NoEntry => Good(store'[n]))
  <2>1. CASE Cached(n) /\ ~store[n].pending /\ n \notin Static
    <3>1. store'[n] = [store[n] EXCEPT !.quality = "UNCERTAIN", !.unsure = Unsure(store[n])]
      BY <2>1 DEF InvalidateAll
    <3>2. Good(store'[n])
      BY <2>1, <3>1, LostIsGood, ZenonT(40) DEF IInv, Cached
    <3>3. QED
      BY <3>2 DEF Good
  <2>2. CASE ~(Cached(n) /\ ~store[n].pending /\ n \notin Static)
    BY <2>2 DEF IInv, InvalidateAll
  <2>3. QED
    BY <2>1, <2>2
<1>2. QED
    BY <1>1 DEF IInv, InvalidateAll

LEMMA SetNightModeKeeps ==
    ASSUME IInv, NEW active \in BOOLEAN, SetNightMode(active)
    PROVE  IInv'
<1>1. ASSUME NEW n \in Registers
      PROVE  store'[n] \in Entry \cup {NoEntry} /\ (store'[n] # NoEntry => Good(store'[n]))
  <2>1. CASE ~active /\ Cached(n) /\ store[n].tier \in {"normal", "fast"}
    <3>1. store'[n] = [store[n] EXCEPT !.ttl = BaseTTL[store[n].tier]]
      BY <2>1 DEF SetNightMode
    <3>2. Good(store'[n])
      BY <2>1, <3>1, ReclockedIsGood DEF IInv, Cached
    <3>3. QED
      BY <3>2 DEF Good
  <2>2. CASE ~(~active /\ Cached(n) /\ store[n].tier \in {"normal", "fast"})
    BY <2>2 DEF IInv, SetNightMode
  <2>3. QED
    BY <2>1, <2>2
<1>2. QED
    BY <1>1 DEF IInv, SetNightMode

LEMMA TickKeeps ==
    ASSUME IInv, Tick
    PROVE  IInv'
<1>1. ASSUME NEW n \in Registers
      PROVE  store'[n] \in Entry \cup {NoEntry} /\ (store'[n] # NoEntry => Good(store'[n]))
  <2>1. CASE Cached(n)
    <3>1. store'[n] = [store[n] EXCEPT !.age = Older(store[n].age),
                                       !.unsure = Older(store[n].unsure)]
      BY <2>1 DEF Tick
    <3>2. Good(store'[n])
      BY <2>1, <3>1, AgedIsGood, ZenonT(40) DEF IInv, Cached
    <3>3. QED
      BY <3>2 DEF Good
  <2>2. CASE ~Cached(n)
    BY <2>2 DEF Tick
  <2>3. QED
    BY <2>1, <2>2
<1>2. QED
    BY <1>1 DEF IInv, Tick

LEMMA NextKeeps == IInv /\ [Next]_vars => IInv'
<1> SUFFICES ASSUME IInv, [Next]_vars PROVE IInv'
    OBVIOUS
<1>1. ASSUME NEW names \in SUBSET Registers, NEW results \in [names -> Values], Update(results)
      PROVE  IInv'
    BY <1>1, UpdateKeeps
<1>2. ASSUME NEW names \in SUBSET Registers, RecordAttempt(names) PROVE IInv'
    BY <1>2, RecordAttemptKeeps
<1>3. ASSUME NEW n \in Registers, Invalidate(n) PROVE IInv'
    BY <1>3, InvalidateKeeps
<1>4. CASE InvalidateAll
    BY <1>4, InvalidateAllKeeps
<1>5. ASSUME NEW active \in BOOLEAN, SetNightMode(active) PROVE IInv'
    BY <1>5, SetNightModeKeeps
<1>6. CASE Tick
    BY <1>6, TickKeeps
<1>7. CASE UNCHANGED vars
    BY <1>7 DEF IInv, vars
<1>8. QED
    BY <1>1, <1>2, <1>3, <1>4, <1>5, <1>6, <1>7 DEF Next

LEMMA IInvHolds == Spec => []IInv
<1>1. QED
    BY InitIInv, NextKeeps, PTL DEF Spec

\* Every entry keeps its type and its three rules: what is GOOD has no misses,
\* what is UNCERTAIN knows since when, what is pending is BAD.
THEOREM CacheTypeCorrect == Spec => []TypeOK
<1>1. IInv => TypeOK
    BY DEF IInv, TypeOK, Good
<1>2. QED
    BY <1>1, IInvHolds, PTL

\* A value that is not pending is blanked for missed refreshes or for lasting
\* uncertainty, and none is served beyond the hard limit, whatever the limits.
THEOREM BlankingHasACause == Spec => []BlankedForCause
<1>1. ASSUME IInv PROVE BlankedForCause
  <2> SUFFICES ASSUME NEW n \in Registers \ Static, Cached(n), ~store[n].pending
               PROVE  /\ ~Served(n) => \/ store[n].missed >= MIN_MISSED
                                       \/ store[n].unsure > Ceiling[n] * HARD_FACTOR
                      /\ Served(n) => store[n].unsure <= Ceiling[n] * HARD_FACTOR
    BY DEF BlankedForCause
  <2>1. /\ Good(store[n]) /\ store[n].quality \in {"GOOD", "UNCERTAIN", "BAD"}
        /\ store[n].unsure \in NotUncertain .. MaxAge
    BY <1>1 DEF IInv, Cached, Good, Entry
  <2>2. MaxAge \in Nat /\ Ceiling[n] * HARD_FACTOR \in Nat
    BY Limits
  <2>3. CASE store[n].quality = "GOOD"
    BY <2>1, <2>2, <2>3 DEF Good, Served, LiveQuality, Expired, NotUncertain
  <2>4. CASE store[n].quality = "UNCERTAIN"
    BY <2>1, <2>2, <2>4 DEF Served, LiveQuality, Expired, NotUncertain
  <2>5. QED
    BY <2>1, <2>3, <2>4 DEF Good
<1>2. QED
    BY <1>1, IInvHolds, PTL

\* A value that is trusted and not due was read within what its tier, its floor
\* and the poll interval allow, for any TTLs, factors and floors.
THEOREM TrustIsRecent == Spec => []GoodIsRecent
<1>1. ASSUME IInv PROVE GoodIsRecent
  <2> SUFFICES ASSUME NEW n \in Registers, ~Due(n), n \notin Static
               PROVE  store[n].age < Larger(Larger(BaseTTL[store[n].tier], CapTTL[store[n].tier]),
                                            Larger(Floor[n], PollInterval))
    BY DEF GoodIsRecent
  <2> DEFINE e == store[n]
             most == Larger(BaseTTL[e.tier], CapTTL[e.tier])
             stretched == IF night THEN Smaller(e.ttl * NIGHT_TTL_MULTIPLIER, CapTTL[e.tier])
                          ELSE e.ttl
  <2>1. Cached(n)
    BY DEF Due, LiveQuality
  <2>2. e \in Entry /\ e.tier \in Tiers /\ e.ttl \in Nat /\ e.age \in Nat /\ e.ttl <= most
    BY <1>1, <2>1 DEF IInv, Cached, Good, Entry
  <2>3. /\ BaseTTL[e.tier] \in Nat /\ CapTTL[e.tier] \in Nat
        /\ Floor[n] \in Nat /\ PollInterval \in Nat
        /\ e.ttl * NIGHT_TTL_MULTIPLIER \in Nat
    BY <2>2, Limits
  <2>4. stretched \in Nat /\ stretched <= most
    BY <2>2, <2>3 DEF Smaller, Larger
  <2>5. EffectiveTTL(n) = Larger(stretched, Floor[n])
    BY DEF EffectiveTTL
  <2>6. \/ e.age < EffectiveTTL(n)
        \/ e.age < Larger(EffectiveTTL(n), PollInterval)
    <3>1. ~(e.age >= IF e.tier = "normal" THEN Larger(EffectiveTTL(n), PollInterval)
                     ELSE EffectiveTTL(n))
      BY DEF Due
    <3>2. EffectiveTTL(n) \in Nat
      BY <2>3, <2>4, <2>5 DEF Larger
    <3>3. QED
      BY <2>2, <2>3, <3>1, <3>2 DEF Larger
  <2>7. most \in Nat
    BY <2>3 DEF Larger
  <2> HIDE DEF stretched, most, e
  <2>8. e.age < Larger(most, Larger(Floor[n], PollInterval))
    BY <2>2, <2>3, <2>4, <2>5, <2>6, <2>7 DEF Larger
  <2>9. QED
    BY <2>8 DEF e, most
<1>2. QED
    BY <1>1, IInvHolds, PTL

-----------------------------------------------------------------------------
(* The refinement: the contract's value and status, entry by entry. *)

Lapsed(n, e) ==
    /\ e.quality = "UNCERTAIN" /\ n \notin Static
    /\ \/ e.age > Ceiling[n] /\ e.missed >= MIN_MISSED
       \/ e.unsure > Ceiling[n] * HARD_FACTOR

Trust(n, e) ==
    IF e = NoEntry THEN "never"
    ELSE IF e.pending THEN "pending"
    ELSE IF e.quality = "GOOD" THEN "good"
    ELSE IF Lapsed(n, e) THEN "expired" ELSE "uncertain"

ValueOf(e) == IF e = NoEntry THEN NoValue ELSE e.value

\* StatusOf is Trust of the entry.
LEMMA StatusIsTrust ==
    ASSUME NEW n \in Registers
    PROVE  IInv => StatusOf(n) = Trust(n, store[n])
<1> SUFFICES ASSUME IInv PROVE StatusOf(n) = Trust(n, store[n])
    OBVIOUS
<1>1. CASE ~Cached(n)
    BY <1>1 DEF StatusOf, Trust, Cached
<1>2. CASE Cached(n)
  <2>1. store[n].quality \in {"GOOD", "UNCERTAIN", "BAD"} /\ store[n].pending \in BOOLEAN
        /\ (store[n].pending <=> store[n].quality = "BAD")
    BY <1>2 DEF IInv, Good, Entry, Cached
  <2>2. Expired(n) <=> Lapsed(n, store[n])
    BY DEF Expired, Lapsed
  <2>3. Lapsed(n, store[n]) => store[n].quality = "UNCERTAIN"
    BY DEF Lapsed
  <2>4. CASE store[n].pending
    BY <1>2, <2>4 DEF StatusOf, Trust, Cached
  <2>5. CASE store[n].quality = "GOOD"
    BY <1>2, <2>1, <2>2, <2>3, <2>5 DEF StatusOf, Trust, Cached
  <2>6. CASE store[n].quality = "UNCERTAIN" /\ Lapsed(n, store[n])
    BY <1>2, <2>1, <2>2, <2>6 DEF StatusOf, Trust, Cached
  <2>7. CASE store[n].quality = "UNCERTAIN" /\ ~Lapsed(n, store[n])
    BY <1>2, <2>1, <2>2, <2>7 DEF StatusOf, Trust, Cached
  <2>8. QED
    BY <2>1, <2>4, <2>5, <2>6, <2>7
<1>3. QED
    BY <1>1, <1>2

\* A value that has been read is good; a read ends every doubt.
LEMMA RefreshedIsTrusted ==
    ASSUME IInv, NEW n \in Registers, NEW v \in Values, NEW tier \in Tiers,
           Cached(n) => tier = store[n].tier
    PROVE  /\ Trust(n, Refreshed(n, v, tier)) = "good"
           /\ ValueOf(Refreshed(n, v, tier)) = v
<1>1. Refreshed(n, v, tier) # NoEntry
    BY RefreshedIsGood, NoEntryAssumption DEF Good
<1>2. /\ Refreshed(n, v, tier).pending = FALSE /\ Refreshed(n, v, tier).quality = "GOOD"
      /\ Refreshed(n, v, tier).value = v
    BY DEF Refreshed
<1>3. QED
    BY <1>1, <1>2 DEF Trust, ValueOf

\* An entry that was not uncertain is not lapsed by the first miss or by a link
\* loss: the misses are below two, and the clock of the hard limit starts at 0.
LEMMA FirstDoubtIsServed ==
    ASSUME NEW n \in Registers, NEW e, NEW d, Good(e), e.quality = "GOOD",
           d.unsure = Unsure(e), d.missed \in {0, Smaller(1, MIN_MISSED)}
    PROVE  ~Lapsed(n, d)
<1>1. e.unsure = NotUncertain
    BY DEF Good
<1>2. d.unsure = 0 /\ ~(d.missed >= MIN_MISSED) /\ ~(d.unsure > Ceiling[n] * HARD_FACTOR)
    BY <1>1, Limits DEF Unsure, Smaller
<1>3. QED
    BY <1>2 DEF Lapsed

LEMMA MissIsAllowed ==
    ASSUME NEW n \in Registers, NEW e, Good(e)
    PROVE  LET before == Trust(n, e)
               after  == Trust(n, Missed(e))
           IN  /\ Missed(e) # NoEntry /\ ValueOf(Missed(e)) = ValueOf(e)
               /\ before \in {"good", "uncertain", "expired", "pending"}
               /\ before = "good" => after = "uncertain"
               /\ before \in {"expired", "pending"} => after = before
               /\ before = "uncertain" =>
                      after = "uncertain" \/ (after = "expired" /\ n \notin Static)
<1> DEFINE d == Missed(e)
<1>1. /\ Good(d) /\ d.value = e.value /\ d.pending = e.pending
      /\ (~e.pending => d.quality = "UNCERTAIN" /\ d.unsure = Unsure(e))
      /\ d.age = e.age /\ d.missed = Smaller(e.missed + 1, MIN_MISSED)
    BY MissedIsGood
<1>2. e # NoEntry /\ d # NoEntry
    BY <1>1, NoEntryAssumption DEF Good
<1>3. /\ e.missed \in 0 .. MIN_MISSED /\ e.unsure \in NotUncertain .. MaxAge
      /\ e.quality \in {"GOOD", "UNCERTAIN", "BAD"} /\ (e.pending <=> e.quality = "BAD")
    BY DEF Good, Entry
<1> HIDE DEF d
<1>4. CASE e.pending
    BY <1>1, <1>2, <1>3, <1>4 DEF Trust, ValueOf, d
<1>5. CASE e.quality = "GOOD"
  <2>1. e.missed = 0
    BY <1>5 DEF Good
  <2>2. d.missed = Smaller(1, MIN_MISSED)
    BY <1>1, <2>1
  <2>3. ~Lapsed(n, d)
    BY <1>1, <1>3, <1>5, <2>2, FirstDoubtIsServed
  <2>4. QED
    BY <1>1, <1>2, <1>3, <1>5, <2>3 DEF Trust, ValueOf, d
<1>6. CASE e.quality = "UNCERTAIN"
  <2>1. d.unsure = e.unsure
    BY <1>1, <1>3, <1>6 DEF Good, Unsure
  <2>2. e.missed >= MIN_MISSED => d.missed >= MIN_MISSED
    BY <1>1, <1>3, Limits DEF Smaller
  <2>3. Lapsed(n, e) => Lapsed(n, d)
    BY <1>1, <1>3, <1>6, <2>1, <2>2 DEF Lapsed
  <2>4. Lapsed(n, d) => n \notin Static
    BY DEF Lapsed
  <2>5. QED
    BY <1>1, <1>2, <1>3, <1>6, <2>3, <2>4 DEF Trust, ValueOf, d
<1>7. QED
    BY <1>3, <1>4, <1>5, <1>6

LEMMA LinkLossIsAllowed ==
    ASSUME NEW n \in Registers, NEW e, Good(e), ~e.pending, n \notin Static
    PROVE  LET d == [e EXCEPT !.quality = "UNCERTAIN", !.unsure = Unsure(e)] IN
           /\ d # NoEntry /\ ValueOf(d) = ValueOf(e)
           /\ Trust(n, e) \in {"good", "uncertain", "expired"}
           /\ Trust(n, d) = IF Trust(n, e) = "good" THEN "uncertain" ELSE Trust(n, e)
<1> DEFINE d == [e EXCEPT !.quality = "UNCERTAIN", !.unsure = Unsure(e)]
<1>1. /\ Good(d) /\ d.value = e.value /\ d.pending = FALSE /\ d.quality = "UNCERTAIN"
      /\ d.age = e.age /\ d.missed = e.missed /\ d.unsure = Unsure(e)
    BY LostIsGood
<1>2. e # NoEntry /\ d # NoEntry
    BY <1>1, NoEntryAssumption DEF Good
<1>3. e.quality \in {"GOOD", "UNCERTAIN"} /\ e.pending = FALSE
    BY DEF Good, Entry
<1> HIDE DEF d
<1>4. CASE e.quality = "GOOD"
  <2>1. d.missed = 0
    BY <1>1, <1>4 DEF Good
  <2>2. ~Lapsed(n, d)
    BY <1>1, <1>4, <2>1, FirstDoubtIsServed
  <2>3. QED
    BY <1>1, <1>2, <1>3, <1>4, <2>2 DEF Trust, ValueOf, d
<1>5. CASE e.quality = "UNCERTAIN"
  <2>1. d.unsure = e.unsure
    BY <1>1, <1>5 DEF Good, Unsure
  <2>2. Lapsed(n, e) <=> Lapsed(n, d)
    BY <1>1, <1>5, <2>1 DEF Lapsed
  <2>3. QED
    BY <1>1, <1>2, <1>3, <1>5, <2>2 DEF Trust, ValueOf, d
<1>6. QED
    BY <1>3, <1>4, <1>5

\* What a tick makes of an entry.
AgedEntry(e) == [e EXCEPT !.age = Older(e.age), !.unsure = Older(e.unsure)]

LEMMA AgeingIsAllowed ==
    ASSUME NEW n \in Registers, NEW e, Good(e)
    PROVE  LET d == AgedEntry(e) IN
           /\ d # NoEntry /\ ValueOf(d) = ValueOf(e)
           /\ \/ Trust(n, d) = Trust(n, e)
              \/ Trust(n, e) = "uncertain" /\ Trust(n, d) = "expired" /\ n \notin Static
<1> DEFINE d == AgedEntry(e)
<1>1. /\ Good(d) /\ d.value = e.value /\ d.pending = e.pending
      /\ d.quality = e.quality /\ d.missed = e.missed
      /\ d.age >= e.age /\ d.unsure >= e.unsure
    BY AgedIsGood DEF AgedEntry
<1>2. e # NoEntry /\ d # NoEntry
    BY <1>1, NoEntryAssumption DEF Good
<1> HIDE DEF d
<1>3. /\ e.age \in Nat /\ d.age \in Nat /\ e.unsure \in Int /\ d.unsure \in Int
      /\ Ceiling[n] \in Nat /\ Ceiling[n] * HARD_FACTOR \in Nat
  <2>1. e \in Entry /\ d \in Entry
    BY <1>1 DEF Good
  <2>2. QED
    BY <2>1, Limits DEF Entry, NotUncertain
<1>4. Lapsed(n, e) => Lapsed(n, d)
  <2> DEFINE hard == Ceiling[n] * HARD_FACTOR
  <2>1. hard \in Nat
    BY <1>3
  <2> HIDE DEF hard
  <2>2. e.unsure > hard => d.unsure > hard
    BY <1>1, <1>3, <2>1
  <2>3. e.age > Ceiling[n] => d.age > Ceiling[n]
    BY <1>1, <1>3
  <2>4. QED
    BY <1>1, <2>2, <2>3 DEF Lapsed, hard
<1>5. Lapsed(n, d) => n \notin Static
    BY DEF Lapsed
<1>6. QED
    BY <1>1, <1>2, <1>4, <1>5 DEF Trust, ValueOf, d

LEMMA ReclockingChangesNothing ==
    ASSUME NEW n \in Registers, NEW e, Good(e)
    PROVE  LET d == [e EXCEPT !.ttl = BaseTTL[e.tier]] IN
           ValueOf(d) = ValueOf(e) /\ Trust(n, d) = Trust(n, e)
<1> DEFINE d == [e EXCEPT !.ttl = BaseTTL[e.tier]]
<1>1. /\ Good(d) /\ d.value = e.value /\ d.pending = e.pending
      /\ d.quality = e.quality /\ d.age = e.age /\ d.missed = e.missed
      /\ d.unsure = e.unsure
    BY ReclockedIsGood
<1>2. e # NoEntry /\ d # NoEntry
    BY <1>1, NoEntryAssumption DEF Good
<1> HIDE DEF d
<1>3. Lapsed(n, e) <=> Lapsed(n, d)
    BY <1>1 DEF Lapsed
<1>4. QED
    BY <1>1, <1>2, <1>3 DEF Trust, ValueOf, d

\* What the contract sees is each entry's value and trust.
Mapped ==
    /\ [n \in Registers |-> IF Cached(n) THEN store[n].value ELSE NoValue]
           = [n \in Registers |-> ValueOf(store[n])]
    /\ [n \in Registers |-> StatusOf(n)] = [n \in Registers |-> Trust(n, store[n])]

LEMMA MappedHolds == IInv => Mapped
    BY StatusIsTrust DEF Mapped, ValueOf, Cached

LEMMA UpdateStores ==
    ASSUME IInv, Mapped, Mapped', NEW names \in SUBSET Registers,
           NEW results \in [names -> Values], Update(results)
    PROVE  Contract!Store(results)
<1>1. PICK tier \in [DOMAIN results -> Tiers] :
          /\ \A n \in DOMAIN results :
                tier[n] \in IF Cached(n) THEN {store[n].tier} ELSE Classes[n]
          /\ store' = [n \in Registers |->
                          IF n \in DOMAIN results
                          THEN Refreshed(n, results[n], tier[n]) ELSE store[n]]
    BY DEF Update
<1>2. ASSUME NEW n \in Registers
      PROVE  /\ ValueOf(store'[n]) = IF n \in DOMAIN results THEN results[n] ELSE ValueOf(store[n])
             /\ Trust(n, store'[n]) = IF n \in DOMAIN results THEN "good" ELSE Trust(n, store[n])
  <2>1. CASE n \in DOMAIN results
    <3>1. tier[n] \in Tiers /\ results[n] \in Values /\ (Cached(n) => tier[n] = store[n].tier)
      BY <1>1, <2>1
    <3>2. store'[n] = Refreshed(n, results[n], tier[n])
      BY <1>1, <2>1
    <3>3. QED
      BY <2>1, <3>1, <3>2, RefreshedIsTrusted
  <2>2. CASE n \notin DOMAIN results
    BY <1>1, <2>2
  <2>3. QED
    BY <2>1, <2>2
<1>3. QED
    BY <1>2 DEF Mapped, Contract!Store, Contract!StoredValues, Contract!StoredStatuses

LEMMA RecordAttemptMisses ==
    ASSUME IInv, Mapped, Mapped', NEW names \in SUBSET Registers, RecordAttempt(names)
    PROVE  Contract!Miss(names)
<1> DEFINE gone == {n \in names \ Static :
                       Trust(n, store[n]) = "uncertain" /\ Trust(n, store'[n]) = "expired"}
<1>1. ASSUME NEW n \in Registers
      PROVE  /\ ValueOf(store'[n]) = ValueOf(store[n])
             /\ Trust(n, store'[n]) =
                    IF n \in gone THEN "expired"
                    ELSE IF n \in names THEN Contract!AfterMiss(Trust(n, store[n]))
                         ELSE Trust(n, store[n])
  <2>1. CASE n \in names /\ Cached(n)
    <3>1. store'[n] = Missed(store[n]) /\ Good(store[n])
      BY <2>1 DEF RecordAttempt, IInv, Cached
    <3>2. QED
      BY <2>1, <3>1, MissIsAllowed DEF Contract!AfterMiss
  <2>2. CASE n \in names /\ ~Cached(n)
    <3>1. store'[n] = store[n] /\ store[n] = NoEntry
      BY <2>2 DEF RecordAttempt, Cached
    <3>2. QED
      BY <3>1 DEF Trust, Contract!AfterMiss
  <2>3. CASE n \notin names
    BY <2>3 DEF RecordAttempt
  <2>4. QED
    BY <2>1, <2>2, <2>3
<1>2. gone \in SUBSET {n \in names \ Static : Trust(n, store[n]) = "uncertain"}
    OBVIOUS
<1> HIDE DEF gone
<1>3. gone \in Contract!MayExpire([n \in Registers |-> StatusOf(n)], names)
    BY <1>2 DEF Mapped, Contract!MayExpire
<1>4. QED
    BY <1>1, <1>3 DEF Mapped, Contract!Miss, Contract!MissedStatuses

LEMMA InvalidateMarks ==
    ASSUME IInv, Mapped, Mapped', NEW n \in Registers, Invalidate(n)
    PROVE  Contract!Invalidate(n)
<1> DEFINE d == [store[n] EXCEPT !.quality = "BAD", !.pending = TRUE]
<1>1. store' = [store EXCEPT ![n] = d] /\ store[n] # NoEntry /\ Good(store[n])
    BY DEF Invalidate, Cached, IInv
<1>2. Good(d) /\ d.value = store[n].value /\ d.pending = TRUE
    BY <1>1, InvalidIsGood
<1>3. d # NoEntry
    BY <1>2, NoEntryAssumption DEF Good
<1> HIDE DEF d
<1>4. /\ Trust(n, d) = "pending" /\ ValueOf(d) = ValueOf(store[n])
      /\ Trust(n, store[n]) # "never"
    BY <1>1, <1>2, <1>3 DEF Trust, ValueOf
<1>5. /\ store'[n] = d
      /\ \A other \in Registers \ {n} : store'[other] = store[other]
    BY <1>1 DEF IInv
<1>6. ASSUME NEW m \in Registers
      PROVE  /\ ValueOf(store'[m]) = ValueOf(store[m])
             /\ Trust(m, store'[m]) = IF m = n THEN "pending" ELSE Trust(m, store[m])
  <2>1. CASE m = n
    BY <2>1, <1>4, <1>5
  <2>2. CASE m # n
    BY <2>2, <1>5
  <2>3. QED
    BY <2>1, <2>2
<1> DEFINE before == [m \in Registers |-> Trust(m, store[m])]
           after  == [m \in Registers |-> Trust(m, store'[m])]
           value  == [m \in Registers |-> ValueOf(store[m])]
<1>7. after = [before EXCEPT ![n] = Contract!AfterInvalidate(@)]
  <2>1. before[n] # "never" /\ after[n] = "pending"
    BY <1>4, <1>6
  <2>2. \A m \in Registers : after[m] = IF m = n THEN "pending" ELSE before[m]
    BY <1>6
  <2>3. before = [m \in Registers |-> before[m]] /\ after = [m \in Registers |-> after[m]]
    OBVIOUS
  <2> HIDE DEF before, after
  <2>4. QED
    BY <2>1, <2>2, <2>3 DEF Contract!AfterInvalidate
<1>8. value = [m \in Registers |-> ValueOf(store'[m])]
    BY <1>6
<1>9. QED
    BY <1>7, <1>8 DEF Mapped, Contract!Invalidate

LEMMA InvalidateAllLosesLink ==
    ASSUME IInv, Mapped, Mapped', InvalidateAll
    PROVE  Contract!LoseLink
<1>1. ASSUME NEW n \in Registers
      PROVE  /\ ValueOf(store'[n]) = ValueOf(store[n])
             /\ Trust(n, store'[n]) = Contract!AfterLinkLoss(n, Trust(n, store[n]))
  <2>1. CASE Cached(n) /\ ~store[n].pending /\ n \notin Static
    <3>1. /\ store'[n] = [store[n] EXCEPT !.quality = "UNCERTAIN", !.unsure = Unsure(store[n])]
          /\ Good(store[n])
      BY <2>1 DEF InvalidateAll, IInv, Cached
    <3>2. QED
      BY <2>1, <3>1, LinkLossIsAllowed, ZenonT(40) DEF Contract!AfterLinkLoss
  <2>2. CASE ~(Cached(n) /\ ~store[n].pending /\ n \notin Static)
    <3>1. store'[n] = store[n]
      BY <2>2 DEF InvalidateAll
    <3>2. n \in Static \/ Trust(n, store[n]) # "good"
      BY <2>2 DEF Trust, Cached
    <3>3. QED
      BY <3>1, <3>2 DEF Contract!AfterLinkLoss
  <2>3. QED
    BY <2>1, <2>2
<1>2. QED
    BY <1>1 DEF Mapped, Contract!LoseLink

LEMMA SetNightModeStutters ==
    ASSUME IInv, Mapped, Mapped', NEW active \in BOOLEAN, SetNightMode(active)
    PROVE  UNCHANGED Contract!cacheVars
<1>1. ASSUME NEW n \in Registers
      PROVE  ValueOf(store'[n]) = ValueOf(store[n]) /\ Trust(n, store'[n]) = Trust(n, store[n])
  <2>1. CASE ~active /\ Cached(n) /\ store[n].tier \in {"normal", "fast"}
    <3>1. /\ store'[n] = [store[n] EXCEPT !.ttl = BaseTTL[store[n].tier]]
          /\ Good(store[n])
      BY <2>1 DEF SetNightMode, IInv, Cached
    <3>2. QED
      BY <3>1, ReclockingChangesNothing
  <2>2. CASE ~(~active /\ Cached(n) /\ store[n].tier \in {"normal", "fast"})
    BY <2>2 DEF SetNightMode
  <2>3. QED
    BY <2>1, <2>2
<1>2. QED
    BY <1>1 DEF Mapped, Contract!cacheVars

LEMMA TickExpires ==
    ASSUME IInv, Mapped, Mapped', Tick
    PROVE  Contract!Expire(Registers)
<1> DEFINE gone == {n \in Registers \ Static :
                       Trust(n, store[n]) = "uncertain" /\ Trust(n, store'[n]) = "expired"}
<1>1. ASSUME NEW n \in Registers
      PROVE  /\ ValueOf(store'[n]) = ValueOf(store[n])
             /\ Trust(n, store'[n]) = IF n \in gone THEN "expired" ELSE Trust(n, store[n])
  <2>1. CASE Cached(n)
    <3>1. store'[n] = AgedEntry(store[n]) /\ Good(store[n])
      BY <2>1 DEF Tick, IInv, Cached, AgedEntry
    <3>2. /\ ValueOf(store'[n]) = ValueOf(store[n])
          /\ \/ Trust(n, store'[n]) = Trust(n, store[n])
             \/ /\ Trust(n, store[n]) = "uncertain" /\ Trust(n, store'[n]) = "expired"
                /\ n \notin Static
      BY <3>1, AgeingIsAllowed
    <3>3. QED
      BY <3>2
  <2>2. CASE ~Cached(n)
    <3>1. store[n] = NoEntry
      BY <2>2 DEF Cached
    <3>2. store'[n] = NoEntry
      BY <2>2 DEF Tick
    <3>3. QED
      BY <3>1, <3>2 DEF Trust
  <2>3. QED
    BY <2>1, <2>2
<1>2. gone \in SUBSET {n \in Registers \ Static : Trust(n, store[n]) = "uncertain"}
    OBVIOUS
<1> HIDE DEF gone
<1>3. gone \in Contract!MayExpire([n \in Registers |-> StatusOf(n)], Registers)
    BY <1>2 DEF Mapped, Contract!MayExpire
<1>4. QED
    BY <1>1, <1>3 DEF Mapped, Contract!Expire, Contract!MissedStatuses

LEMMA StepIsAllowed ==
    ASSUME IInv, Mapped, Mapped', [Next]_vars
    PROVE  [Contract!ContractNext]_(Contract!cacheVars)
<1>1. ASSUME NEW names \in SUBSET Registers, NEW results \in [names -> Values], Update(results)
      PROVE  Contract!ContractNext
    BY <1>1, UpdateStores DEF Contract!ContractNext
<1>2. ASSUME NEW names \in SUBSET Registers, RecordAttempt(names) PROVE Contract!ContractNext
    BY <1>2, RecordAttemptMisses DEF Contract!ContractNext
<1>3. ASSUME NEW n \in Registers, Invalidate(n) PROVE Contract!ContractNext
    BY <1>3, InvalidateMarks DEF Contract!ContractNext
<1>4. CASE InvalidateAll
    BY <1>4, InvalidateAllLosesLink DEF Contract!ContractNext
<1>5. ASSUME NEW active \in BOOLEAN, SetNightMode(active) PROVE UNCHANGED Contract!cacheVars
    BY <1>5, SetNightModeStutters
<1>6. CASE Tick
    BY <1>6, TickExpires DEF Contract!ContractNext
<1>7. ASSUME UNCHANGED vars PROVE UNCHANGED Contract!cacheVars
    BY <1>7 DEF vars, Mapped, Contract!cacheVars
<1>8. QED
    BY <1>1, <1>2, <1>3, <1>4, <1>5, <1>6, <1>7 DEF Next

\* The cache with its clocks, TTLs, tiers and night mode implements the
\* clockless contract that the poll and the write path are built on.
THEOREM CacheImplementsContract == Spec => ImplementsContract
<1>1. Init => Contract!ContractInit
    BY DEF Init, Contract!ContractInit, StatusOf, Cached
<1>2. IInv /\ IInv' /\ [Next]_vars => [Contract!ContractNext]_(Contract!cacheVars)
  <2> SUFFICES ASSUME IInv, IInv', [Next]_vars
               PROVE  [Contract!ContractNext]_(Contract!cacheVars)
    OBVIOUS
  <2>1. Mapped
    BY MappedHolds
  <2>2. Mapped'
    BY MappedHolds, PTL
  <2>3. QED
    BY <2>1, <2>2, StepIsAllowed
<1>3. QED
    BY <1>1, <1>2, IInvHolds, PTL DEF Spec, ImplementsContract, Contract!ContractSpec
=============================================================================
