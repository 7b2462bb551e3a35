---------------------------- MODULE SyncPowerProofs ----------------------------
(***************************************************************************)
(* Proofs about SyncPower, for any sources, tolerance and deadline.        *)
(***************************************************************************)
EXTENDS SyncPower, TLAPS

\* A read is requested only before the deadline, and waits no longer than it may.
InTime ==
    /\ elapsed < DEADLINE + ReadLimit
    /\ phase = "reading" => elapsed < DEADLINE + waited

\* What the poll took was cached before it started or read since.
AgesInTime == oldest # None => oldest <= MaxAge + elapsed

\* Where the poll is in its sequence of reads.
InSequence ==
    /\ phase = "idle" => turn = 1
    /\ phase = "reading" => turn <= Len(ReadOrder)

\* A source that has stayed GOOD is so still, has been taken when its turn
\* came, and is never the one that is read.
FreshIsTaken ==
    phase # "idle" =>
        /\ \A s \in fresh : Good(s)
        /\ \A i \in DOMAIN ReadOrder : i < turn /\ ReadOrder[i] \in fresh => taken[ReadOrder[i]] # None
        /\ phase = "reading" => Now \notin fresh

IInv ==
    /\ TypeOK /\ InTime /\ AgesInTime /\ InSequence /\ FreshIsTaken
    /\ FreshIsPublished /\ UnflaggedIsAligned

-----------------------------------------------------------------------------
LEMMA SourceOfTurn ==
    ASSUME TypeOK, turn <= Len(ReadOrder)
    PROVE  turn \in DOMAIN ReadOrder /\ Now \in Sources
BY SyncAssumption DEF TypeOK, Now, Sources

\* What Took and Mark do to the types and bounds, for an age that the poll may see.
LEMMA TookKeepsBounds ==
    ASSUME TypeOK, InTime, AgesInTime, turn <= Len(ReadOrder),
           NEW age \in (0 .. MaxAge) \cup {None}, NEW capture \in 0 .. MaxAge,
           age \in {capture, None},
           Took(age), Mark(capture)
    PROVE  /\ turn' \in 1 .. Len(ReadOrder) + 1
           /\ taken' \in [Sources -> Ages \cup {None}]
           /\ oldest' \in Ages /\ newest' \in 0 .. oldest'
           /\ oldest' <= MaxAge + elapsed
           /\ \A s \in Sources : taken'[s] # None => taken'[s] \in newest' .. oldest'
<1>1. Now \in Sources
  BY SourceOfTurn
<1>2. turn \in 1 .. Len(ReadOrder) + 1 /\ Len(ReadOrder) \in Nat
  BY SyncAssumption DEF TypeOK
<1>3. turn' \in 1 .. Len(ReadOrder) + 1
  BY <1>2 DEF Took
<1>4. capture \in Ages /\ capture \in Nat /\ capture # None
  BY SyncAssumption DEF Ages
<1>5. taken' \in [Sources -> Ages \cup {None}]
  BY <1>4 DEF Took, TypeOK
<1>6. /\ oldest' \in Ages /\ newest' \in 0 .. oldest'
      /\ oldest' <= MaxAge + elapsed
      /\ capture \in newest' .. oldest'
  <2>1. MaxAge \in Nat /\ ReadLimit \in Nat /\ DEADLINE \in Nat /\ elapsed \in Nat
    BY SyncAssumption DEF TypeOK
  <2>2. CASE oldest = None
    <3>1. newest = None /\ oldest' = capture /\ newest' = capture
      BY <2>2 DEF Mark, TypeOK
    <3>. QED
      BY <1>4, <2>1, <3>1 DEF Ages
  <2>3. CASE oldest # None
    <3>1. /\ oldest \in Nat /\ newest \in Nat /\ newest <= oldest /\ newest # None
          /\ oldest <= MaxAge + ReadLimit + DEADLINE /\ oldest <= MaxAge + elapsed
      BY <2>1, <2>3 DEF TypeOK, Ages, AgesInTime
    <3>2. /\ oldest' = IF capture > oldest THEN capture ELSE oldest
          /\ newest' = IF capture < newest THEN capture ELSE newest
      BY <2>3, <3>1 DEF Mark
    <3>. QED
      BY <1>4, <2>1, <3>1, <3>2 DEF Ages
  <2>. QED
    BY <2>2, <2>3
<1>9. ASSUME NEW s \in Sources, taken'[s] # None
      PROVE  taken'[s] \in newest' .. oldest'
  <2>1. CASE s = Now
    BY <1>6, <1>9, <2>1 DEF Took, TypeOK
  <2>2. CASE s # Now
    <3>1. taken'[s] = taken[s]
      BY <2>2 DEF Took, TypeOK
    <3>2. taken[s] \in newest .. oldest /\ oldest # None /\ newest # None
      BY <1>9, <3>1 DEF TypeOK
    <3>3. newest' <= newest /\ oldest <= oldest'
      BY <1>4, <3>2 DEF Mark, TypeOK, Ages
    <3>. QED
      BY <1>6, <3>1, <3>2, <3>3, SyncAssumption, SMTT(20) DEF TypeOK, Ages
  <2>. QED
    BY <2>1, <2>2
<1>. QED
  BY <1>3, <1>5, <1>6, <1>9

\* A source whose turn passes is left out only if it has not stayed GOOD.
LEMMA TookKeepsFresh ==
    ASSUME TypeOK, FreshIsTaken, phase # "idle", turn <= Len(ReadOrder),
           NEW age \in Ages \cup {None}, age # None \/ Now \notin fresh,
           Took(age), UNCHANGED <<cache, fresh>>
    PROVE  FreshIsTaken' /\ InSequence'
<1>1. turn \in DOMAIN ReadOrder /\ Now \in Sources
  BY SourceOfTurn
<1>2. phase' = "next" /\ turn' = turn + 1 /\ turn \in Nat
  BY DEF Took, TypeOK
<1>3. \A s \in fresh' : Good(s)'
  BY DEF FreshIsTaken, Good
<1>4. ASSUME NEW i \in DOMAIN ReadOrder, i < turn', ReadOrder[i] \in fresh
      PROVE  taken'[ReadOrder[i]] # None
  <2>1. i \in Nat /\ ReadOrder[i] \in Sources
    BY SyncAssumption DEF Sources
  <2>2. CASE i = turn
    BY <1>1, <1>4, <2>2 DEF Took, TypeOK, Now
  <2>3. CASE i < turn
    <3>1. ReadOrder[i] # Now
      BY <1>1, <1>2, <2>1, <2>3, SyncAssumption DEF Now
    <3>. QED
      BY <1>4, <2>1, <2>3, <3>1 DEF Took, TypeOK, FreshIsTaken
  <2>. QED
    BY <1>2, <1>4, <2>1, <2>2, <2>3
<1>. QED
  BY <1>2, <1>3, <1>4 DEF FreshIsTaken, InSequence

\* The same for a whole _read_one that leaves the clock and the result alone.
LEMMA ReadOneKeeps ==
    ASSUME IInv, phase # "idle", turn <= Len(ReadOrder),
           NEW age \in Ages \cup {None}, age # None \/ Now \notin fresh,
           \/ \E capture \in 0 .. MaxAge : age \in {capture, None} /\ Mark(capture)
           \/ age = None /\ Unmarked,
           Took(age),
           UNCHANGED <<cache, dedicated, elapsed, waited, failing, result, fresh>>
    PROVE  IInv'
<1>1. FreshIsTaken' /\ InSequence'
  BY TookKeepsFresh DEF IInv
<1>2. FreshIsPublished' /\ UnflaggedIsAligned'
  BY DEF IInv, FreshIsPublished, UnflaggedIsAligned, Published
<1>3. InTime'
  BY DEF IInv, InTime, Took
<1>4. /\ turn' \in 1 .. Len(ReadOrder) + 1
      /\ taken' \in [Sources -> Ages \cup {None}]
      /\ oldest' = None <=> newest' = None
      /\ oldest' # None => oldest' \in Ages /\ newest' \in 0 .. oldest'
      /\ \A s \in Sources : taken'[s] # None => oldest' # None /\ taken'[s] \in newest' .. oldest'
      /\ AgesInTime'
  <2>1. CASE \E capture \in 0 .. MaxAge : age \in {capture, None} /\ Mark(capture)
    <3>1. PICK capture \in 0 .. MaxAge : age \in {capture, None} /\ Mark(capture)
      BY <2>1
    <3>2. /\ turn' \in 1 .. Len(ReadOrder) + 1
          /\ taken' \in [Sources -> Ages \cup {None}]
          /\ oldest' \in Ages /\ newest' \in 0 .. oldest'
          /\ oldest' <= MaxAge + elapsed
          /\ \A s \in Sources : taken'[s] # None => taken'[s] \in newest' .. oldest'
      <4>1. age \in (0 .. MaxAge) \cup {None}
        BY <3>1
      <4>. QED
        BY <3>1, <4>1, TookKeepsBounds DEF IInv
    <3>3. oldest' # None /\ newest' # None
      BY <3>2, SyncAssumption DEF Ages
    <3>. QED
      BY <3>2, <3>3 DEF AgesInTime
  <2>2. CASE age = None /\ Unmarked
    <3>1. turn' \in 1 .. Len(ReadOrder) + 1
      BY SyncAssumption DEF IInv, TypeOK, Took
    <3>2. /\ taken' \in [Sources -> Ages \cup {None}]
          /\ \A s \in Sources : taken'[s] # None => taken'[s] = taken[s]
      BY <2>2 DEF IInv, TypeOK, Took
    <3>. QED
      BY <2>2, <3>1, <3>2 DEF IInv, TypeOK, Unmarked, AgesInTime
  <2>. QED
    BY <2>1, <2>2
<1>5. TypeOK'
  BY <1>4 DEF IInv, TypeOK, Took
<1>. QED
  BY <1>1, <1>2, <1>3, <1>4, <1>5 DEF IInv

\* Between polls: what is returned at once, without waiting for the bus.
LEMMA AtOnceKeeps ==
    ASSUME IInv, TakeShortcut \/ CacheOnly
    PROVE  IInv'
<1>1. phase = "idle" /\ UNCHANGED <<cache, dedicated, poll, failing>> /\ fresh' = GoodNow
  BY DEF TakeShortcut, CacheOnly
<1>2. PICK S \in SUBSET Sources, u \in BOOLEAN :
         /\ Publish(AgesOf(S), u)
         /\ GoodNow \subseteq S
         /\ ~u => Aligned
  <2>1. CASE TakeShortcut
    BY <2>1 DEF TakeShortcut, Shortcut
  <2>2. CASE CacheOnly
    <3>1. GoodNow \subseteq {s \in Sources : Served(s)}
      BY DEF GoodNow, Good, Served
    <3>. QED
      BY <2>2, <3>1 DEF CacheOnly
  <2>. QED
    BY <2>1, <2>2
<1>3. \A s \in Sources : cache[s].age \in 0 .. MaxAge
  BY DEF IInv, TypeOK
<1>4. 0 .. MaxAge \subseteq Ages /\ None \notin Ages
  BY SyncAssumption DEF Ages
<1>5. AgesOf(S) \in [Sources -> Ages \cup {None}]
  BY <1>3, <1>4 DEF AgesOf
<1>6. \A s \in Sources : /\ s \in S => AgesOf(S)[s] = cache[s].age /\ cache[s].age # None
                         /\ s \notin S => AgesOf(S)[s] = None
  BY <1>3, <1>4 DEF AgesOf
<1>7. result' = [kind |-> "data", uncertain |-> u, age |-> AgesOf(S)]
  BY <1>2 DEF Publish
<1>8. TypeOK'
  <2>1. fresh' \subseteq Sources
    BY <1>1 DEF GoodNow
  <2>. QED
    BY <1>1, <1>5, <1>7, <2>1 DEF IInv, TypeOK, poll
<1>9. FreshIsPublished'
  <2>1. GoodNow \subseteq Sources
    BY DEF GoodNow
  <2>. QED
    BY <1>1, <1>2, <1>6, <1>7, <2>1 DEF FreshIsPublished, Published
<1>10. UnflaggedIsAligned'
  <2>1. \A s \in Sources : Published(s)' => s \in S
    BY <1>6, <1>7 DEF Published
  <2>. QED
    BY <1>2, <1>6, <1>7, <2>1 DEF UnflaggedIsAligned, Aligned
<1>. QED
  BY <1>1, <1>8, <1>9, <1>10 DEF IInv, InTime, AgesInTime, InSequence, FreshIsTaken, poll

\* The end of a poll that has taken what it could.
LEMMA FinishKeeps ==
    ASSUME IInv, Finish
    PROVE  IInv'
<1>1. /\ phase' = "idle" /\ turn' = 1 /\ taken' = Nothing
      /\ oldest' = None /\ newest' = None /\ elapsed' = 0 /\ waited' = 0
      /\ UNCHANGED <<cache, dedicated, fresh>>
  BY DEF Finish, PollEnds
<1>2. Len(ReadOrder) \in Nat /\ ReadLimit \in Nat /\ DEADLINE \in Nat \ {0}
  BY SyncAssumption
<1>3. \A s \in fresh : taken[s] # None
  <2>1. SUFFICES ASSUME NEW s \in fresh PROVE taken[s] # None
    OBVIOUS
  <2>2. PICK i \in DOMAIN ReadOrder : ReadOrder[i] = s
    BY DEF IInv, TypeOK, Sources
  <2>3. i < turn
    BY SyncAssumption DEF IInv, TypeOK, Finish
  <2>. QED
    BY <2>2, <2>3 DEF IInv, FreshIsTaken, Finish
<1>4. CASE oldest = None
  <2>1. result' = [kind |-> "failed", uncertain |-> FALSE, age |-> [s \in Sources |-> None]]
    BY <1>4 DEF Finish, NoResult
  <2>2. failing' = TRUE
    BY <1>4 DEF Finish
  <2>3. fresh = {}
    BY <1>3, <1>4 DEF IInv, TypeOK
  <2>4. TypeOK'
    BY <1>1, <1>2, <2>1, <2>2 DEF IInv, TypeOK, Nothing
  <2>. QED
    BY <1>1, <1>2, <2>1, <2>3, <2>4
       DEF IInv, InTime, AgesInTime, InSequence, FreshIsTaken, FreshIsPublished, UnflaggedIsAligned
<1>5. CASE oldest # None
  <2>1. result' = [kind |-> "data", uncertain |-> oldest - newest > TOLERANCE, age |-> taken]
    BY <1>5 DEF Finish, Publish
  <2>2. failing' = FALSE
    BY <1>5 DEF Finish
  <2>3. TypeOK'
    <3>1. (oldest - newest > TOLERANCE) \in BOOLEAN
      OBVIOUS
    <3>2. taken \in [Sources -> Ages \cup {None}]
      BY DEF IInv, TypeOK
    <3>3. result' \in [kind : {"none", "failed", "data"}, uncertain : BOOLEAN,
                      age : [Sources -> Ages \cup {None}]]
      BY <2>1, <3>1, <3>2
    <3>4. /\ turn' \in 1 .. Len(ReadOrder) + 1 /\ waited' \in 0 .. ReadLimit
          /\ taken' \in [Sources -> Ages \cup {None}]
          /\ \A s \in Sources : taken'[s] = None
      BY <1>1, <1>2 DEF Nothing
    <3>5. /\ cache' = cache /\ dedicated' = dedicated /\ failing' \in BOOLEAN
          /\ fresh' = fresh /\ elapsed' \in Nat
      BY <1>1, <2>2
    <3>. QED
      BY <1>1, <3>3, <3>4, <3>5 DEF IInv, TypeOK
  <2>4. FreshIsPublished'
    BY <1>1, <1>3, <2>1 DEF FreshIsPublished, Published
  <2>5. UnflaggedIsAligned'
    <3>1. oldest \in Nat /\ newest \in Nat /\ TOLERANCE \in Nat
      BY <1>5, SyncAssumption DEF IInv, TypeOK, Ages
    <3>2. \A s \in Sources : taken[s] # None => taken[s] \in newest .. oldest
      BY DEF IInv, TypeOK
    <3>3. SUFFICES ASSUME ~(oldest - newest > TOLERANCE),
                          NEW s \in Sources, NEW t \in Sources, taken[s] # None, taken[t] # None
                   PROVE  taken[s] - taken[t] <= TOLERANCE
      BY <2>1 DEF UnflaggedIsAligned, Published
    <3>4. taken[s] \in newest .. oldest /\ taken[t] \in newest .. oldest
      BY <3>2, <3>3
    <3>. QED
      BY <3>1, <3>3, <3>4
  <2>. QED
    BY <1>1, <1>2, <2>3, <2>4, <2>5 DEF IInv, InTime, AgesInTime, InSequence, FreshIsTaken
<1>. QED
  BY <1>4, <1>5

LEMMA PollStepKeeps ==
    ASSUME IInv, Poll
    PROVE  IInv'
<1>0. 0 \in Ages /\ 0 \in 0 .. MaxAge /\ 0 # None
  BY SyncAssumption DEF Ages
<1>1. CASE TakeShortcut \/ CacheOnly
  BY <1>1, AtOnceKeeps
<1>2. CASE StartReads
  BY <1>2, SyncAssumption
     DEF StartReads, IInv, TypeOK, InTime, AgesInTime, InSequence, FreshIsTaken,
         FreshIsPublished, UnflaggedIsAligned, NoResult, GoodNow, Good, Published
<1>3. CASE Undecided /\ FromCache
  <2>1. Now \in Sources
    BY <1>3, SourceOfTurn DEF IInv, Undecided
  <2>2. cache[Now].age \in 0 .. MaxAge /\ cache[Now].age \in Ages /\ cache[Now].age # None
    BY <2>1, SyncAssumption DEF IInv, TypeOK, Ages
  <2>. QED
    BY <1>3, <2>2, ReadOneKeeps DEF FromCache, TookFromCache, Undecided, CaptureAge
<1>4. CASE TooLate
  <2>1. Now \notin fresh
    BY <1>4 DEF TooLate, Undecided, Usable, IInv, FreshIsTaken
  <2>. QED
    BY <1>4, <2>1, ReadOneKeeps DEF TooLate, Undecided
<1>5. CASE Request
  <2>1. Now \notin fresh
    BY <1>5 DEF Request, Undecided, Usable, IInv, FreshIsTaken
  <2>2. elapsed < DEADLINE + 0
    BY <1>5, SyncAssumption DEF Request, Late, IInv, TypeOK
  <2>. QED
    BY <1>5, <2>1, <2>2, SyncAssumption
       DEF Request, Undecided, IInv, TypeOK, InTime, AgesInTime, InSequence, FreshIsTaken,
           FreshIsPublished, UnflaggedIsAligned, Published, Good, Now
<1>6. CASE ReadAnswered
  <2>1. Now \notin fresh /\ turn <= Len(ReadOrder) /\ phase # "idle"
    BY <1>6 DEF ReadAnswered, IInv, FreshIsTaken, InSequence
  <2>2. PICK age \in {0, None} : Took(age)
    BY <1>6 DEF ReadAnswered
  <2>. QED
    BY <1>0, <1>6, <2>1, <2>2, ReadOneKeeps DEF ReadAnswered
<1>7. CASE ReadFails
  <2>1. Now \notin fresh /\ turn <= Len(ReadOrder) /\ phase # "idle"
    BY <1>7 DEF ReadFails, IInv, FreshIsTaken, InSequence
  <2>2. Now \in Sources
    BY <2>1, SourceOfTurn DEF IInv
  <2>3. cache[Now].age \in 0 .. MaxAge /\ cache[Now].age \in Ages /\ cache[Now].age # None
    BY <2>2, SyncAssumption DEF IInv, TypeOK, Ages
  <2>. QED
    BY <1>7, <2>1, <2>3, ReadOneKeeps DEF ReadFails, TookFromCache, CaptureAge
<1>8. CASE Finish
  BY <1>8, FinishKeeps
<1>9. CASE Cancelled
  BY <1>9, SyncAssumption
     DEF Cancelled, PollEnds, Nothing, IInv, TypeOK, InTime, AgesInTime, InSequence,
         FreshIsTaken, FreshIsPublished, UnflaggedIsAligned, NoResult, Published
<1>. QED
  BY <1>1, <1>2, <1>3, <1>4, <1>5, <1>6, <1>7, <1>8, <1>9 DEF Poll, FromCache

\* The caches change, and time passes, at any await of the poll.
LEMMA EnvironmentKeeps ==
    ASSUME IInv, Tick \/ \E s \in Sources : Refreshed(s) \/ Missed(s) \/ Blanked(s)
    PROVE  IInv'
<1>1. ASSUME NEW s \in Sources,
             NEW entry \in [age : 0 .. MaxAge, quality : {"GOOD", "UNCERTAIN", "BAD"}],
             Changed(s, entry)
      PROVE  IInv'
  <2>1. /\ cache' = [cache EXCEPT ![s] = entry]
        /\ result' = NoResult
        /\ fresh' \subseteq fresh
        /\ phase # "idle" /\ s \in fresh' => entry.quality = "GOOD"
        /\ UNCHANGED <<dedicated, poll, failing>>
    BY <1>1 DEF Changed
  <2>2. TypeOK'
    BY <1>1, <2>1 DEF IInv, TypeOK, NoResult, poll
  <2>3. FreshIsTaken'
    BY <1>1, <2>1 DEF IInv, TypeOK, FreshIsTaken, Good, Now, poll
  <2>. QED
    BY <2>1, <2>2, <2>3
       DEF IInv, InTime, AgesInTime, InSequence, FreshIsPublished, UnflaggedIsAligned,
           Published, NoResult, poll
<1>2. CASE \E s \in Sources : Refreshed(s) \/ Missed(s) \/ Blanked(s)
  <2>1. PICK s \in Sources : Refreshed(s) \/ Missed(s) \/ Blanked(s)
    BY <1>2
  <2>2. cache[s] \in [age : 0 .. MaxAge, quality : {"GOOD", "UNCERTAIN", "BAD"}]
    BY DEF IInv, TypeOK
  <2>3. 0 \in 0 .. MaxAge
    BY SyncAssumption
  <2>4. CASE Refreshed(s)
    BY <1>1, <2>3, <2>4 DEF Refreshed
  <2>5. CASE Missed(s)
    <3>1. [cache[s] EXCEPT !.quality = "UNCERTAIN"]
             \in [age : 0 .. MaxAge, quality : {"GOOD", "UNCERTAIN", "BAD"}]
      BY <2>2
    <3>. QED
      BY <1>1, <2>5, <3>1 DEF Missed
  <2>6. CASE Blanked(s)
    BY <1>1, <2>3, <2>6 DEF Blanked, Bad
  <2>. QED
    BY <2>1, <2>4, <2>5, <2>6
<1>3. CASE Tick
  <2>1. /\ phase # "next"
        /\ phase = "reading" => waited < ReadLimit
        /\ cache' = [s \in Sources |-> IF Served(s) THEN [cache[s] EXCEPT !.age = @ + 1] ELSE Bad]
        /\ fresh' \subseteq fresh
        /\ result' = NoResult
        /\ UNCHANGED <<dedicated, failing>>
    BY <1>3 DEF Tick
  <2>2. cache' \in [Sources -> [age : 0 .. MaxAge, quality : {"GOOD", "UNCERTAIN", "BAD"}]]
    <3>1. ASSUME NEW s \in Sources, Served(s)
          PROVE  [cache[s] EXCEPT !.age = @ + 1]
                    \in [age : 0 .. MaxAge, quality : {"GOOD", "UNCERTAIN", "BAD"}]
      <4>1. cache[s] \in [age : 0 .. MaxAge, quality : {"GOOD", "UNCERTAIN", "BAD"}]
        BY DEF IInv, TypeOK
      <4>2. cache[s].age < MaxAge
        BY <1>3, <3>1 DEF Tick
      <4>3. cache[s].age + 1 \in 0 .. MaxAge
        BY <4>1, <4>2, SyncAssumption
      <4>. QED
        BY <4>1, <4>3
    <3>2. Bad \in [age : 0 .. MaxAge, quality : {"GOOD", "UNCERTAIN", "BAD"}]
      BY SyncAssumption DEF Bad
    <3>. QED
      BY <2>1, <3>1, <3>2
  <2>3. \A s \in Sources : Good(s) => Good(s)'
    BY <2>1 DEF IInv, TypeOK, Good, Served
  <2>4. CASE phase = "idle"
    <3>1. UNCHANGED poll
      BY <1>3, <2>4 DEF Tick
    <3>. QED
      BY <2>1, <2>2, <2>4, <3>1
         DEF IInv, TypeOK, InTime, AgesInTime, InSequence, FreshIsTaken, FreshIsPublished,
             UnflaggedIsAligned, Published, NoResult, poll
  <2>5. CASE phase # "idle"
    <3>1. /\ phase = "reading" /\ waited < ReadLimit
          /\ elapsed' = elapsed + 1 /\ waited' = waited + 1
          /\ taken' = [s \in Sources |-> Older(taken[s])]
          /\ oldest' = Older(oldest) /\ newest' = Older(newest)
          /\ UNCHANGED <<phase, turn>>
      BY <1>3, <2>1, <2>5 DEF Tick, IInv, TypeOK
    <3>2. ReadLimit \in Nat /\ DEADLINE \in Nat /\ MaxAge \in Nat /\ elapsed \in Nat
          /\ waited \in Nat /\ None \notin Nat
      BY SyncAssumption DEF IInv, TypeOK
    <3>3. InTime'
      BY <3>1, <3>2 DEF IInv, InTime
    <3>4. oldest # None =>
             /\ oldest \in Nat /\ newest \in Nat /\ newest # None /\ newest <= oldest
             /\ oldest <= MaxAge + elapsed
             /\ oldest' = oldest + 1 /\ newest' = newest + 1
             /\ oldest' # None /\ newest' # None
      BY <3>1, <3>2 DEF IInv, TypeOK, AgesInTime, Ages, Older
    <3>5. oldest = None => oldest' = None /\ newest' = None
      BY <3>1 DEF IInv, TypeOK, Older
    <3>6. AgesInTime'
      BY <3>1, <3>2, <3>4, <3>5 DEF AgesInTime
    <3>7. oldest # None => oldest' \in Ages /\ newest' \in 0 .. oldest'
      BY <3>1, <3>2, <3>3, <3>4, <3>6 DEF Ages, AgesInTime, InTime
    <3>8. ASSUME NEW s \in Sources, taken[s] # None
          PROVE  /\ oldest # None /\ taken'[s] # None
                 /\ taken'[s] \in newest' .. oldest' /\ taken'[s] \in Ages
      <4>1. oldest # None /\ taken[s] \in newest .. oldest
        BY <3>8 DEF IInv, TypeOK
      <4>2. taken'[s] = taken[s] + 1
        BY <3>1, <3>8 DEF Older
      <4>. QED
        BY <3>2, <3>4, <3>7, <4>1, <4>2 DEF Ages
    <3>9. \A s \in Sources : taken[s] = None => taken'[s] = None
      BY <3>1 DEF Older
    <3>10. taken' \in [Sources -> Ages \cup {None}]
      <4>1. \A s \in Sources : taken'[s] \in Ages \cup {None}
        BY <3>8, <3>9
      <4>. QED
        BY <3>1, <4>1
    <3>11. \A s \in Sources : taken'[s] # None => oldest' # None /\ taken'[s] \in newest' .. oldest'
      BY <3>4, <3>8, <3>9
    <3>12. TypeOK'
      BY <2>1, <2>2, <3>1, <3>2, <3>4, <3>5, <3>7, <3>10, <3>11 DEF IInv, TypeOK, NoResult
    <3>13. FreshIsTaken'
      <4>1. \A i \in DOMAIN ReadOrder : ReadOrder[i] \in Sources
        BY DEF Sources
      <4>. QED
        BY <2>1, <2>3, <3>1, <3>8, <4>1 DEF IInv, TypeOK, FreshIsTaken, Now
    <3>. QED
      BY <2>1, <3>1, <3>3, <3>6, <3>12, <3>13
         DEF IInv, InSequence, FreshIsPublished, UnflaggedIsAligned, Published, NoResult
  <2>. QED
    BY <2>4, <2>5
<1>. QED
  BY <1>2, <1>3

-----------------------------------------------------------------------------
LEMMA Inductive == Spec => []IInv
<1>1. Init => IInv
  <2> SUFFICES ASSUME Init PROVE IInv
    OBVIOUS
  <2>1. Len(ReadOrder) \in Nat /\ 0 \in 0 .. MaxAge /\ 0 \in 0 .. ReadLimit
    BY SyncAssumption
  <2>2. NoResult \in [kind : {"none", "failed", "data"}, uncertain : BOOLEAN,
                     age : [Sources -> Ages \cup {None}]]
    BY DEF NoResult
  <2>3. TypeOK
    <3>1. cache \in [Sources -> [age : 0 .. MaxAge, quality : {"GOOD", "UNCERTAIN", "BAD"}]]
      BY <2>1 DEF Init, Bad
    <3>2. turn \in 1 .. Len(ReadOrder) + 1 /\ elapsed \in Nat /\ waited \in 0 .. ReadLimit
      BY <2>1 DEF Init
    <3>3. taken \in [Sources -> Ages \cup {None}] /\ \A s \in Sources : taken[s] = None
      BY DEF Init, Nothing
    <3>. QED
      BY <2>2, <3>1, <3>2, <3>3 DEF Init, TypeOK
  <2>4. InTime /\ AgesInTime /\ InSequence /\ FreshIsTaken
    BY SyncAssumption DEF Init, InTime, AgesInTime, InSequence, FreshIsTaken
  <2>5. FreshIsPublished /\ UnflaggedIsAligned
    BY DEF Init, FreshIsPublished, UnflaggedIsAligned, NoResult
  <2>. QED
    BY <2>3, <2>4, <2>5 DEF IInv
<1>2. IInv /\ [Next]_vars => IInv'
  <2>1. ASSUME IInv, Next PROVE IInv'
    BY <2>1, PollStepKeeps, EnvironmentKeeps DEF Next
  <2>2. ASSUME IInv, UNCHANGED vars PROVE IInv'
    BY <2>2
       DEF vars, poll, IInv, TypeOK, InTime, AgesInTime, InSequence, FreshIsTaken, Good, Now,
           FreshIsPublished, UnflaggedIsAligned, Published
  <2>. QED
    BY <2>1, <2>2
<1>. QED
  BY <1>1, <1>2, PTL DEF Spec

\* The types, in particular that what a poll has taken lies between the two
\* moments of capture it reports, and is no older than the caches allow.
THEOREM TypeCorrect == Spec => []TypeOK
BY Inductive, PTL DEF IInv

\* _async_update_data: a reading that is not flagged combines values of one
\* moment, up to the tolerance, for any number of sources and any deadline.
THEOREM UnflaggedReadingsAreAligned == Spec => []UnflaggedIsAligned
BY Inductive, PTL DEF IInv

\* _read_one: neither the deadline nor the failures of others cost a value
\* that stays fresh.
THEOREM FreshValuesArePublished == Spec => []FreshIsPublished
BY Inductive, PTL DEF IInv

\* _deadline_exceeded: a poll outlasts its deadline by less than one read.
THEOREM PollsAreBounded == Spec => []PollIsBounded
<1>1. IInv => PollIsBounded
  BY DEF IInv, InTime, PollIsBounded
<1>. QED
  BY <1>1, Inductive, PTL
=============================================================================
