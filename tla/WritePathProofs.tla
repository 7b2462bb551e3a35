--------------------------- MODULE WritePathProofs ---------------------------
(***************************************************************************)
(* Proofs about the poll, with and without writes, for any registers,      *)
(* tiers, chunks and bounds.  PollCycle: its type, that every register of  *)
(* a poll is accounted for once, that what was not read is not trusted,    *)
(* that what is published is what the cache serves, and that a false zero  *)
(* does not pass.  WritePath: that the cache never serves the value that   *)
(* an acknowledged write replaced.  ServiceRegistry: that the services are *)
(* those the loaded entries provide.  DeviceWrites: that of commands that  *)
(* overlap the one called last decides, that no poll finds one half done,  *)
(* and that an edit of the schedule loses no other, for any tasks, periods *)
(* and bounds.                                                             *)
(***************************************************************************)
EXTENDS WritePath, DeviceWrites, SequenceTheorems, WellFoundedInduction, TLAPS

(***************************************************************************)
(* Polls without writes.                                                   *)
(***************************************************************************)

Outcomes == {"none", "owed", "read", "missed", "twice"}

\* A cache whose registers have a value exactly when they have been read.
Filled(v, s) ==
    /\ v \in [Registers -> Values \cup {NoValue}]
    /\ s \in [Registers -> Statuses]
    /\ \A n \in Registers : v[n] = NoValue <=> s[n] = "never"

\* What a poll has recorded, against the cache: nothing twice, and nothing
\* missed that is still good.
Recorded(o, s) ==
    /\ o \in [Registers -> Outcomes]
    /\ \A n \in Registers : o[n] # "twice" /\ (o[n] = "missed" => s[n] # "good")

\* The books of a running poll.  What it owes is what of the batch is not
\* recorded; what it has read is in the cache and served; and if nothing has
\* failed, what is recorded has been read.
Balanced(b, v, s, f, rec, o, fail) ==
    /\ Filled(v, s) /\ Recorded(o, s)
    /\ rec \subseteq b /\ DOMAIN f \subseteq rec
    /\ \A n \in DOMAIN f : f[n] \in Values /\ v[n] = f[n] /\ Servable(s[n])
    /\ \A n \in Registers : o[n] = "owed" <=> n \in b \ rec
    /\ fail \in Failures \ {"cancelled"}
    /\ fail = "none" => rec = DOMAIN f

\* What the other variables can hold.
Surroundings ==
    /\ phase \in Phases
    /\ batch \subseteq Registers /\ prior \subseteq Energy \cap batch
    /\ busyRetries \in 0 .. BUSY_MAX_RETRIES
    /\ failure \in Failures
    /\ timeouts \in 0 .. TIMEOUT_CAP
    /\ backoffCycle \in 0 .. BACKOFF_NORMAL_DIVISOR - 1
    /\ data \in [Registers -> Values \cup {NoValue}]
    /\ available \in BOOLEAN /\ calm \in BOOLEAN

Quiet == todo = {} /\ recorded = {} /\ prior = {} /\ DOMAIN fresh = {}

IInv ==
    /\ Surroundings
    /\ Filled(value, status) /\ Recorded(outcome, status)
    /\ phase \in {"idle", "backoff"} => Quiet
    /\ phase = "idle" =>
          /\ batch = {}
          /\ failure # "cancelled" => \A n \in Registers : outcome[n] # "owed"
    /\ phase # "idle" => Balanced(batch, value, status, fresh, recorded, outcome, failure)
    /\ InBatch => todo = batch \ recorded /\ todo # {}

\* What the end of a poll tells its entities.
TellsTheTruth ==
    Ends => /\ available' => data' = Served(value', status')
            /\ failure' = "none" =>
                  \A n \in prior : /\ data'[n] # 0
                                   /\ Servable(status'[n]) => value'[n] # 0

-----------------------------------------------------------------------------
LEMMA InitIInv == Init => IInv
<1> SUFFICES ASSUME Init PROVE IInv
    OBVIOUS
<1>1. Filled(value, status)
    BY RegistersAssumption DEF Init, ContractInit, Filled, Statuses
<1>2. Recorded(outcome, status)
    BY DEF Init, Recorded, Outcomes
<1>3. Surroundings
    BY PollAssumption DEF Init, Surroundings, Phases, Failures
<1>4. DOMAIN fresh = {}
    BY DEF Init
<1>5. QED
    BY <1>1, <1>2, <1>3, <1>4 DEF Init, IInv, Quiet, InBatch

-----------------------------------------------------------------------------
(* The cache. *)

LEMMA MissingKeepsFilled ==
    ASSUME NEW v, NEW s, Filled(v, s), NEW names \in SUBSET Registers,
           NEW gone \in MayExpire(s, names)
    PROVE  LET t == MissedStatuses(s, names, gone) IN
           /\ Filled(v, t)
           /\ \A n \in Registers :
                 /\ n \in names => t[n] # "good"
                 /\ s[n] # "good" => t[n] # "good"
                 /\ Servable(t[n]) => Servable(s[n])
                 /\ n \notin names => t[n] = s[n]
<1> DEFINE t == MissedStatuses(s, names, gone)
<1>1. gone \subseteq names /\ \A n \in gone : s[n] = "uncertain"
    BY DEF MayExpire
<1>2. \A n \in Registers : t[n] = IF n \in gone THEN "expired"
                                  ELSE IF n \in names THEN AfterMiss(s[n]) ELSE s[n]
    BY DEF MissedStatuses
<1>3. s \in [Registers -> Statuses] /\ t = [n \in Registers |-> t[n]]
    BY DEF Filled, MissedStatuses
<1> HIDE DEF t
<1>4. \A n \in Registers : /\ t[n] \in Statuses
                           /\ t[n] = "never" <=> s[n] = "never"
    BY <1>1, <1>2, <1>3 DEF AfterMiss, Statuses
<1>5. Filled(v, t)
    BY <1>3, <1>4 DEF Filled
<1>6. \A n \in Registers :
                 /\ n \in names => t[n] # "good"
                 /\ s[n] # "good" => t[n] # "good"
                 /\ Servable(t[n]) => Servable(s[n])
                 /\ n \notin names => t[n] = s[n]
    BY <1>1, <1>2 DEF AfterMiss, Servable
<1>7. QED
    BY <1>5, <1>6 DEF t

\* Time passing expires only what is uncertain, among those named.
LEMMA ExpiringKeepsFilled ==
    ASSUME NEW v, NEW s, Filled(v, s), NEW names \in SUBSET Registers,
           NEW gone \in MayExpire(s, names)
    PROVE  LET t == MissedStatuses(s, {}, gone) IN
           /\ Filled(v, t)
           /\ \A n \in Registers : /\ s[n] # "good" => t[n] # "good"
                                   /\ n \notin names => t[n] = s[n]
<1> DEFINE t == MissedStatuses(s, {}, gone)
<1>1. gone \subseteq names /\ \A n \in gone : s[n] = "uncertain"
    BY DEF MayExpire
<1>2. \A n \in Registers : t[n] = IF n \in gone THEN "expired" ELSE s[n]
    BY DEF MissedStatuses
<1>3. s \in [Registers -> Statuses] /\ t = [n \in Registers |-> t[n]]
    BY DEF Filled, MissedStatuses
<1> HIDE DEF t
<1>4. Filled(v, t)
    BY <1>1, <1>2, <1>3 DEF Filled, Statuses
<1>5. QED
    BY <1>1, <1>2, <1>4 DEF t

LEMMA StoringKeepsFilled ==
    ASSUME NEW v, NEW s, Filled(v, s), NEW names \in SUBSET Registers,
           NEW results \in [names -> Values]
    PROVE  LET w == StoredValues(v, results)
               t == StoredStatuses(s, results) IN
           /\ Filled(w, t)
           /\ \A n \in Registers :
                 /\ n \in names => w[n] = results[n] /\ t[n] = "good"
                 /\ n \notin names => w[n] = v[n] /\ t[n] = s[n]
<1> DEFINE w == StoredValues(v, results)
           t == StoredStatuses(s, results)
<1>1. \A n \in Registers :
         /\ n \in names => w[n] = results[n] /\ t[n] = "good"
         /\ n \notin names => w[n] = v[n] /\ t[n] = s[n]
    BY DEF StoredValues, StoredStatuses
<1>2. w = [n \in Registers |-> w[n]] /\ t = [n \in Registers |-> t[n]]
    BY DEF StoredValues, StoredStatuses
<1> HIDE DEF w, t
<1>3. /\ v \in [Registers -> Values \cup {NoValue}] /\ s \in [Registers -> Statuses]
      /\ \A n \in Registers : v[n] = NoValue <=> s[n] = "never"
      /\ \A n \in names : results[n] \in Values
    BY DEF Filled
<1>4. \A n \in Registers : /\ w[n] \in Values \cup {NoValue} /\ t[n] \in Statuses
                           /\ w[n] = NoValue <=> t[n] = "never"
    BY <1>1, <1>3, RegistersAssumption DEF Statuses
<1>5. Filled(w, t)
    BY <1>2, <1>4 DEF Filled
<1>6. QED
    BY <1>1, <1>5 DEF w, t

\* What is served of a filled cache is a value or nothing.
LEMMA ServedIsData ==
    ASSUME NEW v, NEW s, Filled(v, s)
    PROVE  Served(v, s) \in [Registers -> Values \cup {NoValue}]
BY DEF Filled, Served

-----------------------------------------------------------------------------
(* The end of a poll. *)

\* A successful poll: what it has read and not dropped as a false zero is in the
\* cache, so the merge of both is what the cache alone would serve.
LEMMA SuccessIsServed ==
    ASSUME IInv, NEW v, NEW s, NEW f, NEW o, Filled(v, s), Recorded(o, s),
           \A n \in DOMAIN f : n \in Registers /\ f[n] \in Values /\ v[n] = f[n] /\ Servable(s[n]),
           PollSucceeds(v, s, f)
    PROVE  /\ Filled(value', status') /\ Recorded(o, status')
           /\ data' \in [Registers -> Values \cup {NoValue}]
           /\ available' = TRUE /\ timeouts' = 0 /\ backoffCycle' = 0
           /\ data' = Served(value', status')
           /\ \A n \in prior \cap DOMAIN f : /\ data'[n] # 0
                                             /\ Servable(status'[n]) => value'[n] # 0
<1> DEFINE t == [n \in Registers |-> IF n \in Suspicious(f) THEN AfterInvalidate(s[n]) ELSE s[n]]
<1>1. /\ value' = v /\ status' = t
      /\ data' = [n \in Registers |-> IF n \in DOMAIN f \ Suspicious(f) THEN f[n]
                                      ELSE Served(v, t)[n]]
      /\ available' = TRUE /\ timeouts' = 0 /\ backoffCycle' = 0
    BY DEF PollSucceeds
<1>2. \A n \in Registers : t[n] = IF n \in Suspicious(f) THEN AfterInvalidate(s[n]) ELSE s[n]
    OBVIOUS
<1>3. t = [n \in Registers |-> t[n]]
    OBVIOUS
<1> HIDE DEF t
<1>4. \A n \in Suspicious(f) : n \in DOMAIN f /\ n \in prior /\ f[n] = 0
    BY DEF Suspicious
<1>5. \A n \in Registers : /\ t[n] \in Statuses
                           /\ t[n] = "never" <=> s[n] = "never"
                           /\ s[n] # "good" => t[n] # "good"
    BY <1>2 DEF Filled, AfterInvalidate, Statuses
<1>6. Filled(v, t)
    BY <1>3, <1>5 DEF Filled
<1>7. Recorded(o, t)
    BY <1>5 DEF Recorded
<1>8. Served(v, t) = [n \in Registers |-> IF Servable(t[n]) THEN v[n] ELSE NoValue]
    BY DEF Served
<1>9. \A n \in DOMAIN f \ Suspicious(f) : Servable(t[n]) /\ v[n] = f[n]
    BY <1>2
<1>10. data' = Served(v, t)
    BY <1>1, <1>8, <1>9
<1>11. ASSUME NEW n \in prior \cap DOMAIN f
       PROVE  data'[n] # 0 /\ (Servable(t[n]) => v[n] # 0)
  <2>1. n \in Registers /\ f[n] \in Values /\ v[n] = f[n]
    OBVIOUS
  <2>2. data'[n] = IF Servable(t[n]) THEN v[n] ELSE NoValue
    BY <1>8, <1>10, <2>1
  <2>3. CASE f[n] = 0
    <3>1. n \in Suspicious(f)
      BY <2>3 DEF Suspicious
    <3>2. t[n] = AfterInvalidate(s[n])
      BY <1>2, <2>1, <3>1
    <3>3. ~Servable(t[n])
      BY <3>2 DEF AfterInvalidate, Servable
    <3>4. NoValue # 0
      BY <2>1, <2>3, RegistersAssumption
    <3>5. QED
      BY <2>2, <3>3, <3>4
  <2>4. CASE f[n] # 0
    <3>1. n \notin Suspicious(f)
      BY <1>4, <2>4
    <3>2. QED
      BY <1>9, <2>1, <2>2, <2>4, <3>1
  <2>5. QED
    BY <2>3, <2>4
<1>12. Served(v, t) \in [Registers -> Values \cup {NoValue}]
    BY <1>6, ServedIsData
<1>13. QED
    BY <1>1, <1>6, <1>7, <1>10, <1>11, <1>12

\* A failed poll serves the cache, or leaves the data and says so.
LEMMA FailureIsServed ==
    ASSUME IInv, NEW v, NEW s, Filled(v, s), NEW kind \in Failures, PollFails(v, s, kind)
    PROVE  /\ value' = v /\ status' = s
           /\ data' \in [Registers -> Values \cup {NoValue}]
           /\ available' \in BOOLEAN /\ timeouts' \in 0 .. TIMEOUT_CAP
           /\ backoffCycle' \in 0 .. BACKOFF_NORMAL_DIVISOR - 1
           /\ available' => data' = Served(v, s)
<1>1. Served(v, s) \in [Registers -> Values \cup {NoValue}]
    BY ServedIsData
<1>2. /\ data \in [Registers -> Values \cup {NoValue}] /\ timeouts \in 0 .. TIMEOUT_CAP
      /\ backoffCycle \in 0 .. BACKOFF_NORMAL_DIVISOR - 1
    BY DEF IInv, Surroundings
<1>3. timeouts' \in 0 .. TIMEOUT_CAP
    BY <1>2, PollAssumption DEF PollFails
<1>4. \/ available' = FALSE /\ data' = data
      \/ available' = TRUE /\ data' = Served(v, s)
    BY DEF PollFails
<1>5. QED
    BY <1>1, <1>2, <1>3, <1>4 DEF PollFails

\* Recording what is owed: none of it is twice, and it is owed no longer.
LEMMA RecordingWhatIsOwed ==
    ASSUME NEW o \in [Registers -> Outcomes], NEW names \in SUBSET Registers,
           \A n \in Registers : o[n] # "twice", \A n \in names : o[n] = "owed",
           NEW what \in {"read", "missed"}
    PROVE  /\ Record(o, names, what) \in [Registers -> Outcomes]
           /\ \A n \in Registers :
                 Record(o, names, what)[n] = IF n \in names THEN what ELSE o[n]
<1>1. \A n \in Registers : Record(o, names, what)[n] = IF n \in names THEN what ELSE o[n]
    BY DEF Record
<1>2. Record(o, names, what) = [n \in Registers |-> Record(o, names, what)[n]]
    BY DEF Record
<1>3. \A n \in Registers : Record(o, names, what)[n] \in Outcomes
    BY <1>1 DEF Outcomes
<1>4. QED
    BY <1>1, <1>2, <1>3

LEMMA EndBatchKeeps ==
    ASSUME IInv, phase # "idle", NEW v, NEW s, NEW f, NEW rec, NEW o, NEW fail,
           Balanced(batch, v, s, f, rec, o, fail),
           EndBatch(v, s, f, rec, o, fail), UNCHANGED calm
    PROVE  IInv' /\ TellsTheTruth
<1> DEFINE missing == batch \ rec
           verdict == IF missing # {} /\ fail = "none" THEN "timeout" ELSE fail
           out     == Record(o, missing, "missed")
<1>1. PICK gone \in MayExpire(s, missing) :
            LET t == MissedStatuses(s, missing, gone) IN
            /\ IF verdict = "none" THEN PollSucceeds(v, t, f) ELSE PollFails(v, t, verdict)
            /\ outcome' = out
            /\ failure' = verdict
            /\ ForgetBatch
    BY DEF EndBatch
<1> DEFINE t == MissedStatuses(s, missing, gone)
<1>2. missing \in SUBSET Registers /\ batch \subseteq Registers
    BY DEF IInv, Surroundings
<1>3. Filled(v, s) /\ Recorded(o, s) /\ rec \subseteq batch /\ DOMAIN f \subseteq rec
    BY DEF Balanced
<1>4. /\ Filled(v, t)
      /\ \A n \in Registers : /\ n \in missing => t[n] # "good"
                              /\ s[n] # "good" => t[n] # "good"
                              /\ n \notin missing => t[n] = s[n]
  <2> HIDE DEF missing
  <2>1. QED
    BY <1>2, <1>3, MissingKeepsFilled
<1>5. verdict \in Failures \ {"cancelled"}
    BY DEF Balanced, Failures, TimeoutKinds
<1>6. verdict = "none" => missing = {} /\ DOMAIN f = batch
  <2>1. verdict = "none" => missing = {} /\ fail = "none"
    OBVIOUS
  <2>2. QED
    BY <2>1, <1>3 DEF Balanced
<1>7. IF verdict = "none" THEN PollSucceeds(v, t, f) ELSE PollFails(v, t, verdict)
    BY <1>1
<1>8. outcome' = out /\ failure' = verdict /\ ForgetBatch
    BY <1>1
<1>9. /\ o \in [Registers -> Outcomes] /\ \A n \in Registers : o[n] # "twice"
      /\ \A n \in Registers : o[n] = "missed" => s[n] # "good"
    BY <1>3 DEF Recorded
<1>10. \A n \in missing : o[n] = "owed"
    BY <1>2 DEF Balanced
<1>11. out \in [Registers -> Outcomes]
       /\ \A n \in Registers : out[n] = IF n \in missing THEN "missed" ELSE o[n]
    BY <1>2, <1>9, <1>10, RecordingWhatIsOwed
<1>12. \A n \in DOMAIN f : /\ n \in Registers /\ f[n] \in Values /\ v[n] = f[n]
                           /\ Servable(t[n])
    BY <1>2, <1>3, <1>4 DEF Balanced
<1> HIDE DEF t
<1>13. Recorded(out, t)
    BY <1>4, <1>9, <1>11 DEF Recorded
<1>14. \A n \in Registers : out[n] # "owed"
    BY <1>11 DEF Balanced
<1> HIDE DEF out, verdict, missing
<1>15. /\ Filled(value', status') /\ Recorded(out, status')
       /\ data' \in [Registers -> Values \cup {NoValue}]
       /\ available' \in BOOLEAN /\ timeouts' \in 0 .. TIMEOUT_CAP
       /\ backoffCycle' \in 0 .. BACKOFF_NORMAL_DIVISOR - 1
       /\ available' => data' = Served(value', status')
       /\ verdict = "none" => \A n \in prior : /\ data'[n] # 0
                                               /\ Servable(status'[n]) => value'[n] # 0
  <2>1. CASE verdict = "none"
    <3>1. PollSucceeds(v, t, f)
      BY <1>7, <2>1
    <3>2. prior \subseteq DOMAIN f
      BY <1>6, <2>1 DEF IInv, Surroundings
    <3>3. /\ Filled(value', status') /\ Recorded(out, status')
          /\ data' \in [Registers -> Values \cup {NoValue}]
          /\ available' = TRUE /\ timeouts' = 0 /\ backoffCycle' = 0
          /\ data' = Served(value', status')
          /\ \A n \in prior \cap DOMAIN f : /\ data'[n] # 0
                                            /\ Servable(status'[n]) => value'[n] # 0
      BY <1>4, <1>12, <1>13, <3>1, SuccessIsServed
    <3>4. 0 \in 0 .. TIMEOUT_CAP /\ 0 \in 0 .. BACKOFF_NORMAL_DIVISOR - 1
      BY PollAssumption
    <3>5. QED
      BY <3>2, <3>3, <3>4
  <2>2. CASE verdict # "none"
    <3>1. PollFails(v, t, verdict)
      BY <1>7, <2>2
    <3>2. /\ value' = v /\ status' = t
          /\ data' \in [Registers -> Values \cup {NoValue}]
          /\ available' \in BOOLEAN /\ timeouts' \in 0 .. TIMEOUT_CAP
          /\ backoffCycle' \in 0 .. BACKOFF_NORMAL_DIVISOR - 1
          /\ available' => data' = Served(v, t)
      BY <1>4, <1>5, <3>1, FailureIsServed
    <3>3. QED
      BY <1>4, <1>13, <2>2, <3>2
  <2>3. QED
    BY <2>1, <2>2
<1>16. /\ phase' = "idle" /\ batch' = {} /\ todo' = {} /\ DOMAIN fresh' = {}
       /\ recorded' = {} /\ prior' = {} /\ busyRetries' = 0
    BY <1>8 DEF ForgetBatch
<1>17. Surroundings'
  <2>1. 0 \in 0 .. BUSY_MAX_RETRIES /\ calm' \in BOOLEAN
    BY PollAssumption DEF IInv, Surroundings
  <2>2. QED
    BY <1>5, <1>8, <1>15, <1>16, <2>1 DEF Surroundings, Phases
<1>18. IInv'
    BY <1>8, <1>14, <1>15, <1>16, <1>17 DEF IInv, Quiet, InBatch
<1>19. TellsTheTruth
    BY <1>8, <1>15 DEF TellsTheTruth
<1>20. QED
    BY <1>18, <1>19

\* A chunk is over: to the next one, or to the end.
LEMMA AfterChunkKeeps ==
    ASSUME IInv, InBatch, NEW v, NEW s, NEW f, NEW o, NEW fail,
           Balanced(batch, v, s, f, recorded \cup Chunk, o, fail),
           AfterChunk(v, s, f, recorded \cup Chunk, o, fail), UNCHANGED calm
    PROVE  IInv' /\ TellsTheTruth
<1> DEFINE left == todo \ Chunk
           rec  == recorded \cup Chunk
<1>1. todo = batch \ recorded /\ phase # "idle"
    BY DEF IInv, InBatch
<1>2. CASE left = {}
  <2>1. EndBatch(v, s, f, rec, o, fail)
    BY <1>2 DEF AfterChunk
  <2>2. QED
    BY <1>1, <2>1, EndBatchKeeps
<1>3. CASE left # {}
  <2>1. /\ value' = v /\ status' = s
        /\ fresh' = f /\ recorded' = rec /\ outcome' = o /\ failure' = fail
        /\ todo' = left /\ busyRetries' = 0 /\ phase' = "pause"
        /\ UNCHANGED <<batch, prior, timeouts, backoffCycle, entityVars>>
    BY <1>3 DEF AfterChunk
  <2>2. left = batch \ rec
    BY <1>1
  <2> HIDE DEF left, rec
  <2>3. Balanced(batch, v, s, f, rec, o, fail)
    BY DEF rec
  <2>4. Filled(v, s) /\ Recorded(o, s) /\ fail \in Failures
    BY <2>3 DEF Balanced
  <2>5. 0 \in 0 .. BUSY_MAX_RETRIES
    BY PollAssumption
  <2>6. Surroundings'
    BY <2>1, <2>4, <2>5 DEF IInv, Surroundings, Phases, entityVars
  <2>7. QED
    BY <1>3, <2>1, <2>2, <2>3, <2>4, <2>6 DEF IInv, InBatch, TellsTheTruth, Ends
<1>4. QED
    BY <1>2, <1>3

-----------------------------------------------------------------------------
(* The chunks. *)

LEMMA ChunkAnsweredKeeps ==
    ASSUME IInv, NEW results \in [Chunk -> Values], ChunkAnswered(results), UNCHANGED calm
    PROVE  IInv' /\ TellsTheTruth
<1> DEFINE v == StoredValues(value, results)
           s == StoredStatuses(status, results)
           f == Merged(fresh, results)
           o == Record(outcome, Chunk, "read")
<1>1. phase = "onwire" /\ InBatch
    BY DEF ChunkAnswered, InBatch
<1>2. Balanced(batch, value, status, fresh, recorded, outcome, failure)
    BY <1>1 DEF IInv
<1>3. Chunk \subseteq batch \ recorded /\ batch \subseteq Registers /\ Chunk \in SUBSET Registers
    BY <1>1 DEF IInv, Surroundings, Chunk
<1>4. /\ Filled(value, status) /\ outcome \in [Registers -> Outcomes]
      /\ \A n \in Registers : outcome[n] # "twice" /\ (outcome[n] = "missed" => status[n] # "good")
    BY <1>2 DEF Balanced, Recorded
<1>5. /\ Filled(v, s)
      /\ \A n \in Registers :
            /\ n \in Chunk => v[n] = results[n] /\ s[n] = "good"
            /\ n \notin Chunk => v[n] = value[n] /\ s[n] = status[n]
    BY <1>3, <1>4, StoringKeepsFilled
<1>6. \A n \in Chunk : outcome[n] = "owed"
    BY <1>2, <1>3 DEF Balanced
<1>7. /\ o \in [Registers -> Outcomes]
      /\ \A n \in Registers : o[n] = IF n \in Chunk THEN "read" ELSE outcome[n]
    BY <1>3, <1>4, <1>6, RecordingWhatIsOwed
<1>8. /\ DOMAIN f = Chunk \cup DOMAIN fresh
      /\ \A n \in DOMAIN f : f[n] = IF n \in Chunk THEN results[n] ELSE fresh[n]
    BY DEF Merged
<1>9. AfterChunk(v, s, f, recorded \cup Chunk, o, failure)
    BY DEF ChunkAnswered
<1>10. \A n \in Chunk : results[n] \in Values
    OBVIOUS
<1> HIDE DEF v, s, f, o
<1>11. Recorded(o, s)
    BY <1>4, <1>5, <1>7 DEF Recorded
<1>12. /\ recorded \subseteq batch /\ DOMAIN fresh \subseteq recorded
       /\ \A n \in DOMAIN fresh : /\ fresh[n] \in Values /\ value[n] = fresh[n]
                                  /\ Servable(status[n])
       /\ \A n \in Registers : outcome[n] = "owed" <=> n \in batch \ recorded
       /\ failure \in Failures \ {"cancelled"}
       /\ failure = "none" => recorded = DOMAIN fresh
    BY <1>2 DEF Balanced
<1>13. \A n \in DOMAIN f : f[n] \in Values /\ v[n] = f[n] /\ Servable(s[n])
  <2> SUFFICES ASSUME NEW n \in DOMAIN f PROVE f[n] \in Values /\ v[n] = f[n] /\ Servable(s[n])
    OBVIOUS
  <2>1. CASE n \in Chunk
    BY <1>3, <1>5, <1>8, <1>10, <2>1 DEF Servable
  <2>2. CASE n \notin Chunk
    BY <1>3, <1>5, <1>8, <1>12, <2>2
  <2>3. QED
    BY <2>1, <2>2
<1>14. \A n \in Registers : o[n] = "owed" <=> n \in batch \ (recorded \cup Chunk)
    BY <1>7, <1>12
<1>15. Balanced(batch, v, s, f, recorded \cup Chunk, o, failure)
    BY <1>3, <1>5, <1>8, <1>11, <1>12, <1>13, <1>14 DEF Balanced
<1>16. QED
    BY <1>1, <1>9, <1>15, AfterChunkKeeps

LEMMA ChunkFailsKeeps ==
    ASSUME IInv, phase \in {"asking", "onwire"},
           NEW kind \in Failures \ {"none", "cancelled"}, ChunkFails(kind), UNCHANGED calm
    PROVE  IInv' /\ TellsTheTruth
<1> DEFINE o    == Record(outcome, Chunk, "missed")
           fail == IF failure = "none" THEN kind ELSE failure
<1>1. InBatch
    BY DEF InBatch
<1>2. Balanced(batch, value, status, fresh, recorded, outcome, failure)
    BY <1>1 DEF IInv, InBatch
<1>3. Chunk \subseteq batch \ recorded /\ batch \subseteq Registers /\ Chunk \in SUBSET Registers
    BY <1>1 DEF IInv, Surroundings, Chunk
<1>4. /\ Filled(value, status) /\ outcome \in [Registers -> Outcomes]
      /\ \A n \in Registers : outcome[n] # "twice" /\ (outcome[n] = "missed" => status[n] # "good")
    BY <1>2 DEF Balanced, Recorded
<1>5. PICK gone \in MayExpire(status, Chunk) :
          AfterChunk(value, MissedStatuses(status, Chunk, gone), fresh, recorded \cup Chunk, o, fail)
    BY DEF ChunkFails
<1> DEFINE s == MissedStatuses(status, Chunk, gone)
<1>6. /\ Filled(value, s)
      /\ \A n \in Registers : /\ n \in Chunk => s[n] # "good"
                              /\ status[n] # "good" => s[n] # "good"
                              /\ n \notin Chunk => s[n] = status[n]
    BY <1>3, <1>4, MissingKeepsFilled
<1>7. \A n \in Chunk : outcome[n] = "owed"
    BY <1>2, <1>3 DEF Balanced
<1>8. /\ o \in [Registers -> Outcomes]
      /\ \A n \in Registers : o[n] = IF n \in Chunk THEN "missed" ELSE outcome[n]
    BY <1>3, <1>4, <1>7, RecordingWhatIsOwed
<1>9. AfterChunk(value, s, fresh, recorded \cup Chunk, o, fail)
    BY <1>5
<1> HIDE DEF s, o
<1>10. Recorded(o, s)
    BY <1>4, <1>6, <1>8 DEF Recorded
<1>11. /\ recorded \subseteq batch /\ DOMAIN fresh \subseteq recorded
       /\ \A n \in DOMAIN fresh : /\ fresh[n] \in Values /\ value[n] = fresh[n]
                                  /\ Servable(status[n])
       /\ \A n \in Registers : outcome[n] = "owed" <=> n \in batch \ recorded
       /\ failure \in Failures \ {"cancelled"}
    BY <1>2 DEF Balanced
<1>12. fail \in Failures \ {"cancelled"} /\ fail # "none"
    BY <1>11
<1> HIDE DEF fail
<1>13. \A n \in DOMAIN fresh : s[n] = status[n]
    BY <1>3, <1>6, <1>11
<1>14. \A n \in Registers : o[n] = "owed" <=> n \in batch \ (recorded \cup Chunk)
    BY <1>8, <1>11
<1>15. Balanced(batch, value, s, fresh, recorded \cup Chunk, o, fail)
    BY <1>3, <1>6, <1>10, <1>11, <1>12, <1>13, <1>14 DEF Balanced
<1>16. QED
    BY <1>1, <1>9, <1>15, AfterChunkKeeps

-----------------------------------------------------------------------------
(* The start of a poll. *)

LEMMA FullyCachedKeeps ==
    ASSUME IInv, FullyCached PROVE IInv' /\ TellsTheTruth
<1>1. /\ phase = "idle" /\ failure' = "none" /\ outcome' = Owed({})
      /\ available' = TRUE /\ data' = Served(value, status)
      /\ UNCHANGED <<cacheVars, phase, batchVars, timeouts, backoffCycle, calm>>
    BY DEF FullyCached, ServeCached
<1>2. Served(value, status) \in [Registers -> Values \cup {NoValue}]
    BY ServedIsData DEF IInv
<1>3. \A n \in Registers : outcome'[n] = "none"
    BY <1>1 DEF Owed
<1>4. Recorded(outcome', status)
    BY <1>1 DEF Owed, Recorded, Outcomes
<1>5. Surroundings'
    BY <1>1, <1>2 DEF IInv, Surroundings, batchVars, Failures
<1>6. QED
    BY <1>1, <1>3, <1>4, <1>5
    DEF IInv, Quiet, InBatch, cacheVars, batchVars, TellsTheTruth, Ends

\* What a poll starts to owe.
LEMMA OwedIsRecorded ==
    ASSUME NEW names \in SUBSET Registers, NEW s
    PROVE  /\ Recorded(Owed(names), s)
           /\ \A n \in Registers : Owed(names)[n] = "owed" <=> n \in names
BY DEF Owed, Recorded, Outcomes

LEMMA StartBatchKeeps ==
    ASSUME IInv, StartBatch PROVE IInv' /\ TellsTheTruth
<1>1. PICK stale \in StaleSets \ {{}} :
          /\ batch' = stale /\ todo' = stale /\ prior' = PositivePrior(stale)
          /\ outcome' = Owed(stale)
    BY DEF StartBatch
<1>2. /\ phase = "idle" /\ phase' = "asking" /\ failure' = "none" /\ backoffCycle' = 0
      /\ UNCHANGED <<cacheVars, fresh, recorded, busyRetries, timeouts, entityVars, calm>>
    BY DEF StartBatch
<1>3. stale \in SUBSET Registers /\ stale # {}
    BY DEF StaleSets
<1>4. recorded = {} /\ DOMAIN fresh = {} /\ Filled(value, status)
    BY <1>2 DEF IInv, Quiet
<1>5. /\ Recorded(outcome', status)
      /\ \A n \in Registers : outcome'[n] = "owed" <=> n \in stale
    BY <1>1, <1>3, OwedIsRecorded
<1>6. Balanced(stale, value, status, fresh, recorded, outcome', "none")
    BY <1>3, <1>4, <1>5 DEF Balanced, Failures
<1>7. prior' \subseteq Energy \cap stale /\ 0 \in 0 .. BACKOFF_NORMAL_DIVISOR - 1
    BY <1>1, PollAssumption DEF PositivePrior
<1>8. Surroundings'
    BY <1>1, <1>2, <1>3, <1>7 DEF IInv, Surroundings, Phases, Failures, entityVars
<1>9. QED
    BY <1>1, <1>2, <1>3, <1>4, <1>5, <1>6, <1>8
    DEF IInv, InBatch, cacheVars, TellsTheTruth, Ends

LEMMA CanariesAreRegisters == Canaries \subseteq Registers
BY PollAssumption DEF Canaries

LEMMA StartBackoffKeeps ==
    ASSUME IInv, StartBackoff PROVE IInv' /\ TellsTheTruth
<1>1. PICK stale \in StaleSets, canary \in Canaries :
          LET names == WithCanary(stale, canary) IN
          /\ outcome' = Owed(names)
          /\ IF names = {}
             THEN ServeCached /\ UNCHANGED <<phase, batch, backoffCycle>>
             ELSE /\ phase' = "backoff"
                  /\ batch' = names
                  /\ backoffCycle' = (backoffCycle + 1) % BACKOFF_NORMAL_DIVISOR
                  /\ UNCHANGED entityVars
    BY DEF StartBackoff
<1> DEFINE names == WithCanary(stale, canary)
<1>2. /\ phase = "idle" /\ failure' = "none"
      /\ UNCHANGED <<cacheVars, todo, fresh, recorded, prior, busyRetries, timeouts, calm>>
    BY DEF StartBackoff
<1>3. names \in SUBSET Registers /\ names # {}
    BY CanariesAreRegisters DEF StaleSets, WithCanary
<1>4. /\ outcome' = Owed(names) /\ phase' = "backoff" /\ batch' = names
      /\ backoffCycle' = (backoffCycle + 1) % BACKOFF_NORMAL_DIVISOR
      /\ UNCHANGED entityVars
    BY <1>1, <1>3
<1> HIDE DEF names
<1>5. backoffCycle' \in 0 .. BACKOFF_NORMAL_DIVISOR - 1
    BY <1>4, PollAssumption DEF IInv, Surroundings
<1>6. Quiet /\ Filled(value, status)
    BY <1>2 DEF IInv
<1>7. /\ Recorded(outcome', status)
      /\ \A n \in Registers : outcome'[n] = "owed" <=> n \in names
    BY <1>3, <1>4, OwedIsRecorded
<1>8. Balanced(names, value, status, fresh, recorded, outcome', "none")
    BY <1>3, <1>6, <1>7 DEF Balanced, Failures, Quiet
<1>9. Surroundings'
    BY <1>2, <1>3, <1>4, <1>5, <1>6 DEF IInv, Surroundings, Phases, Failures, entityVars, Quiet
<1>10. QED
    BY <1>2, <1>4, <1>6, <1>7, <1>8, <1>9
    DEF IInv, InBatch, Quiet, cacheVars, TellsTheTruth, Ends

LEMMA BackoffWakesKeeps ==
    ASSUME IInv, BackoffWakes PROVE IInv' /\ TellsTheTruth
<1> DEFINE kept == {n \in batch : \/ n \in Fast
                                  \/ n \in Normal /\ backoffCycle = 0}
           starvable == (batch \ kept) \ (Normal \ Energy)
<1>1. PICK promoted \in Promotions(starvable), canary \in Canaries :
          LET names == WithCanary(kept \cup promoted, canary)
              deferred == batch \ names
          IN  /\ Miss(deferred)
              /\ outcome' = Record([n \in Registers |-> IF n \in names THEN "owed"
                                                        ELSE outcome[n]],
                                   deferred, "missed")
              /\ IF names = {}
                 THEN /\ data' = Served(value, status')
                      /\ available' = TRUE
                      /\ phase' = "idle" /\ batch' = {}
                      /\ UNCHANGED <<todo, prior>>
                 ELSE /\ batch' = names
                      /\ todo' = names
                      /\ prior' = PositivePrior(names)
                      /\ phase' = "asking"
                      /\ UNCHANGED entityVars
    BY DEF BackoffWakes
<1> DEFINE names    == WithCanary(kept \cup promoted, canary)
           deferred == batch \ names
           o        == [n \in Registers |-> IF n \in names THEN "owed" ELSE outcome[n]]
<1>2. /\ phase = "backoff"
      /\ UNCHANGED <<fresh, recorded, busyRetries, failure, timeouts, backoffCycle, calm>>
    BY DEF BackoffWakes
<1>3. batch \subseteq Registers /\ Quiet
      /\ Balanced(batch, value, status, fresh, recorded, outcome, failure)
    BY <1>2 DEF IInv, Surroundings
<1>4. names \in SUBSET Registers /\ names # {}
  <2>1. kept \subseteq Registers /\ starvable \subseteq Registers /\ canary \in Registers
    BY <1>3, CanariesAreRegisters
  <2> HIDE DEF kept, starvable
  <2>2. promoted \subseteq starvable
    BY DEF Promotions
  <2>3. QED
    BY <2>1, <2>2 DEF WithCanary
<1>5. /\ Miss(deferred) /\ outcome' = Record(o, deferred, "missed")
      /\ batch' = names /\ todo' = names /\ prior' = PositivePrior(names)
      /\ phase' = "asking" /\ UNCHANGED entityVars
    BY <1>1, <1>4
<1> HIDE DEF kept, starvable, names
<1>6. deferred \in SUBSET Registers
    BY <1>3
<1>7. PICK gone \in MayExpire(status, deferred) :
          status' = MissedStatuses(status, deferred, gone)
    BY <1>5 DEF Miss
<1>8. value' = value
    BY <1>5 DEF Miss
<1>9. /\ Filled(value, status) /\ outcome \in [Registers -> Outcomes]
      /\ \A n \in Registers : outcome[n] # "twice" /\ (outcome[n] = "missed" => status[n] # "good")
      /\ \A n \in Registers : outcome[n] = "owed" <=> n \in batch
    BY <1>3 DEF Balanced, Recorded, Quiet
<1>10. /\ Filled(value, status')
       /\ \A n \in Registers : /\ n \in deferred => status'[n] # "good"
                               /\ status[n] # "good" => status'[n] # "good"
  <2> HIDE DEF deferred
  <2>1. QED
    BY <1>6, <1>7, <1>9, MissingKeepsFilled
<1>11. /\ o \in [Registers -> Outcomes] /\ \A n \in Registers : o[n] # "twice"
       /\ \A n \in deferred : o[n] = "owed"
       /\ \A n \in Registers : o[n] = IF n \in names THEN "owed" ELSE outcome[n]
    BY <1>3, <1>9 DEF Outcomes
<1> HIDE DEF o
<1>12. /\ outcome' \in [Registers -> Outcomes]
       /\ \A n \in Registers : outcome'[n] = IF n \in deferred THEN "missed" ELSE o[n]
  <2> HIDE DEF deferred
  <2>1. QED
    BY <1>5, <1>6, <1>11, RecordingWhatIsOwed
<1>13. \A n \in Registers : outcome'[n] = "owed" <=> n \in names
    BY <1>9, <1>11, <1>12
<1>14. Recorded(outcome', status')
    BY <1>9, <1>10, <1>11, <1>12 DEF Recorded
<1>15. Balanced(names, value, status', fresh, recorded, outcome', failure)
    BY <1>3, <1>4, <1>10, <1>13, <1>14 DEF Balanced, Quiet
<1>16. PositivePrior(names) \subseteq Energy \cap names
    BY DEF PositivePrior
<1>17. Surroundings'
    BY <1>2, <1>4, <1>5, <1>16 DEF IInv, Surroundings, Phases, entityVars
<1>18. recorded = {}
    BY <1>3 DEF Quiet
<1>19. QED
    BY <1>2, <1>4, <1>5, <1>8, <1>10, <1>14, <1>15, <1>17, <1>18
    DEF IInv, InBatch, TellsTheTruth, Ends

-----------------------------------------------------------------------------
(* Steps inside a chunk, and around the poll. *)

\* A step that moves from one await to another with the same books.
LEMMA MovesOn ==
    ASSUME IInv, InBatch, phase' \in {"asking", "onwire", "busy"},
           busyRetries' \in 0 .. BUSY_MAX_RETRIES,
           UNCHANGED <<cacheVars, batch, todo, fresh, recorded, prior, failure, outcome,
                       timeouts, backoffCycle, entityVars, calm>>
    PROVE  IInv' /\ TellsTheTruth
<1>1. Surroundings'
    BY DEF IInv, Surroundings, Phases, entityVars
<1>2. phase # "idle" /\ phase' # "idle" /\ phase' # "backoff"
    BY DEF InBatch
<1>3. QED
    BY <1>1, <1>2 DEF IInv, InBatch, cacheVars, TellsTheTruth, Ends

LEMMA AdmittedKeeps ==
    ASSUME IInv, Admitted PROVE IInv' /\ TellsTheTruth
<1>1. busyRetries' \in 0 .. BUSY_MAX_RETRIES
    BY DEF Admitted, IInv, Surroundings, batchVars
<1>2. QED
    BY <1>1, MovesOn DEF Admitted, InBatch, batchVars

LEMMA AskAgainKeeps ==
    ASSUME IInv, AskAgain PROVE IInv' /\ TellsTheTruth
<1>1. busyRetries' \in 0 .. BUSY_MAX_RETRIES
    BY DEF AskAgain, IInv, Surroundings, batchVars
<1>2. QED
    BY <1>1, MovesOn DEF AskAgain, InBatch, batchVars

LEMMA DeviceBusyKeeps ==
    ASSUME IInv, DeviceBusy PROVE IInv' /\ TellsTheTruth
<1>1. busyRetries' \in 0 .. BUSY_MAX_RETRIES
    BY PollAssumption DEF DeviceBusy, IInv, Surroundings
<1>2. QED
    BY <1>1, MovesOn DEF DeviceBusy, InBatch

LEMMA CancelledKeeps ==
    ASSUME IInv, Cancelled PROVE IInv' /\ TellsTheTruth
<1>1. /\ phase' = "idle" /\ batch' = {} /\ todo' = {} /\ DOMAIN fresh' = {}
      /\ recorded' = {} /\ prior' = {} /\ busyRetries' = 0 /\ failure' = "cancelled"
      /\ UNCHANGED <<cacheVars, outcome, timeouts, backoffCycle, entityVars, calm>>
    BY DEF Cancelled, ForgetBatch
<1>2. Surroundings'
    BY <1>1, PollAssumption DEF IInv, Surroundings, Phases, Failures, entityVars
<1>3. QED
    BY <1>1, <1>2 DEF IInv, Quiet, InBatch, cacheVars, TellsTheTruth, Ends

LEMMA DeadlineKeeps ==
    ASSUME IInv, Deadline PROVE IInv' /\ TellsTheTruth
<1>1. phase # "idle"
    BY DEF Deadline, InBatch
<1>2. Balanced(batch, value, status, fresh, recorded, outcome, failure)
    BY <1>1 DEF IInv
<1>3. QED
    BY <1>1, <1>2, EndBatchKeeps DEF Deadline

\* The cache changes under a poll: nothing becomes good, and what the poll has
\* read stays served.
LEMMA CacheChanges ==
    ASSUME IInv, Filled(value, status'),
           \A n \in Registers : status[n] # "good" => status'[n] # "good",
           \A n \in Registers : n \in DOMAIN fresh /\ Servable(status[n]) => Servable(status'[n]),
           UNCHANGED <<value, pollVars, timeouts, backoffCycle, entityVars, calm>>
    PROVE  IInv' /\ TellsTheTruth
<1>1. Recorded(outcome, status')
  <2>1. Recorded(outcome, status)
    BY DEF IInv
  <2>2. QED
    BY <2>1 DEF Recorded
<1>2. ASSUME phase # "idle"
      PROVE  Balanced(batch, value, status', fresh, recorded, outcome, failure)
  <2>1. Balanced(batch, value, status, fresh, recorded, outcome, failure)
        /\ batch \subseteq Registers
    BY <1>2 DEF IInv, Surroundings
  <2>2. /\ recorded \subseteq batch /\ DOMAIN fresh \subseteq recorded
        /\ \A n \in DOMAIN fresh : /\ fresh[n] \in Values /\ value[n] = fresh[n]
                                   /\ Servable(status[n])
    BY <2>1 DEF Balanced
  <2>3. \A n \in DOMAIN fresh : Servable(status'[n])
    BY <2>1, <2>2
  <2>4. QED
    BY <1>1, <2>1, <2>2, <2>3 DEF Balanced
<1>3. UNCHANGED <<phase, batch, todo, fresh, recorded, prior, busyRetries, failure, outcome>>
    BY DEF pollVars, batchVars
<1>4. Surroundings'
    BY <1>3 DEF IInv, Surroundings, entityVars
<1>5. QED
    BY <1>1, <1>2, <1>3, <1>4 DEF IInv, Quiet, InBatch, TellsTheTruth, Ends

LEMMA ConnectionLostKeeps ==
    ASSUME IInv, ConnectionLost PROVE IInv' /\ TellsTheTruth
<1> DEFINE s == [n \in Registers |-> AfterLinkLoss(n, status[n])]
<1>1. status' = s /\ value' = value
      /\ UNCHANGED <<pollVars, timeouts, backoffCycle, entityVars, calm>>
    BY DEF ConnectionLost, LoseLink
<1>2. Filled(value, status)
    BY DEF IInv
<1>3. \A n \in Registers : /\ s[n] \in Statuses
                           /\ s[n] = "never" <=> status[n] = "never"
                           /\ status[n] # "good" => s[n] # "good"
                           /\ Servable(status[n]) => Servable(s[n])
    BY <1>2 DEF Filled, AfterLinkLoss, Statuses, Servable
<1>4. s = [n \in Registers |-> s[n]]
    OBVIOUS
<1> HIDE DEF s
<1>5. Filled(value, s)
    BY <1>2, <1>3, <1>4 DEF Filled
<1>6. QED
    BY <1>1, <1>3, <1>5, CacheChanges

LEMMA TimePassesKeeps ==
    ASSUME IInv, TimePasses PROVE IInv' /\ TellsTheTruth
<1> DEFINE names == Registers \ DOMAIN fresh
<1>1. PICK gone \in MayExpire(status, names) : status' = MissedStatuses(status, {}, gone)
    BY DEF TimePasses, Expire
<1>2. value' = value /\ UNCHANGED <<pollVars, timeouts, backoffCycle, entityVars, calm>>
    BY DEF TimePasses, Expire
<1>3. names \in SUBSET Registers /\ Filled(value, status)
    BY DEF IInv
<1>4. /\ Filled(value, status')
      /\ \A n \in Registers : /\ status[n] # "good" => status'[n] # "good"
                              /\ n \notin names => status'[n] = status[n]
  <2> HIDE DEF names
  <2>1. QED
    BY <1>1, <1>3, ExpiringKeepsFilled
<1>5. QED
    BY <1>2, <1>4, CacheChanges

LEMMA ElsewhereKeeps ==
    ASSUME IInv, ConnectionRestored \/ Weather \/ UNCHANGED vars
    PROVE  IInv' /\ TellsTheTruth
<1>1. /\ UNCHANGED <<cacheVars, pollVars, backoffCycle, entityVars>>
      /\ timeouts' \in {0, timeouts} /\ calm' \in BOOLEAN
    BY DEF ConnectionRestored, Weather, vars, IInv, Surroundings
<1>2. /\ UNCHANGED <<phase, batch, todo, fresh, recorded, prior, busyRetries, failure, outcome>>
      /\ UNCHANGED <<value, status, data, available, backoffCycle>>
    BY <1>1 DEF pollVars, batchVars, cacheVars, entityVars
<1>3. Surroundings'
    BY <1>1, <1>2, PollAssumption DEF IInv, Surroundings
<1>4. QED
    BY <1>2, <1>3 DEF IInv, Quiet, InBatch, TellsTheTruth, Ends

LEMMA NextKeeps == IInv /\ [Next]_vars => IInv' /\ TellsTheTruth
<1> SUFFICES ASSUME IInv, [Next]_vars PROVE IInv' /\ TellsTheTruth
    OBVIOUS
<1>1. CASE StartPoll
    BY <1>1, FullyCachedKeeps, StartBatchKeeps, StartBackoffKeeps DEF StartPoll
<1>2. CASE PollStep
  <2>1. CASE BackoffWakes \/ Admitted \/ DeviceBusy \/ AskAgain \/ Deadline
    BY <2>1, BackoffWakesKeeps, AdmittedKeeps, DeviceBusyKeeps, AskAgainKeeps, DeadlineKeeps
  <2>2. ASSUME NEW kind \in {"shed", "admission"}, Refused(kind)
        PROVE  IInv' /\ TellsTheTruth
    <3>1. kind \in Failures \ {"none", "cancelled"}
      BY DEF Failures, TimeoutKinds
    <3>2. QED
      BY <2>2, <3>1, ChunkFailsKeeps DEF Refused
  <2>3. ASSUME NEW kind \in {"timeout", "illegal", "device"}, ReadFails(kind)
        PROVE  IInv' /\ TellsTheTruth
    <3>1. kind \in Failures \ {"none", "cancelled"}
      BY DEF Failures, TimeoutKinds
    <3>2. QED
      BY <2>3, <3>1, ChunkFailsKeeps DEF ReadFails
  <2>4. ASSUME NEW results \in [Chunk -> Values], ChunkAnswered(results)
        PROVE  IInv' /\ TellsTheTruth
    BY <2>4, ChunkAnsweredKeeps DEF ChunkAnswered
  <2>5. QED
    BY <1>2, <2>1, <2>2, <2>3, <2>4 DEF PollStep
<1>3. CASE Cancelled
    BY <1>3, CancelledKeeps
<1>4. CASE Environment
    BY <1>4, ConnectionLostKeeps, TimePassesKeeps, ElsewhereKeeps DEF Environment
<1>5. CASE UNCHANGED vars
    BY <1>5, ElsewhereKeeps
<1>6. QED
    BY <1>1, <1>2, <1>3, <1>4, <1>5 DEF Next

LEMMA IInvHolds == Spec => []IInv
<1>1. IInv /\ [Next]_vars => IInv'
    BY NextKeeps
<1>2. QED
    BY InitIInv, <1>1, PTL DEF Spec

-----------------------------------------------------------------------------
\* Every state of a poll keeps its type; what is left to read is part of the
\* batch and has not been recorded.
THEOREM PollTypeCorrect == Spec => []TypeOK
<1>1. IInv => TypeOK
  <2> SUFFICES ASSUME IInv PROVE TypeOK
    OBVIOUS
  <2>1. ContractTypeOK
    BY DEF IInv, Filled, ContractTypeOK
  <2>2. CASE phase \in {"idle", "backoff"}
    BY <2>1, <2>2 DEF IInv, Surroundings, Quiet, Recorded, Outcomes, TypeOK, InBatch
  <2>3. CASE phase \notin {"idle", "backoff"}
    <3>1. InBatch
      BY <2>3 DEF IInv, Surroundings, Phases, InBatch
    <3>2. Balanced(batch, value, status, fresh, recorded, outcome, failure)
      BY <2>3 DEF IInv
    <3>3. QED
      BY <2>1, <2>3, <3>1, <3>2 DEF IInv, Surroundings, Balanced, Recorded, Outcomes, TypeOK
  <2>4. QED
    BY <2>2, <2>3
<1>2. QED
    BY <1>1, IInvHolds, PTL

\* Every register a poll was to deliver is read or recorded as missed, once,
\* wherever the poll stops: after any chunk, at its deadline, in back-off.
THEOREM EveryRegisterAccounted == Spec => []AccountedOnce
<1>1. IInv => AccountedOnce
    BY DEF IInv, Recorded, AccountedOnce
<1>2. QED
    BY <1>1, IInvHolds, PTL

\* A register that was due and not read is not trusted.
THEOREM MissedIsNotTrusted == Spec => []UnreadIsNotGood
<1>1. IInv => UnreadIsNotGood
    BY DEF IInv, Recorded, UnreadIsNotGood
<1>2. QED
    BY <1>1, IInvHolds, PTL

\* What a poll publishes at its end is what the cache then serves.
THEOREM PublishedIsServed == Spec => PublishesWhatItTrusts
<1>1. IInv /\ [Next]_vars => [Ends /\ available' => data' = Served(value', status')]_vars
    BY NextKeeps DEF TellsTheTruth
<1>2. QED
    BY <1>1, IInvHolds, PTL DEF Spec, PublishesWhatItTrusts

\* After a poll that succeeded, no energy counter that was positive before it
\* is published or trusted as zero.
THEOREM NoFalseZeroPasses == Spec => ZeroGuarded
<1>1. IInv /\ [Next]_vars =>
          [Ends /\ failure' = "none" =>
              \A n \in prior : data'[n] # 0 /\ (Servable(status'[n]) => value'[n] # 0)]_vars
    BY NextKeeps DEF TellsTheTruth
<1>2. QED
    BY <1>1, IInvHolds, PTL DEF Spec, ZeroGuarded

-----------------------------------------------------------------------------
(***************************************************************************)
(* Polls and writes.                                                       *)
(***************************************************************************)

\* The cache has an entry for every register.
Tables(v, s) == v = [n \in Registers |-> v[n]] /\ s = [n \in Registers |-> s[n]]

WInv == Tables(value, status) /\ ServedIsCurrent

\* After a poll's step that reads nothing, the cache has the values it had and
\* serves no more of them.
NothingRegained ==
    /\ value' = value /\ Tables(value', status')
    /\ \A n \in Registers : Servable(status'[n]) => Servable(status[n])

LEMMA InitWInv == WriteInit => WInv
BY WriteAssumption DEF WriteInit, Init, ContractInit, WInv, Tables, ServedIsCurrent, Servable

-----------------------------------------------------------------------------
(* What a poll does to the cache. *)

LEMMA MissingServesLess ==
    ASSUME NEW s, NEW names, NEW gone
    PROVE  LET t == MissedStatuses(s, names, gone) IN
           /\ t = [n \in Registers |-> t[n]]
           /\ \A n \in Registers : Servable(t[n]) => Servable(s[n])
BY DEF MissedStatuses, AfterMiss, Servable

\* The end of a poll keeps the values and serves no more of them, whether it
\* succeeds or fails.
LEMMA EndBatchServesLess ==
    ASSUME NEW v, NEW s, NEW f, NEW rec, NEW o, NEW fail,
           Tables(v, s), EndBatch(v, s, f, rec, o, fail)
    PROVE  /\ value' = v /\ Tables(value', status')
           /\ \A n \in Registers : Servable(status'[n]) => Servable(s[n])
<1> DEFINE missing == batch \ rec
           verdict == IF missing # {} /\ fail = "none" THEN "timeout" ELSE fail
<1>1. PICK gone \in MayExpire(s, missing) :
          LET t == MissedStatuses(s, missing, gone) IN
          IF verdict = "none" THEN PollSucceeds(v, t, f) ELSE PollFails(v, t, verdict)
    BY DEF EndBatch
<1> DEFINE t == MissedStatuses(s, missing, gone)
<1>2. t = [n \in Registers |-> t[n]] /\ \A n \in Registers : Servable(t[n]) => Servable(s[n])
  <2> HIDE DEF missing
  <2>1. QED
    BY MissingServesLess
<1>3. PollSucceeds(v, t, f) \/ PollFails(v, t, verdict)
    BY <1>1
<1> HIDE DEF t, verdict
<1>4. CASE PollFails(v, t, verdict)
    BY <1>2, <1>4 DEF PollFails, Tables
<1>5. CASE PollSucceeds(v, t, f)
  <2> DEFINE u == [n \in Registers |-> IF n \in Suspicious(f) THEN AfterInvalidate(t[n]) ELSE t[n]]
  <2>1. value' = v /\ status' = u
    BY <1>5 DEF PollSucceeds
  <2>2. \A n \in Registers : Servable(u[n]) => Servable(t[n])
    BY DEF AfterInvalidate, Servable
  <2>3. u = [n \in Registers |-> u[n]]
    OBVIOUS
  <2> HIDE DEF u
  <2>4. QED
    BY <1>2, <2>1, <2>2, <2>3 DEF Tables
<1>6. QED
    BY <1>3, <1>4, <1>5

LEMMA AfterChunkServesLess ==
    ASSUME NEW v, NEW s, NEW f, NEW rec, NEW o, NEW fail,
           Tables(v, s), AfterChunk(v, s, f, rec, o, fail)
    PROVE  /\ value' = v /\ Tables(value', status')
           /\ \A n \in Registers : Servable(status'[n]) => Servable(s[n])
<1>1. CASE todo \ Chunk = {}
  <2>1. EndBatch(v, s, f, rec, o, fail)
    BY <1>1 DEF AfterChunk
  <2>2. QED
    BY <2>1, EndBatchServesLess
<1>2. CASE todo \ Chunk # {}
    BY <1>2 DEF AfterChunk
<1>3. QED
    BY <1>1, <1>2

LEMMA ChunkFailsRegainsNothing ==
    ASSUME WInv, NEW kind, ChunkFails(kind) PROVE NothingRegained
<1> DEFINE fail == IF failure = "none" THEN kind ELSE failure
           rec  == recorded \cup Chunk
           o    == Record(outcome, Chunk, "missed")
<1>1. PICK gone \in MayExpire(status, Chunk) :
          AfterChunk(value, MissedStatuses(status, Chunk, gone), fresh, rec, o, fail)
    BY DEF ChunkFails
<1> DEFINE s == MissedStatuses(status, Chunk, gone)
<1>2. Tables(value, s) /\ \A n \in Registers : Servable(s[n]) => Servable(status[n])
    BY MissingServesLess DEF Tables, WInv
<1>3. AfterChunk(value, s, fresh, rec, o, fail)
    BY <1>1
<1> HIDE DEF s, fail, rec, o
<1>4. /\ value' = value /\ Tables(value', status')
      /\ \A n \in Registers : Servable(status'[n]) => Servable(s[n])
    BY <1>2, <1>3, AfterChunkServesLess
<1>5. QED
    BY <1>2, <1>4 DEF NothingRegained

\* Missing, losing the link and growing older make nothing servable.
LEMMA CacheRegainsNothing ==
    ASSUME WInv,
           \/ \E names : Miss(names)
           \/ \E names : Expire(names)
           \/ LoseLink
           \/ UNCHANGED cacheVars
    PROVE  NothingRegained
<1>1. ASSUME NEW names, Miss(names) PROVE NothingRegained
  <2>1. PICK gone \in MayExpire(status, names) : status' = MissedStatuses(status, names, gone)
    BY <1>1 DEF Miss
  <2> DEFINE s == MissedStatuses(status, names, gone)
  <2>2. /\ s = [n \in Registers |-> s[n]]
        /\ \A n \in Registers : Servable(s[n]) => Servable(status[n])
    BY MissingServesLess
  <2>3. status' = s /\ value' = value
    BY <1>1, <2>1 DEF Miss
  <2> HIDE DEF s
  <2>4. QED
    BY <2>2, <2>3 DEF NothingRegained, Tables, WInv
<1>2. ASSUME NEW names, Expire(names) PROVE NothingRegained
  <2>1. PICK gone \in MayExpire(status, names) : status' = MissedStatuses(status, {}, gone)
    BY <1>2 DEF Expire
  <2> DEFINE s == MissedStatuses(status, {}, gone)
  <2>2. /\ s = [n \in Registers |-> s[n]]
        /\ \A n \in Registers : Servable(s[n]) => Servable(status[n])
    BY MissingServesLess
  <2>3. status' = s /\ value' = value
    BY <1>2, <2>1 DEF Expire
  <2> HIDE DEF s
  <2>4. QED
    BY <2>2, <2>3 DEF NothingRegained, Tables, WInv
<1>3. CASE LoseLink
  <2> DEFINE s == [n \in Registers |-> AfterLinkLoss(n, status[n])]
  <2>1. value' = value /\ status' = s
    BY <1>3 DEF LoseLink
  <2>2. \A n \in Registers : Servable(s[n]) => Servable(status[n])
    BY DEF AfterLinkLoss, Servable
  <2>3. s = [n \in Registers |-> s[n]]
    OBVIOUS
  <2> HIDE DEF s
  <2>4. QED
    BY <2>1, <2>2, <2>3 DEF NothingRegained, Tables, WInv
<1>4. CASE UNCHANGED cacheVars
    BY <1>4 DEF cacheVars, NothingRegained, Tables, WInv
<1>5. QED
    BY <1>1, <1>2, <1>3, <1>4

LEMMA RegainingNothingIsCurrent ==
    ASSUME WInv, NothingRegained, UNCHANGED <<device, unknown>> PROVE WInv'
BY WriteAssumption DEF WInv, NothingRegained, ServedIsCurrent

-----------------------------------------------------------------------------
(* The steps. *)

LEMMA PollReadsCurrent ==
    ASSUME WInv, NEW results \in [Chunk -> Values], PollReads(results)
    PROVE  WInv'
<1> DEFINE v == StoredValues(value, results)
           s == StoredStatuses(status, results)
           f == Merged(fresh, results)
           o == Record(outcome, Chunk, "read")
           rec == recorded \cup Chunk
<1>1. AfterChunk(v, s, f, rec, o, failure)
    BY DEF PollReads, ChunkAnswered
<1>2. Tables(v, s)
    BY DEF StoredValues, StoredStatuses, Tables
<1>3. /\ Setting \in Chunk => v[Setting] = results[Setting]
      /\ Setting \notin Chunk => v[Setting] = value[Setting] /\ s[Setting] = status[Setting]
    BY WriteAssumption DEF StoredValues, StoredStatuses
<1> HIDE DEF v, s, f, o, rec
<1>4. /\ value' = v /\ Tables(value', status')
      /\ \A n \in Registers : Servable(status'[n]) => Servable(s[n])
    BY <1>1, <1>2, AfterChunkServesLess
<1>5. /\ Setting \in Chunk => results[Setting] = device
      /\ unknown' = (unknown /\ Setting \notin Chunk) /\ device' = device
    BY DEF PollReads
<1>6. CASE Setting \in Chunk
    BY <1>3, <1>4, <1>5, <1>6 DEF WInv, ServedIsCurrent
<1>7. CASE Setting \notin Chunk
    BY <1>3, <1>4, <1>5, <1>7, WriteAssumption DEF WInv, ServedIsCurrent
<1>8. QED
    BY <1>6, <1>7

LEMMA PollAdvancesCurrent ==
    ASSUME WInv, PollAdvances PROVE WInv'
<1>1. ASSUME \/ BackoffWakes \/ DeviceBusy \/ AskAgain \/ Deadline \/ Admitted
             \/ \E kind \in {"shed", "admission"} : Refused(kind)
             \/ \E kind \in {"timeout", "illegal", "device"} : ReadFails(kind)
      PROVE  NothingRegained
  <2>1. CASE BackoffWakes
    <3>1. \E names : Miss(names)
      BY <2>1 DEF BackoffWakes
    <3>2. QED
      BY <3>1, CacheRegainsNothing
  <2>2. CASE DeviceBusy \/ AskAgain \/ Admitted
    BY <2>2, CacheRegainsNothing DEF DeviceBusy, AskAgain, Admitted
  <2>3. CASE Deadline
    BY <2>3, EndBatchServesLess DEF Deadline, NothingRegained, WInv
  <2>4. CASE \/ \E kind \in {"shed", "admission"} : Refused(kind)
             \/ \E kind \in {"timeout", "illegal", "device"} : ReadFails(kind)
    BY <2>4, ChunkFailsRegainsNothing DEF Refused, ReadFails
  <2>5. QED
    BY <1>1, <2>1, <2>2, <2>3, <2>4
<1>2. CASE \E results \in [Chunk -> Values] : PollReads(results)
    BY <1>2, PollReadsCurrent
<1>3. CASE ~\E results \in [Chunk -> Values] : PollReads(results)
    BY <1>1, <1>3, RegainingNothingIsCurrent DEF PollAdvances, writeVars
<1>4. QED
    BY <1>2, <1>3

LEMMA AroundCurrent ==
    ASSUME WInv, PollStarts \/ Around PROVE WInv'
<1>1. NothingRegained
  <2>1. CASE PollStarts \/ Cancelled \/ ConnectionRestored \/ Weather
    <3>1. UNCHANGED cacheVars
      BY <2>1 DEF PollStarts, StartPoll, FullyCached, StartBatch, StartBackoff,
                  Cancelled, ConnectionRestored, Weather
    <3>2. QED
      BY <3>1, CacheRegainsNothing
  <2>2. CASE ConnectionLost \/ TimePasses
    BY <2>2, CacheRegainsNothing DEF ConnectionLost, TimePasses
  <2>3. QED
    BY <2>1, <2>2 DEF Around, Environment
<1>2. QED
    BY <1>1, RegainingNothingIsCurrent DEF PollStarts, Around, writeVars

LEMMA WriteStepCurrent ==
    ASSUME WInv, WriteStep \/ (\E v \in Values : StartWrite(v)) PROVE WInv'
<1>1. CASE WriteAdmitted \/ WriteRefused \/ WriteRejected \/ \E v \in Values : StartWrite(v)
  <2>1. UNCHANGED <<value, status, device, unknown>>
    BY <1>1 DEF WriteAdmitted, WriteRefused, WriteRejected, StartWrite, vars, cacheVars
  <2>2. QED
    BY <2>1 DEF WInv, ServedIsCurrent
<1>2. CASE WriteLost
    BY <1>2 DEF WriteLost, vars, cacheVars, WInv, ServedIsCurrent
<1>3. CASE WriteAcknowledged
  <2>1. status' = [status EXCEPT ![Setting] = AfterInvalidate(@)] /\ value' = value
    BY <1>3 DEF WriteAcknowledged, Invalidate
  <2>2. ~Servable(status'[Setting]) /\ Tables(value', status')
    BY <2>1, WriteAssumption DEF WInv, Tables, AfterInvalidate, Servable
  <2>3. QED
    BY <2>2 DEF WInv, ServedIsCurrent
<1>4. QED
    BY <1>1, <1>2, <1>3 DEF WriteStep

LEMMA VerifyStepCurrent ==
    ASSUME WInv, VerifyStep PROVE WInv'
<1>1. CASE VerifyWakes \/ VerifyAdmitted \/ VerifyFails \/ VerifyMismatch
  <2>1. UNCHANGED <<value, status, device, unknown>>
    BY <1>1 DEF VerifyWakes, VerifyAdmitted, VerifyFails, VerifyMismatch, vars, cacheVars
  <2>2. QED
    BY <2>1 DEF WInv, ServedIsCurrent
<1>2. CASE VerifyMatch
  <2>1. Store([n \in {Setting} |-> device]) /\ device' = device
    BY <1>2 DEF VerifyMatch
  <2>2. value'[Setting] = device /\ Tables(value', status')
    BY <2>1, WriteAssumption DEF Store, StoredValues, StoredStatuses, Tables
  <2>3. QED
    BY <2>1, <2>2 DEF WInv, ServedIsCurrent
<1>3. QED
    BY <1>1, <1>2 DEF VerifyStep

\* Whatever is read, verified, deferred or failing around a write, what the
\* cache serves of the setting is what the device has, unless a write was lost
\* without an answer and the setting not read since.
THEOREM ServedStaysCurrent == WriteSpec => []ServedIsCurrent
<1>1. WInv /\ [WriteNext]_allVars => WInv'
  <2> SUFFICES ASSUME WInv, [WriteNext]_allVars PROVE WInv'
    OBVIOUS
  <2>1. CASE WriteNext
    BY <2>1, PollAdvancesCurrent, AroundCurrent, WriteStepCurrent, VerifyStepCurrent
    DEF WriteNext
  <2>2. CASE UNCHANGED allVars
    BY <2>2 DEF allVars, vars, cacheVars, writeVars, WInv, ServedIsCurrent
  <2>3. QED
    BY <2>1, <2>2
<1>2. WInv => ServedIsCurrent
    BY DEF WInv
<1>3. QED
    BY InitWInv, <1>1, <1>2, PTL DEF WriteSpec

(***************************************************************************)
(* The services that are registered.                                       *)
(***************************************************************************)

\* What any entry may be set up with.
Installations == UNION {Compositions[e] : e \in Entries}

\* What each table of services.py says of the entries that are loaded.
RegistryIInv ==
    /\ composition \in [Entries -> Installations \cup {Absent}]
    /\ entriesWith = {e \in Entries : Loaded(e) /\ composition[e].writes}
    /\ capabilityEntries = [k \in Capabilities |->
           {e \in Entries : Loaded(e) /\ k \in Contributes(composition[e])}]
    /\ RegisteredIsProvided

LEMMA ContributesProperties ==
    ASSUME NEW on \in Installations
    PROVE  /\ Contributes(on) \subseteq Capabilities
           /\ on.writes <=> Contributes(on) # {}
BY DEF Contributes, Capabilities

\* What is provided, cluster by cluster, given what each entry was set up with.
LEMMA ProvidedPointwise ==
    ASSUME NEW on, NEW R
    PROVE  R = UNION {Contributes(on[e]) : e \in {f \in Entries : on[f] # Absent}} <=>
               \A k : k \in R <=>
                   \E e \in Entries : on[e] # Absent /\ k \in Contributes(on[e])
<1> DEFINE provided == UNION {Contributes(on[e]) : e \in {f \in Entries : on[f] # Absent}}
<1>1. \A k : k \in provided <=>
          \E e \in Entries : on[e] # Absent /\ k \in Contributes(on[e])
  OBVIOUS
<1> HIDE DEF provided
<1>2. R = provided <=> \A k : k \in R <=>
          \E e \in Entries : on[e] # Absent /\ k \in Contributes(on[e])
  BY <1>1
<1> QED
  BY <1>2 DEF provided

LEMMA SetUpProvides ==
    ASSUME RegistryIInv, NEW e \in Entries, NEW on \in Installations, SetUpServices(e, on)
    PROVE  RegistryIInv'
<1> USE DEF Loaded
<1>1. Absent \notin Installations /\ composition[e] = Absent
  BY RegistryAssumption DEF SetUpServices, Installations
<1>2. /\ composition' \in [Entries -> Installations \cup {Absent}]
      /\ composition'[e] = on /\ on # Absent
      /\ \A f \in Entries : f # e => composition'[f] = composition[f]
  BY <1>1 DEF RegistryIInv, SetUpServices
<1>3. entriesWith' = {f \in Entries : composition'[f] # Absent /\ composition'[f].writes}
  BY <1>1, <1>2 DEF RegistryIInv, SetUpServices
<1>4. capabilityEntries' = [k \in Capabilities |->
          {f \in Entries : composition'[f] # Absent /\ k \in Contributes(composition'[f])}]
  <2>1. ASSUME NEW k \in Capabilities
        PROVE  (IF k \in Contributes(on) THEN capabilityEntries[k] \cup {e}
                ELSE capabilityEntries[k])
               = {f \in Entries : composition'[f] # Absent /\ k \in Contributes(composition'[f])}
    <3>1. capabilityEntries[k]
          = {f \in Entries : composition[f] # Absent /\ k \in Contributes(composition[f])}
      BY DEF RegistryIInv
    <3> QED
      BY <1>1, <1>2, <3>1, Zenon
  <2> QED
    BY <2>1, Zenon DEF SetUpServices
<1>5. \A k : k \in registered' <=>
          \E f \in Entries : composition'[f] # Absent /\ k \in Contributes(composition'[f])
  <2>1. \A k : k \in registered <=>
            \E f \in Entries : composition[f] # Absent /\ k \in Contributes(composition[f])
    BY ProvidedPointwise DEF RegistryIInv, RegisteredIsProvided
  <2>2. registered' = registered \cup Contributes(on)
    BY DEF SetUpServices
  <2> QED
    BY <1>1, <1>2, <2>1, <2>2, Zenon
<1>6. RegisteredIsProvided'
  <2>1. RegisteredIsProvided' <=>
            \A k : k \in registered' <=>
                \E f \in Entries : composition'[f] # Absent /\ k \in Contributes(composition'[f])
    BY ProvidedPointwise DEF RegisteredIsProvided
  <2> QED
    BY <1>5, <2>1
<1> QED
  BY <1>2, <1>3, <1>4, <1>6 DEF RegistryIInv

LEMMA UnloadProvides ==
    ASSUME RegistryIInv, NEW e \in Entries, UnloadServices(e)
    PROVE  RegistryIInv'
<1> USE DEF Loaded
<1>1. /\ composition' \in [Entries -> Installations \cup {Absent}]
      /\ composition'[e] = Absent
      /\ \A f \in Entries : f # e => composition'[f] = composition[f]
  BY DEF RegistryIInv, UnloadServices
<1>2. entriesWith' = {f \in Entries : composition'[f] # Absent /\ composition'[f].writes}
  BY <1>1 DEF RegistryIInv, UnloadServices
<1>3. capabilityEntries' = [k \in Capabilities |->
          {f \in Entries : composition'[f] # Absent /\ k \in Contributes(composition'[f])}]
  <2>1. ASSUME NEW k \in Capabilities
        PROVE  capabilityEntries[k] \ {e}
               = {f \in Entries : composition'[f] # Absent /\ k \in Contributes(composition'[f])}
    <3>1. capabilityEntries[k]
          = {f \in Entries : composition[f] # Absent /\ k \in Contributes(composition[f])}
      BY DEF RegistryIInv
    <3> QED
      BY <1>1, <3>1, Zenon
  <2> QED
    BY <2>1, Zenon DEF UnloadServices
<1>4. \A k : k \in registered' <=>
          \E f \in Entries : composition'[f] # Absent /\ k \in Contributes(composition'[f])
  <2>1. \A k : k \in registered <=>
            \E f \in Entries : composition[f] # Absent /\ k \in Contributes(composition[f])
    BY ProvidedPointwise DEF RegistryIInv, RegisteredIsProvided
  <2>2. registered' = IF entriesWith' = {} THEN {}
                      ELSE {k \in registered : capabilityEntries'[k] # {}}
    BY DEF UnloadServices, StillProvided
  <2>3. \A f \in Entries : composition'[f] # Absent =>
            /\ Contributes(composition'[f]) \subseteq Capabilities
            /\ composition'[f].writes <=> Contributes(composition'[f]) # {}
    BY <1>1, ContributesProperties
  <2>4. \A f \in Entries : composition[f] # Absent =>
            Contributes(composition[f]) \subseteq Capabilities
    BY ContributesProperties DEF RegistryIInv
  <2>5. CASE entriesWith' = {}
    BY <1>2, <2>2, <2>3, <2>5, Zenon
  <2>6. CASE entriesWith' # {}
    <3>1. \A k : k \in registered => k \in Capabilities
      BY <2>1, <2>4
    <3>2. \A k : k \in registered' <=> k \in registered /\ capabilityEntries'[k] # {}
      BY <2>2, <2>6
    <3>3. \A k \in Capabilities : capabilityEntries'[k] # {} <=>
              \E f \in Entries : composition'[f] # Absent /\ k \in Contributes(composition'[f])
      BY <1>3
    <3>4. \A k : (\E f \in Entries : composition'[f] # Absent /\ k \in Contributes(composition'[f]))
              => k \in Capabilities /\ k \in registered
      BY <1>1, <2>1, <2>3, Zenon
    <3> QED
      BY <3>1, <3>2, <3>3, <3>4, Zenon
  <2> QED
    BY <2>5, <2>6
<1>5. RegisteredIsProvided'
  <2>1. RegisteredIsProvided' <=>
            \A k : k \in registered' <=>
                \E f \in Entries : composition'[f] # Absent /\ k \in Contributes(composition'[f])
    BY ProvidedPointwise DEF RegisteredIsProvided
  <2> QED
    BY <1>4, <2>1
<1> QED
  BY <1>1, <1>2, <1>3, <1>5 DEF RegistryIInv

\* ICS-009: a service is registered exactly while some loaded entry has a use
\* for it: what the entries contribute, their counts and what Home Assistant
\* has never drift apart, whatever order the entries come and go in.
THEOREM ServicesFollowTheEntries == WritesSpec => []RegisteredIsProvided
<1>1. WritesInit => RegistryIInv
  <2> SUFFICES ASSUME WritesInit PROVE RegistryIInv
    OBVIOUS
  <2>1. RegistryInit
    BY DEF WritesInit
  <2>2. \A f \in Entries : ~Loaded(f)
    BY <2>1 DEF RegistryInit, Loaded
  <2>3. RegisteredIsProvided
    BY <2>1, <2>2, ProvidedPointwise DEF RegistryInit, RegisteredIsProvided, Loaded
  <2> QED
    BY <2>1, <2>2, <2>3 DEF RegistryInit, RegistryIInv
<1>2. RegistryIInv /\ [WritesNext]_writesVars => RegistryIInv'
  <2>1. ASSUME RegistryIInv, UNCHANGED registryVars
        PROVE  RegistryIInv'
    BY <2>1 DEF registryVars, RegistryIInv, RegisteredIsProvided, Loaded
  <2>2. ASSUME RegistryIInv, RegistryNext
        PROVE  RegistryIInv'
    <3>1. \A e \in Entries : \A on \in Compositions[e] : on \in Installations
      BY DEF Installations
    <3> QED
      BY <2>2, <3>1, SetUpProvides, UnloadProvides DEF RegistryNext
  <2>3. [WritesNext]_writesVars => RegistryNext \/ UNCHANGED registryVars
    BY DEF WritesNext, writesVars, EntriesChange, Call, Step, Validate, TakeBus,
           ReadSchedule, Write, Refreshed, GiveUp, BreakOff, Poll, AppEdits
  <2> QED
    BY <2>1, <2>2, <2>3
<1>3. RegistryIInv => RegisteredIsProvided
  BY DEF RegistryIInv
<1> QED
  BY <1>1, <1>2, <1>3, PTL DEF WritesSpec

(***************************************************************************)
(* Commands of several registers.                                          *)
(***************************************************************************)

Pcs == {"idle", "queued", "reading", "writing", "refreshing"}

\* What each task, the inverter and the history can be.
CallsTyped ==
    /\ group \in Groups
    /\ inverter = [x \in DOMAIN Resting(group) |-> inverter[x]]
    /\ bus \in Calls \cup {NoCall}
    /\ cutOff \in BOOLEAN /\ raced \in BOOLEAN
    /\ winner \in [rank : 0 .. MAX_RANK, kind : Commands[group] \cup {"none"}]
    /\ call = [c \in Calls |-> call[c]]
    /\ \A c \in Calls : LET r == call[c] IN
          /\ r = [pc |-> r.pc, kind |-> r.kind, arg |-> r.arg, todo |-> r.todo, rank |-> r.rank]
          /\ r.pc \in Pcs /\ r.rank \in 0 .. MAX_RANK
          /\ r.pc # "idle" => r.kind \in Commands[group]
          /\ r.pc # "idle" /\ group # "schedule" => r.arg = << >>

\* The calls under way queue for the write lock in the order in which they were
\* called, and only the first of them has got any further.
InTurn ==
    /\ lock \in Seq(Calls)
    /\ \A i, j \in DOMAIN lock : lock[i] = lock[j] => i = j
    /\ \A c \in Calls : call[c].pc # "idle" <=> Contains(lock, c)
    /\ \A i, j \in DOMAIN lock : i < j => call[lock[i]].rank < call[lock[j]].rank
    /\ \A c \in Calls : call[c].pc \notin {"idle", "queued"} => Head(lock) = c
    /\ \A c \in Calls : call[c].pc # "idle" => winner.rank <= call[c].rank

OneOnTheBus ==
    /\ bus # NoCall => call[bus].pc \in {"reading", "writing"}
    /\ \A c \in Calls : call[c].pc = "reading" => bus = c /\ call[c].kind = "edit_slot"

\* A command that switches something on does so last, and one that switches
\* everything off, first.
SwitchesOn(w)  == w[2] \in {"CHARGE", "DISCHARGE", "watt", "percent"}
SwitchesOff(w) == w[2] \in {"STOP", "unlimited", "zero", "di"}

InOrder(ws) ==
    \A i \in DOMAIN ws : /\ SwitchesOn(ws[i]) => i = Len(ws)
                         /\ SwitchesOff(ws[i]) => i = 1

\* What a command has not written yet, and was not refused, it still has to write.
Progress(c) ==
    LET all == ToSet(Writes(call[c].kind, << >>)) IN
    /\ call[c].todo \in Seq(all) /\ call[c].todo # << >> /\ InOrder(call[c].todo)
    /\ \A w \in all : w \in ToSet(call[c].todo) \/ w[1] \in refused \/ inverter[w[1]] = w[2]

\* A command of several registers, from its call to its last write.
CommandOf(c) ==
    /\ call[c].pc = "queued" => call[c].todo = Writes(call[c].kind, call[c].arg)
    /\ group # "schedule" /\ call[c].pc = "writing" =>
          IF bus = c THEN Progress(c) ELSE call[c].todo = Writes(call[c].kind, << >>)

\* An edit that is about to be written is that of the schedule on the inverter.
EditOf(c) ==
    call[c].kind = "edit_slot" /\ call[c].pc = "writing" =>
        /\ bus = c
        /\ \E s : /\ call[c].todo = << <<"periods", s>> >>
                  /\ ~raced => s = ApplySlotEdit(inverter.periods, call[c].arg[1], call[c].arg[2])

\* Between commands the inverter has what the latest one wrote and it took.
Settled ==
    /\ group = "schedule" => winner.kind = "none"
    /\ group # "schedule" /\ bus = NoCall /\ ~cutOff =>
          IF winner.kind = "none" THEN inverter = Resting(group) ELSE Applied(winner.kind)

WritesIInv ==
    /\ CallsTyped /\ InTurn /\ OneOnTheBus
    /\ \A c \in Calls : CommandOf(c) /\ EditOf(c)
    /\ Settled /\ Powered(inverter)

-----------------------------------------------------------------------------
(* Numbers and queues. *)

\* Among natural numbers there is a smallest, and among bounded ones a greatest.
LEMMA HasSmallest ==
    ASSUME NEW S \in SUBSET Nat, S # {}
    PROVE  \E x \in S : \A y \in S : x <= y
<1>1. \E x \in S : \A y \in S : ~ (<<y, x>> \in OpToRel(<, Nat))
  BY WFMin, NatLessThanWellFounded, Zenon
<1>2. \E x \in S : \A y \in S : ~ (y < x)
  <2>1. \A x, y \in S : y < x => <<y, x>> \in OpToRel(<, Nat)
    BY Zenon DEF OpToRel
  <2> QED
    BY <1>1, <2>1, Zenon
<1> QED
  BY <1>2

LEMMA HasGreatest ==
    ASSUME NEW n \in Nat, NEW S \in SUBSET (0 .. n), S # {}
    PROVE  Max(S) \in S /\ \A y \in S : y <= Max(S)
<1> DEFINE T == {m \in Nat : \E x \in S : m = n - x}
<1>1. T \in SUBSET Nat /\ T # {}
  <2>1. PICK x \in S : TRUE
    OBVIOUS
  <2>2. n - x \in Nat
    OBVIOUS
  <2> QED
    BY <2>1, <2>2
<1>2. PICK m \in T : \A y \in T : m <= y
  BY <1>1, HasSmallest
<1>3. PICK x \in S : m = n - x
  OBVIOUS
<1>4. ASSUME NEW y \in S PROVE x >= y
  <2>1. n - y \in Nat /\ n - y \in T
    OBVIOUS
  <2>2. m <= n - y
    BY <1>2, <2>1
  <2> QED
    BY <1>3, <2>2
<1>5. \E z \in S : \A y \in S : z >= y
  BY <1>4
<1>6. Max(S) \in S /\ \A y \in S : Max(S) >= y
  BY <1>5 DEF Max
<1> QED
  BY <1>6

\* What is left of a queue without its k-th element: the others, in their order.
LEMMA QueueWithout ==
    ASSUME NEW S, NEW s \in Seq(S), NEW k \in 1 .. Len(s),
           \A i, j \in DOMAIN s : s[i] = s[j] => i = j
    PROVE  LET rest == RemoveAt(s, k) IN
           /\ rest \in Seq(S)
           /\ \A x \in S : Contains(rest, x) <=> Contains(s, x) /\ x # s[k]
           /\ \E b \in [DOMAIN rest -> DOMAIN s] :
                 /\ \A i \in DOMAIN rest : rest[i] = s[b[i]]
                 /\ \A i, j \in DOMAIN rest : i < j => b[i] < b[j]
           /\ k # 1 => rest # << >> /\ rest[1] = s[1]
<1> DEFINE n == Len(s)
           front == SubSeq(s, 1, k - 1)
           back  == SubSeq(s, k + 1, n)
           rest  == RemoveAt(s, k)
<1>1. n \in Nat /\ DOMAIN s = 1 .. n /\ k \in 1 .. n /\ \A i \in 1 .. n : s[i] \in S
  OBVIOUS
<1>2. front \in Seq(S) /\ Len(front) = k - 1 /\ \A i \in 1 .. k - 1 : front[i] = s[i]
  <2>1. \A i \in 1 .. k - 1 : s[i] \in S
    BY <1>1
  <2>2. /\ front \in Seq(S)
        /\ Len(front) = IF 1 <= k - 1 THEN (k - 1) - 1 + 1 ELSE 0
        /\ \A i \in 1 .. (k - 1) - 1 + 1 : front[i] = s[1 + i - 1]
    BY <1>1, <2>1, SubSeqProperties
  <2>3. /\ (k - 1) - 1 + 1 = k - 1 /\ (1 <= k - 1 \/ k - 1 = 0)
        /\ \A i \in 1 .. k - 1 : 1 + i - 1 = i
    BY <1>1
  <2> HIDE DEF n, front
  <2> QED
    BY <2>2, <2>3
<1>3. back \in Seq(S) /\ Len(back) = n - k /\ \A i \in 1 .. n - k : back[i] = s[k + i]
  <2>1. \A i \in k + 1 .. n : s[i] \in S
    BY <1>1
  <2>2. /\ back \in Seq(S)
        /\ Len(back) = IF k + 1 <= n THEN n - (k + 1) + 1 ELSE 0
        /\ \A i \in 1 .. n - (k + 1) + 1 : back[i] = s[(k + 1) + i - 1]
    BY <1>1, <2>1, SubSeqProperties
  <2> HIDE DEF n, back
  <2>3. /\ n - (k + 1) + 1 = n - k /\ (k + 1 <= n \/ n - k = 0)
        /\ \A i \in 1 .. n - k : (k + 1) + i - 1 = k + i
    BY <1>1
  <2> QED
    BY <2>2, <2>3
<1>4. /\ rest \in Seq(S) /\ Len(rest) = Len(front) + Len(back)
      /\ \A i \in 1 .. Len(front) + Len(back) :
            rest[i] = IF i <= Len(front) THEN front[i] ELSE back[i - Len(front)]
  <2>1. rest = front \o back
    BY DEF RemoveAt
  <2>2. front \in Seq(S) /\ back \in Seq(S)
    BY <1>2, <1>3
  <2> HIDE DEF front, back, rest
  <2>3. /\ front \o back \in Seq(S) /\ Len(front \o back) = Len(front) + Len(back)
        /\ \A i \in 1 .. Len(front) + Len(back) :
              (front \o back)[i] = IF i <= Len(front) THEN front[i] ELSE back[i - Len(front)]
    BY <2>2, ConcatProperties, Zenon
  <2> QED
    BY <2>1, <2>3, Zenon
<1> HIDE DEF front, back
<1> DEFINE before(i) == IF i < k THEN i ELSE i + 1
<1>5. /\ Len(rest) = n - 1 /\ DOMAIN rest = 1 .. n - 1
  <2>1. (k - 1) + (n - k) = n - 1 /\ n - 1 \in Nat
    BY <1>1
  <2>2. Len(rest) = n - 1
    BY <1>2, <1>3, <1>4, <2>1
  <2> HIDE DEF rest
  <2> QED
    BY <1>4, <2>1, <2>2, LenProperties
<1>6. ASSUME NEW i \in 1 .. n - 1
      PROVE  rest[i] = s[before(i)]
  <2>0. (k - 1) + (n - k) = n - 1
    BY <1>1
  <2>1. rest[i] = IF i <= k - 1 THEN front[i] ELSE back[i - (k - 1)]
    BY <1>2, <1>3, <1>4, <2>0
  <2>2. CASE i < k
    <3>1. i <= k - 1 /\ i \in 1 .. k - 1
      BY <1>1, <2>2
    <3> QED
      BY <1>2, <2>1, <2>2, <3>1
  <2>3. CASE ~(i < k)
    <3>1. ~(i <= k - 1) /\ i - (k - 1) \in 1 .. n - k /\ k + (i - (k - 1)) = i + 1
      BY <1>1, <2>3
    <3> QED
      BY <1>3, <2>1, <2>3, <3>1
  <2> QED
    BY <2>2, <2>3
<1>7. Len(s) = n
  OBVIOUS
<1> HIDE DEF n, rest
<1>8. /\ \A i \in 1 .. n - 1 : before(i) \in 1 .. n /\ before(i) # k
      /\ \A i, j \in 1 .. n - 1 : i < j => before(i) < before(j)
  <2>1. n \in Nat /\ k \in Nat
    BY <1>1
  <2> QED
    BY <2>1
<1>9. \A i \in 1 .. n : i # k => \E j \in 1 .. n - 1 : before(j) = i
  <2>1. \A i \in 1 .. n : i < k => i \in 1 .. n - 1 /\ before(i) = i
    BY <1>1
  <2>2. \A i \in 1 .. n : i > k => i - 1 \in 1 .. n - 1 /\ before(i - 1) = i
    BY <1>1
  <2>3. \A i \in 1 .. n : i # k => i < k \/ i > k
    BY <1>1
  <2> HIDE DEF before
  <2> QED
    BY <2>1, <2>2, <2>3, Zenon
<1>10. k # 1 => before(1) = 1 /\ 1 \in 1 .. n - 1
  BY <1>1
<1> HIDE DEF before
<1>11. \A i, j \in 1 .. n : s[i] = s[j] => i = j
  BY <1>1
<1>12. ASSUME NEW x \in S
       PROVE  Contains(rest, x) <=> Contains(s, x) /\ x # s[k]
  <2>1. Contains(rest, x) <=> \E i \in 1 .. n - 1 : rest[i] = x
    BY <1>5 DEF Contains
  <2>2. Contains(s, x) <=> \E i \in 1 .. n : s[i] = x
    BY <1>7 DEF Contains
  <2> QED
    BY <1>1, <1>6, <1>8, <1>9, <1>11, <2>1, <2>2, ZenonT(40)
<1>13. \E b \in [DOMAIN rest -> DOMAIN s] :
          /\ \A i \in DOMAIN rest : rest[i] = s[b[i]]
          /\ \A i, j \in DOMAIN rest : i < j => b[i] < b[j]
  <2> DEFINE f == [i \in 1 .. n - 1 |-> before(i)]
  <2>1. f \in [1 .. n - 1 -> 1 .. n] /\ \A i \in 1 .. n - 1 : f[i] = before(i)
    BY <1>8
  <2> HIDE DEF f
  <2> QED
    BY <1>1, <1>5, <1>6, <1>8, <2>1, SMTT(20)
<1>14. k # 1 => rest # << >> /\ rest[1] = s[1]
  <2> SUFFICES ASSUME k # 1 PROVE rest # << >> /\ rest[1] = s[1]
    OBVIOUS
  <2>1. rest[1] = s[1]
    BY <1>6, <1>10
  <2>2. 1 \in DOMAIN rest
    BY <1>5, <1>10
  <2> QED
    BY <2>1, <2>2
<1> QED
  BY <1>4, <1>12, <1>13, <1>14 DEF rest
-----------------------------------------------------------------------------
(* Commands. *)

SeveralRegisters == Commands["forcible"] \cup Commands["feedin"]

\* A list of writes, no two of which are to one register.
Distinct(ws) ==
    /\ ws \in Seq(ToSet(ws)) /\ ws # << >>
    /\ \A v, w \in ToSet(ws) : v[1] = w[1] => v = w

\* Lists of two, three and four writes.
LEMMA TwoWrites ==
    ASSUME NEW u, NEW v,
           u[1] # v[1]
    PROVE  Distinct(<<u, v>>) /\ ToSet(<<u, v>>) = {u, v}
<1>1. ToSet(<<u, v>>) = {u, v}
  BY DEF ToSet
<1>2. <<u, v>> \in Seq({u, v}) /\ <<u, v>> # << >>
  OBVIOUS
<1> QED
  BY <1>1, <1>2, Zenon DEF Distinct

LEMMA ThreeWrites ==
    ASSUME NEW u, NEW v, NEW w,
           u[1] # v[1], u[1] # w[1], v[1] # w[1]
    PROVE  Distinct(<<u, v, w>>) /\ ToSet(<<u, v, w>>) = {u, v, w}
<1>1. ToSet(<<u, v, w>>) = {u, v, w}
  BY DEF ToSet
<1>2. <<u, v, w>> \in Seq({u, v, w}) /\ <<u, v, w>> # << >>
  OBVIOUS
<1> QED
  BY <1>1, <1>2, Zenon DEF Distinct

LEMMA FourWrites ==
    ASSUME NEW t, NEW u, NEW v, NEW w,
           t[1] # u[1], t[1] # v[1], t[1] # w[1], u[1] # v[1], u[1] # w[1], v[1] # w[1]
    PROVE  Distinct(<<t, u, v, w>>) /\ ToSet(<<t, u, v, w>>) = {t, u, v, w}
<1>1. ToSet(<<t, u, v, w>>) = {t, u, v, w}
  BY DEF ToSet
<1>2. <<t, u, v, w>> \in Seq({t, u, v, w}) /\ <<t, u, v, w>> # << >>
  OBVIOUS
<1> QED
  BY <1>1, <1>2, Zenon DEF Distinct

\* The registers of each command.
LEMMA ForcibleWrites ==
    ASSUME NEW kind \in Commands["forcible"]
    PROVE  LET ws == Writes(kind, << >>) IN
           /\ Distinct(ws)
           /\ \/ \E p \in {"chargePower", "dischargePower"}, l \in {"time", "soc"} :
                    ToSet(ws) = {<<p, "on">>, <<"limit", l>>,
                        <<"command", IF p = "chargePower" THEN "CHARGE" ELSE "DISCHARGE">>}
              \/ ToSet(ws) = {<<"command", "STOP">>, <<"chargePower", "off">>,
                              <<"dischargePower", "off">>, <<"limit", "none">>}
              \/ ToSet(ws) = {<<"command", "STOP">>, <<"dischargePower", "off">>,
                              <<"limit", "none">>}
<1> DEFINE Started(p, l) ==
               Starts(p, l, IF p = "chargePower" THEN "CHARGE" ELSE "DISCHARGE")
<1>1. ASSUME NEW p \in {"chargePower", "dischargePower"}, NEW l \in {"time", "soc"}
      PROVE  /\ Distinct(Started(p, l))
             /\ ToSet(Started(p, l)) = {<<p, "on">>, <<"limit", l>>,
                    <<"command", IF p = "chargePower" THEN "CHARGE" ELSE "DISCHARGE">>}
  <2> DEFINE u == <<p, "on">>
             v == <<"limit", l>>
             w == <<"command", IF p = "chargePower" THEN "CHARGE" ELSE "DISCHARGE">>
  <2>1. u[1] # v[1] /\ u[1] # w[1] /\ v[1] # w[1]
    OBVIOUS
  <2>2. Started(p, l) = <<u, v, w>>
    BY DEF Starts
  <2> HIDE DEF u, v, w, Started
  <2>3. Distinct(<<u, v, w>>) /\ ToSet(<<u, v, w>>) = {u, v, w}
    BY <2>1, ThreeWrites
  <2>4. Distinct(Started(p, l)) /\ ToSet(Started(p, l)) = {u, v, w}
    BY <2>2, <2>3
  <2> QED
    BY <2>4 DEF u, v, w
<1>2. CASE kind = "stop_forcible_charge"
  <2> DEFINE t == <<"command", "STOP">>
             u == <<"chargePower", "off">>
             v == <<"dischargePower", "off">>
             w == <<"limit", "none">>
  <2>1. t[1] # u[1] /\ t[1] # v[1] /\ t[1] # w[1] /\ u[1] # v[1] /\ u[1] # w[1] /\ v[1] # w[1]
    OBVIOUS
  <2>2. Writes(kind, << >>) = <<t, u, v, w>>
    BY <1>2 DEF Writes
  <2> HIDE DEF t, u, v, w
  <2>3. Distinct(<<t, u, v, w>>) /\ ToSet(<<t, u, v, w>>) = {t, u, v, w}
    BY <2>1, FourWrites
  <2>4. Distinct(Writes(kind, << >>)) /\ ToSet(Writes(kind, << >>)) = {t, u, v, w}
    BY <2>2, <2>3
  <2> QED
    BY <2>4 DEF t, u, v, w
<1>3. CASE kind = "stop_button"
  <2> DEFINE u == <<"command", "STOP">>
             v == <<"dischargePower", "off">>
             w == <<"limit", "none">>
  <2>1. u[1] # v[1] /\ u[1] # w[1] /\ v[1] # w[1]
    OBVIOUS
  <2>2. Writes(kind, << >>) = <<u, v, w>>
    BY <1>3 DEF Writes
  <2> HIDE DEF u, v, w
  <2>3. Distinct(<<u, v, w>>) /\ ToSet(<<u, v, w>>) = {u, v, w}
    BY <2>1, ThreeWrites
  <2>4. Distinct(Writes(kind, << >>)) /\ ToSet(Writes(kind, << >>)) = {u, v, w}
    BY <2>2, <2>3
  <2> QED
    BY <2>4 DEF u, v, w
<1>4. CASE kind \notin {"stop_forcible_charge", "stop_button"}
  <2>1. \E p \in {"chargePower", "dischargePower"}, l \in {"time", "soc"} :
            Writes(kind, << >>) = Started(p, l)
    BY <1>4 DEF Commands, Writes
  <2> HIDE DEF Started
  <2> QED
    BY <1>1, <2>1, Zenon
<1> QED
  BY <1>2, <1>3, <1>4

LEMMA FeedInWrites ==
    ASSUME NEW kind \in Commands["feedin"]
    PROVE  LET ws == Writes(kind, << >>) IN
           /\ Distinct(ws)
           /\ \/ \E m \in {"unlimited", "zero", "di"} :
                    ToSet(ws) = {<<"mode", m>>, <<"watt", "off">>, <<"percent", "off">>}
              \/ \E m \in {"watt", "percent"} : ToSet(ws) = {<<m, "on">>, <<"mode", m>>}
<1>1. CASE kind \in {"feed_watt", "feed_percent"}
  <2>0. PICK m \in {"watt", "percent"} : Writes(kind, << >>) = << <<m, "on">>, <<"mode", m>> >>
    BY <1>1 DEF Writes
  <2> DEFINE u == <<m, "on">>
             v == <<"mode", m>>
  <2>1. u[1] # v[1]
    OBVIOUS
  <2>2. Writes(kind, << >>) = <<u, v>>
    BY <2>0
  <2> HIDE DEF u, v
  <2>3. Distinct(<<u, v>>) /\ ToSet(<<u, v>>) = {u, v}
    BY <2>1, TwoWrites
  <2>4. Distinct(Writes(kind, << >>)) /\ ToSet(Writes(kind, << >>)) = {u, v}
    BY <2>2, <2>3
  <2> QED
    BY <2>4 DEF u, v
<1>2. CASE kind \notin {"feed_watt", "feed_percent"}
  <2>0. PICK m \in {"unlimited", "zero", "di"} : Writes(kind, << >>) = Regulates(m)
    BY <1>2 DEF Commands, Writes
  <2> DEFINE u == <<"mode", m>>
             v == <<"watt", "off">>
             w == <<"percent", "off">>
  <2>1. u[1] # v[1] /\ u[1] # w[1] /\ v[1] # w[1]
    OBVIOUS
  <2>2. Writes(kind, << >>) = <<u, v, w>>
    BY <2>0 DEF Regulates
  <2> HIDE DEF u, v, w
  <2>3. Distinct(<<u, v, w>>) /\ ToSet(<<u, v, w>>) = {u, v, w}
    BY <2>1, ThreeWrites
  <2>4. Distinct(Writes(kind, << >>)) /\ ToSet(Writes(kind, << >>)) = {u, v, w}
    BY <2>2, <2>3
  <2> QED
    BY <2>4 DEF u, v, w
<1> QED
  BY <1>1, <1>2

\* Every command writes registers of its group, each once.
LEMMA WrittenRegisters ==
    ASSUME group \in Groups, group # "schedule", NEW kind \in Commands[group]
    PROVE  /\ kind # "none" /\ kind # "edit_slot"
           /\ Distinct(Writes(kind, << >>))
           /\ \A w \in ToSet(Writes(kind, << >>)) : w[1] \in DOMAIN Resting(group)
<1>1. kind # "none" /\ kind # "edit_slot"
  BY DEF Groups, Commands
<1>2. CASE group = "forcible"
  <2>1. DOMAIN Resting(group) = {"command", "chargePower", "dischargePower", "limit"}
    BY <1>2 DEF Resting
  <2>2. ASSUME NEW w \in ToSet(Writes(kind, << >>))
        PROVE  w[1] \in DOMAIN Resting(group)
    BY <1>2, <2>1, ForcibleWrites
  <2> QED
    BY <1>1, <1>2, <2>2, ForcibleWrites
<1>3. CASE group = "feedin"
  <2>1. DOMAIN Resting(group) = {"mode", "watt", "percent"}
    BY <1>3 DEF Resting
  <2>2. ASSUME NEW w \in ToSet(Writes(kind, << >>))
        PROVE  w[1] \in DOMAIN Resting(group)
    BY <1>3, <2>1, FeedInWrites
  <2> QED
    BY <1>1, <1>3, <2>2, FeedInWrites
<1> QED
  BY <1>2, <1>3 DEF Groups

\* What one command leaves makes sense, and so does the state at rest.
LEMMA AppliedMakesSense ==
    ASSUME group \in Groups, group # "schedule", Powered(inverter)
    PROVE  /\ \A kind \in Commands[group] : Applied(kind) => MakesSense(inverter)
           /\ inverter = Resting(group) => MakesSense(inverter)
<1>1. ASSUME inverter = Resting(group) PROVE MakesSense(inverter)
  BY <1>1 DEF Groups, Resting, MakesSense, InAccord
<1>2. ASSUME NEW kind \in Commands[group], Applied(kind) PROVE MakesSense(inverter)
  <2> DEFINE all == ToSet(Writes(kind, << >>))
  <2>1. \A a, x : <<a, x>> \in all => a \in refused \/ inverter[a] = x
    <3>1. \A w \in all : w[1] \in refused \/ inverter[w[1]] = w[2]
      BY <1>2 DEF Applied
    <3> HIDE DEF all
    <3> QED
      BY <3>1
  <2>4. group = "forcible" \/ group = "feedin"
    BY DEF Groups
  <2> HIDE DEF all
  <2>2. CASE group = "forcible"
    <3>1. ASSUME NEW p \in {"chargePower", "dischargePower"}, NEW l \in {"time", "soc"},
                 all = {<<p, "on">>, <<"limit", l>>,
                     <<"command", IF p = "chargePower" THEN "CHARGE" ELSE "DISCHARGE">>}
          PROVE  MakesSense(inverter)
      <4>1. /\ "limit" \in refused \/ inverter["limit"] = l
            /\ "command" \in refused \/ inverter["command"] \in {"CHARGE", "DISCHARGE"}
        BY <2>1, <3>1
      <4> QED
        BY <2>2, <4>1 DEF MakesSense, InAccord
    <3>2. ASSUME <<"command", "STOP">> \in all, <<"limit", "none">> \in all
          PROVE  MakesSense(inverter)
      <4>1. /\ "limit" \in refused \/ inverter["limit"] = "none"
            /\ "command" \in refused \/ inverter["command"] = "STOP"
        BY <2>1, <3>2
      <4> QED
        BY <2>2, <4>1 DEF MakesSense, InAccord
    <3> QED
      BY <2>2, <3>1, <3>2, ForcibleWrites DEF all
  <2>3. CASE group = "feedin"
    <3>1. ASSUME NEW m \in {"unlimited", "zero", "di"},
                 all = {<<"mode", m>>, <<"watt", "off">>, <<"percent", "off">>}
          PROVE  MakesSense(inverter)
      <4>1. \A x \in {"watt", "percent"} : x \in refused \/ inverter[x] = "off"
        BY <2>1, <3>1
      <4> QED
        BY <2>3, <4>1 DEF MakesSense, InAccord
    <3>2. ASSUME NEW m \in {"watt", "percent"}, all = {<<m, "on">>, <<"mode", m>>}
          PROVE  MakesSense(inverter)
      <4>1. "mode" \in refused \/ inverter["mode"] = m
        BY <2>1, <3>2
      <4> QED
        BY <2>3, <4>1 DEF MakesSense, InAccord
    <3> QED
      BY <2>3, <3>1, <3>2, FeedInWrites DEF all
  <2> QED
    BY <2>2, <2>3, <2>4
<1> QED
  BY <1>1, <1>2

LEMMA HeadAndTail ==
    ASSUME NEW S, NEW s \in Seq(S), s # << >>
    PROVE  /\ Head(s) \in S /\ Tail(s) \in Seq(S)
           /\ \A x : x \in ToSet(s) => x = Head(s) \/ x \in ToSet(Tail(s))
           /\ Len(s) = 1 => ToSet(Tail(s)) = {}
           /\ Len(s) # 1 => Tail(s) # << >>
<1>1. Len(s) \in Nat /\ Len(s) >= 1 /\ \A i \in 1 .. Len(s) : s[i] \in S
  OBVIOUS
<1>2. /\ Tail(s) \in Seq(S) /\ Len(Tail(s)) = Len(s) - 1 /\ Head(s) = s[1] /\ Head(s) \in S
      /\ \A i \in 1 .. Len(s) - 1 : Tail(s)[i] = s[i + 1]
  BY <1>1
<1>3. DOMAIN Tail(s) = 1 .. Len(s) - 1 /\ DOMAIN s = 1 .. Len(s)
  BY <1>2
<1>4. ASSUME NEW x \in ToSet(s), x # Head(s) PROVE x \in ToSet(Tail(s))
  <2>1. PICK i \in 1 .. Len(s) : x = s[i]
    BY <1>3 DEF ToSet
  <2>2. i # 1
    BY <1>2, <1>4, <2>1
  <2>3. i - 1 \in 1 .. Len(s) - 1 /\ (i - 1) + 1 = i
    BY <1>1, <2>2
  <2>4. x = Tail(s)[i - 1] /\ i - 1 \in DOMAIN Tail(s)
    BY <1>2, <1>3, <2>1, <2>3
  <2> QED
    BY <2>4 DEF ToSet
<1>5. Len(s) = 1 => ToSet(Tail(s)) = {}
  <2>1. Len(s) = 1 => DOMAIN Tail(s) = {}
    BY <1>3
  <2> QED
    BY <2>1 DEF ToSet
<1>6. Len(s) # 1 => Tail(s) # << >>
  <2>1. Len(s) # 1 => Len(Tail(s)) # 0
    BY <1>1, <1>2
  <2> QED
    BY <2>1
<1> QED
  BY <1>2, <1>4, <1>5, <1>6

\* Each command writes in the order of InOrder.
LEMMA CommandsAreInOrder ==
    ASSUME group \in Groups, group # "schedule", NEW kind \in Commands[group]
    PROVE  InOrder(Writes(kind, << >>))
<1> DEFINE ws == Writes(kind, << >>)
<1>1. CASE kind \in {"forcible_charge", "forcible_discharge", "forcible_charge_soc",
                     "forcible_discharge_soc"}
  <2>1. PICK p \in {"chargePower", "dischargePower"}, l \in {"time", "soc"},
             command \in {"CHARGE", "DISCHARGE"} :
            ws = << <<p, "on">>, <<"limit", l>>, <<"command", command>> >>
    BY <1>1 DEF Writes, Starts
  <2> HIDE DEF ws
  <2>2. /\ DOMAIN ws = {1, 2, 3} /\ Len(ws) = 3
        /\ ws[1][2] = "on" /\ ws[2][2] = l /\ ws[3][2] = command
    BY <2>1
  <2>3. InOrder(ws)
    BY <2>2 DEF InOrder, SwitchesOn, SwitchesOff
  <2> QED
    BY <2>3 DEF ws
<1>2. CASE kind \in {"stop_forcible_charge", "stop_button"}
  <2>1. \A i \in DOMAIN ws : i = 1 \/ ws[i][2] \in {"off", "none"}
    <3>1. CASE kind = "stop_forcible_charge"
      <4>1. ws = << <<"command", "STOP">>, <<"chargePower", "off">>,
                    <<"dischargePower", "off">>, <<"limit", "none">> >>
        BY <3>1 DEF Writes
      <4> HIDE DEF ws
      <4> QED
        BY <4>1
    <3>2. CASE kind = "stop_button"
      <4>1. ws = << <<"command", "STOP">>, <<"dischargePower", "off">>, <<"limit", "none">> >>
        BY <3>2 DEF Writes
      <4> HIDE DEF ws
      <4> QED
        BY <4>1
    <3> QED
      BY <1>2, <3>1, <3>2
  <2>2. ws[1][2] = "STOP"
    BY <1>2 DEF Writes
  <2> HIDE DEF ws
  <2>3. InOrder(ws)
    BY <2>1, <2>2 DEF InOrder, SwitchesOn, SwitchesOff
  <2> QED
    BY <2>3 DEF ws
<1>3. CASE kind \in {"reset_feed", "zero_feed", "di_feed"}
  <2>1. PICK m \in {"unlimited", "zero", "di"} :
            ws = << <<"mode", m>>, <<"watt", "off">>, <<"percent", "off">> >>
    BY <1>3 DEF Writes, Regulates
  <2> HIDE DEF ws
  <2>2. /\ DOMAIN ws = 1 .. 3 /\ ws[1][2] = m /\ ws[2][2] = "off" /\ ws[3][2] = "off"
    BY <2>1
  <2> QED
    BY <2>2 DEF InOrder, SwitchesOn, SwitchesOff, ws
<1>4. CASE kind \in {"feed_watt", "feed_percent"}
  <2>1. PICK m \in {"watt", "percent"} : ws = << <<m, "on">>, <<"mode", m>> >>
    BY <1>4 DEF Writes
  <2> HIDE DEF ws
  <2>2. DOMAIN ws = {1, 2} /\ Len(ws) = 2 /\ ws[1][2] = "on" /\ ws[2][2] = m
    BY <2>1
  <2>3. InOrder(ws)
    BY <2>2 DEF InOrder, SwitchesOn, SwitchesOff
  <2> QED
    BY <2>3 DEF ws
<1> QED
  BY <1>1, <1>2, <1>3, <1>4 DEF Groups, Commands

\* What the order says of the write whose turn it is.
LEMMA HeadInOrder ==
    ASSUME NEW S, NEW s \in Seq(S), s # << >>, InOrder(s)
    PROVE  /\ InOrder(Tail(s))
           /\ SwitchesOn(Head(s)) => \A v \in ToSet(s) : v = Head(s)
           /\ \A v \in ToSet(s) : SwitchesOff(v) => v = Head(s)
<1>1. /\ Len(s) \in Nat /\ Len(s) >= 1 /\ DOMAIN s = 1 .. Len(s) /\ Head(s) = s[1]
      /\ \A v \in ToSet(s) : \E i \in 1 .. Len(s) : v = s[i]
  BY DEF ToSet
<1>2. /\ Len(Tail(s)) = Len(s) - 1 /\ DOMAIN Tail(s) = 1 .. Len(s) - 1
      /\ \A i \in 1 .. Len(s) - 1 : Tail(s)[i] = s[i + 1]
  BY <1>1
<1>4. \A i \in 1 .. Len(s) :
          (SwitchesOn(s[i]) => i = Len(s)) /\ (SwitchesOff(s[i]) => i = 1)
  BY <1>1 DEF InOrder
<1>5. Len(s) \in Nat /\ Len(s) >= 1
  BY <1>1
<1>7. InOrder(Tail(s))
  <2> SUFFICES ASSUME NEW i \in 1 .. Len(s) - 1
               PROVE  /\ SwitchesOn(Tail(s)[i]) => i = Len(s) - 1
                      /\ SwitchesOff(Tail(s)[i]) => i = 1
    BY <1>2 DEF InOrder
  <2>1. PICK j \in 1 .. Len(s) : j = i + 1
    BY <1>1
  <2>2. Tail(s)[i] = s[j]
    BY <1>2, <2>1
  <2>3. (SwitchesOn(s[j]) => j = Len(s)) /\ (SwitchesOff(s[j]) => j = 1)
    BY <1>4, <2>1, Zenon
  <2>4. (j = Len(s) => i = Len(s) - 1) /\ j # 1
    BY <1>5, <2>1
  <2> QED
    BY <2>2, <2>3, <2>4
<1>8. ASSUME SwitchesOn(Head(s)), NEW v \in ToSet(s) PROVE v = Head(s)
  <2>1. SwitchesOn(s[1]) /\ 1 \in 1 .. Len(s)
    BY <1>1, <1>8
  <2>2. Len(s) = 1
    BY <1>4, <2>1, Zenon
  <2>3. PICK i \in 1 .. Len(s) : v = s[i]
    BY <1>1
  <2>4. i = 1
    BY <2>2, <2>3
  <2> QED
    BY <1>1, <2>3, <2>4
<1>9. ASSUME NEW v \in ToSet(s), SwitchesOff(v) PROVE v = Head(s)
  <2>1. PICK i \in 1 .. Len(s) : v = s[i]
    BY <1>1
  <2>2. i = 1
    BY <1>4, <1>9, <2>1, Zenon
  <2> QED
    BY <1>1, <2>1, <2>2
<1> QED
  BY <1>7, <1>8, <1>9

\* A write that is answered concerns its own register, which is then as written
\* or remembered as refused.
LEMMA TakeDoes ==
    ASSUME CallsTyped, NEW w, NEW taken \in BOOLEAN, Take(w, taken)
    PROVE  /\ inverter' = [x \in DOMAIN inverter |-> inverter'[x]]
           /\ w[1] \in refused' \/ inverter'[w[1]] = w[2]
           /\ \A x \in DOMAIN Resting(group) : x # w[1] =>
                 inverter'[x] = inverter[x] /\ (x \in refused' <=> x \in refused)
<1> DEFINE D == DOMAIN Resting(group)
<1> HIDE DEF D
<1>1. inverter = [x \in D |-> inverter[x]]
  BY DEF CallsTyped, D
<1>2. inverter' = inverter \/ inverter' = [inverter EXCEPT ![w[1]] = w[2]]
  BY DEF Take
<1>3. refused' = IF inverter'[w[1]] = w[2] THEN refused \ {w[1]} ELSE refused \cup {w[1]}
  BY DEF Take
<1>4. inverter' = [x \in DOMAIN inverter |-> inverter'[x]]
  BY <1>1, <1>2
<1>5. \A x \in D : x # w[1] => inverter'[x] = inverter[x]
  BY <1>1, <1>2
<1>6. \A x : x # w[1] => (x \in refused' <=> x \in refused)
  BY <1>3
<1>7. w[1] \in refused' \/ inverter'[w[1]] = w[2]
  BY <1>3
<1> QED
  BY <1>4, <1>5, <1>6, <1>7 DEF D

\* Whatever is switched on has its power after each write of a command: the
\* power is written before, or the command is over by then.
LEMMA TakeKeepsPower ==
    ASSUME group \in Groups, group # "schedule", group' = group, Powered(inverter),
           NEW kind \in Commands[group], NEW left \in Seq(ToSet(Writes(kind, << >>))),
           left # << >>, InOrder(left),
           \A v \in ToSet(Writes(kind, << >>)) :
               v \in ToSet(left) \/ v[1] \in refused \/ inverter[v[1]] = v[2],
           Head(left)[1] \in refused' \/ inverter'[Head(left)[1]] = Head(left)[2],
           \A x \in DOMAIN Resting(group) : x # Head(left)[1] =>
               inverter'[x] = inverter[x] /\ (x \in refused' <=> x \in refused)
    PROVE  Powered(inverter)'
<1> DEFINE all == ToSet(Writes(kind, << >>))
           w   == Head(left)
<1>1. /\ w \in all
      /\ SwitchesOn(w) => \A v \in ToSet(left) : v = w
      /\ \A v \in ToSet(left) : SwitchesOff(v) => v = w
  BY HeadAndTail, HeadInOrder
<1>2. \A v \in all : v \in ToSet(left) \/ v[1] \in refused \/ inverter[v[1]] = v[2]
  OBVIOUS
<1>3. w[1] \in refused' \/ inverter'[w[1]] = w[2]
  OBVIOUS
<1>4. \A x \in DOMAIN Resting(group) : x # w[1] =>
          inverter'[x] = inverter[x] /\ (x \in refused' <=> x \in refused)
  OBVIOUS
<1>5. all = ToSet(Writes(kind, << >>))
  OBVIOUS
<1> HIDE DEF all, w
<1>6. CASE group = "forcible"
  <2>1. \A x \in {"command", "chargePower", "dischargePower", "limit"} : x # w[1] =>
            inverter'[x] = inverter[x] /\ (x \in refused' <=> x \in refused)
    <3>1. DOMAIN Resting(group) = {"command", "chargePower", "dischargePower", "limit"}
      BY <1>6 DEF Resting
    <3> QED
      BY <1>4, <3>1
  <2>2. /\ {"command", "chargePower"} \cap refused = {} =>
              (inverter.command = "CHARGE" => inverter.chargePower = "on")
        /\ {"command", "dischargePower"} \cap refused = {} =>
              (inverter.command = "DISCHARGE" => inverter.dischargePower = "on")
    BY <1>6 DEF Powered, InAccord
  <2> SUFFICES /\ {"command", "chargePower"} \cap refused' = {} =>
                     (inverter'.command = "CHARGE" => inverter'.chargePower = "on")
               /\ {"command", "dischargePower"} \cap refused' = {} =>
                     (inverter'.command = "DISCHARGE" => inverter'.dischargePower = "on")
    BY <1>6 DEF Powered, InAccord
  <2>3. ASSUME NEW p \in {"chargePower", "dischargePower"}, NEW l \in {"time", "soc"},
               NEW command, command = IF p = "chargePower" THEN "CHARGE" ELSE "DISCHARGE",
               all = {<<p, "on">>, <<"limit", l>>, <<"command", command>>}
        PROVE  /\ {"command", "chargePower"} \cap refused' = {} =>
                     (inverter'.command = "CHARGE" => inverter'.chargePower = "on")
               /\ {"command", "dischargePower"} \cap refused' = {} =>
                     (inverter'.command = "DISCHARGE" => inverter'.dischargePower = "on")
    <3>1. CASE w = <<p, "on">>
      <4>1. w[1] = p /\ w[2] = "on"
        BY <3>1
      <4> QED
        BY <1>3, <2>1, <2>2, <4>1
    <3>2. CASE w = <<"limit", l>>
      <4>1. w[1] = "limit"
        BY <3>2
      <4> QED
        BY <2>1, <2>2, <4>1
    <3>3. CASE w = <<"command", command>>
      <4>1. w[1] = "command" /\ w[2] = command /\ SwitchesOn(w)
        BY <2>3, <3>3 DEF SwitchesOn
      <4>2. <<p, "on">> \in all /\ <<p, "on">> # w
        BY <2>3, <3>3
      <4>3. <<p, "on">>[1] \in refused \/ inverter[<<p, "on">>[1]] = <<p, "on">>[2]
        BY <1>1, <1>2, <4>1, <4>2
      <4>4. p \in refused \/ inverter[p] = "on"
        BY <4>3
      <4>5. p # "command" /\ (p \in refused' <=> p \in refused) /\ inverter'[p] = inverter[p]
        BY <2>1, <4>1
      <4>6. "command" \in refused' \/ inverter'["command"] = command
        BY <1>3, <4>1
      <4> QED
        BY <2>3, <4>4, <4>5, <4>6
    <3> QED
      BY <1>1, <2>3, <3>1, <3>2, <3>3
  <2>4. ASSUME <<"command", "STOP">> \in all,
               \A v \in all : v = <<"command", "STOP">> \/ v[1] # "command"
        PROVE  "command" \in refused' \/ inverter'["command"] = "STOP"
    <3>1. CASE w = <<"command", "STOP">>
      BY <1>3, <3>1
    <3>2. CASE w # <<"command", "STOP">>
      <4>1. SwitchesOff(<<"command", "STOP">>)
        BY DEF SwitchesOff
      <4>2. <<"command", "STOP">> \notin ToSet(left)
        BY <1>1, <3>2, <4>1
      <4>3. <<"command", "STOP">>[1] \in refused
            \/ inverter[<<"command", "STOP">>[1]] = <<"command", "STOP">>[2]
        BY <1>2, <2>4, <4>2
      <4>4. "command" \in refused \/ inverter["command"] = "STOP"
        BY <4>3
      <4>5. w[1] # "command"
        BY <1>1, <2>4, <3>2
      <4> QED
        BY <2>1, <4>4, <4>5
    <3> QED
      BY <3>1, <3>2
  <2>5. ASSUME \/ all = {<<"command", "STOP">>, <<"chargePower", "off">>,
                         <<"dischargePower", "off">>, <<"limit", "none">>}
               \/ all = {<<"command", "STOP">>, <<"dischargePower", "off">>, <<"limit", "none">>}
        PROVE  /\ <<"command", "STOP">> \in all
               /\ \A v \in all : v = <<"command", "STOP">> \/ v[1] # "command"
    BY <2>5
  <2> QED
    BY <1>5, <1>6, <2>3, <2>4, <2>5, ForcibleWrites
<1>7. CASE group = "feedin"
  <2>1. \A x \in {"mode", "watt", "percent"} : x # w[1] =>
            inverter'[x] = inverter[x] /\ (x \in refused' <=> x \in refused)
    <3>1. DOMAIN Resting(group) = {"mode", "watt", "percent"}
      BY <1>7 DEF Resting
    <3> QED
      BY <1>4, <3>1
  <2>2. \A m \in {"watt", "percent"} :
            {"mode", m} \cap refused = {} => (inverter.mode = m => inverter[m] = "on")
    BY <1>7 DEF Powered, InAccord
  <2> SUFFICES \A m \in {"watt", "percent"} :
                   {"mode", m} \cap refused' = {} => (inverter'.mode = m => inverter'[m] = "on")
    BY <1>7 DEF Powered, InAccord
  <2>3. ASSUME NEW m \in {"unlimited", "zero", "di"},
               all = {<<"mode", m>>, <<"watt", "off">>, <<"percent", "off">>}
        PROVE  "mode" \in refused' \/ inverter'["mode"] = m
    <3>1. CASE w = <<"mode", m>>
      BY <1>3, <3>1
    <3>2. CASE w # <<"mode", m>>
      <4>1. SwitchesOff(<<"mode", m>>)
        BY DEF SwitchesOff
      <4>2. <<"mode", m>> \notin ToSet(left) /\ <<"mode", m>> \in all
        BY <1>1, <2>3, <3>2, <4>1
      <4>3. <<"mode", m>>[1] \in refused \/ inverter[<<"mode", m>>[1]] = <<"mode", m>>[2]
        BY <1>2, <4>2
      <4>4. "mode" \in refused \/ inverter["mode"] = m
        BY <4>3
      <4>5. w[1] # "mode"
        BY <1>1, <2>3, <3>2
      <4> QED
        BY <2>1, <4>4, <4>5
    <3> QED
      BY <3>1, <3>2
  <2>4. ASSUME NEW m \in {"watt", "percent"}, all = {<<m, "on">>, <<"mode", m>>}
        PROVE  \A n \in {"watt", "percent"} :
                   {"mode", n} \cap refused' = {} => (inverter'.mode = n => inverter'[n] = "on")
    <3>1. CASE w = <<m, "on">>
      <4>1. w[1] = m /\ w[2] = "on"
        BY <3>1
      <4> QED
        BY <1>3, <2>1, <2>2, <4>1
    <3>2. CASE w = <<"mode", m>>
      <4>1. w[1] = "mode" /\ w[2] = m /\ SwitchesOn(w)
        BY <3>2 DEF SwitchesOn
      <4>2. <<m, "on">> \in all /\ <<m, "on">> # w
        BY <2>4, <3>2
      <4>3. <<m, "on">>[1] \in refused \/ inverter[<<m, "on">>[1]] = <<m, "on">>[2]
        BY <1>1, <1>2, <4>1, <4>2
      <4>4. m \in refused \/ inverter[m] = "on"
        BY <4>3
      <4>5. m # "mode" /\ (m \in refused' <=> m \in refused) /\ inverter'[m] = inverter[m]
        BY <2>1, <4>1
      <4>6. "mode" \in refused' \/ inverter'["mode"] = m
        BY <1>3, <4>1
      <4> QED
        BY <4>4, <4>5, <4>6
    <3> QED
      BY <1>1, <2>4, <3>1, <3>2
  <2> QED
    BY <1>5, <1>7, <2>3, <2>4, FeedInWrites
<1> QED
  BY <1>6, <1>7 DEF Groups
-----------------------------------------------------------------------------
(* The write lock: the calls under way are in turn. *)

LEMMA TypesOf ==
    ASSUME CallsTyped, NEW c \in Calls
    PROVE  /\ call[c] = [pc |-> call[c].pc, kind |-> call[c].kind, arg |-> call[c].arg,
                         todo |-> call[c].todo, rank |-> call[c].rank]
           /\ call[c].pc \in Pcs
           /\ call[c].rank \in 0 .. MAX_RANK /\ call[c].rank \in Nat
           /\ call[c].pc # "idle" => call[c].kind \in Commands[group]
           /\ call[c].pc # "idle" /\ group # "schedule" => call[c].arg = << >>
<1>1. MAX_RANK \in Nat
  BY WritesAssumption
<1> QED
  BY <1>1 DEF CallsTyped

\* A newcomer ranks after every call under way, and after the winner among those
\* that these overlapped.
LEMMA NextRankIsLast ==
    ASSUME CallsTyped
    PROVE  /\ NextRank \in Nat \ {0}
           /\ \A d \in Calls : call[d].pc # "idle" => call[d].rank < NextRank
           /\ UnderWay # {} => winner.rank < NextRank
<1> DEFINE S == {call[c].rank : c \in UnderWay} \cup {winner.rank}
<1>1. MAX_RANK \in Nat /\ winner.rank \in 0 .. MAX_RANK
  BY WritesAssumption DEF CallsTyped
<1>2. S \in SUBSET (0 .. MAX_RANK) /\ S # {}
  BY <1>1, TypesOf DEF UnderWay
<1>3. Max(S) \in S /\ \A y \in S : y <= Max(S)
  BY <1>1, <1>2, HasGreatest
<1>4. Max(S) \in Nat /\ \A y \in S : y \in Nat
  BY <1>1, <1>2, <1>3
<1>5. UnderWay # {} => NextRank = 1 + Max(S)
  BY DEF NextRank
<1>6. UnderWay = {} => NextRank = 1
  BY DEF NextRank
<1>7. winner.rank \in S /\ \A d \in Calls : call[d].pc # "idle" => d \in UnderWay /\ call[d].rank \in S
  BY DEF UnderWay
<1> HIDE DEF S
<1>8. \A y \in S : y < 1 + Max(S)
  BY <1>3, <1>4
<1>9. 1 + Max(S) \in Nat \ {0}
  BY <1>4
<1> QED
  BY <1>5, <1>6, <1>7, <1>8, <1>9

\* The call that has the lock was called before the others.
LEMMA HeadIsFirst ==
    ASSUME CallsTyped, InTurn, NEW c \in Calls, Head(lock) = c,
           NEW d \in Calls, call[d].pc # "idle"
    PROVE  call[c].rank <= call[d].rank
<1>1. PICK j \in 1 .. Len(lock) : lock[j] = d
  BY DEF InTurn, Contains
<1>2. Len(lock) \in Nat /\ DOMAIN lock = 1 .. Len(lock) /\ 1 \in DOMAIN lock /\ lock[1] = c
  BY <1>1 DEF InTurn
<1>0. call[c].rank \in Nat /\ call[d].rank \in Nat
  BY TypesOf
<1>3. CASE j = 1
  <2>1. c = d
    BY <1>1, <1>2, <1>3
  <2> QED
    BY <1>0, <2>1
<1>4. CASE j # 1
  <2>1. 1 < j /\ j \in DOMAIN lock
    BY <1>1, <1>2, <1>4
  <2>2. call[lock[1]].rank < call[lock[j]].rank
    BY <1>2, <2>1 DEF InTurn
  <2>3. call[c].rank < call[d].rank
    BY <1>1, <1>2, <2>2
  <2> QED
    BY <1>0, <2>3
<1> QED
  BY <1>3, <1>4

\* Whoever is not first in the queue has not begun.
LEMMA OthersWait ==
    ASSUME CallsTyped, InTurn, NEW c \in Calls, Head(lock) = c,
           NEW d \in Calls, d # c
    PROVE  call[d].pc \in {"idle", "queued"}
BY DEF InTurn

LEMMA JoinKeepsTurn ==
    ASSUME CallsTyped, InTurn, NEW c \in Calls, call[c].pc = "idle",
           lock' = Append(lock, c),
           \A d \in Calls : d # c => call'[d] = call[d],
           call'[c].pc = "queued", call'[c].rank = NextRank,
           winner'.rank = IF UnderWay = {} THEN 0 ELSE winner.rank
    PROVE  InTurn'
<1> DEFINE n == Len(lock)
<1>1. n \in Nat /\ DOMAIN lock = 1 .. n /\ \A i \in 1 .. n : lock[i] \in Calls
  BY DEF InTurn
<1>2. /\ lock' \in Seq(Calls) /\ Len(lock') = n + 1 /\ DOMAIN lock' = 1 .. n + 1
      /\ \A i \in 1 .. n : lock'[i] = lock[i]
      /\ lock'[n + 1] = c
  BY DEF InTurn
<1>3. \A i \in 1 .. n : lock[i] # c /\ call[lock[i]].pc # "idle"
  BY <1>1 DEF InTurn, Contains
<1>4. \A i \in 1 .. n + 1 : i \in 1 .. n \/ i = n + 1
  BY <1>1
<1>5. \A i \in 1 .. n : call'[lock[i]] = call[lock[i]]
  BY <1>1, <1>3
<1>6. \A d \in Calls : d # c /\ Contains(lock, d) => n # 0 /\ 1 \in 1 .. n
  BY <1>1 DEF Contains
<1>7. \A d \in Calls : Contains(lock, d) <=> \E i \in 1 .. n : lock[i] = d
  BY DEF Contains
<1>8. \A d \in Calls : Contains(lock, d)' <=> \E i \in 1 .. n + 1 : lock'[i] = d
  BY <1>2 DEF Contains
<1>9. 1 .. n \subseteq 1 .. n + 1 /\ n + 1 \in 1 .. n + 1
  BY <1>1
<1>10. n # 0 => Head(lock') = Head(lock)
  <2>1. n # 0 => 1 \in 1 .. n /\ lock # << >> /\ lock' # << >>
    BY <1>1, <1>2
  <2> QED
    BY <1>2, <2>1 DEF InTurn
<1>11. \A i, j \in 1 .. n + 1 : i < j => i \in 1 .. n
  BY <1>1
<1> HIDE DEF n
<1>12. \A i, j \in DOMAIN lock' : lock'[i] = lock'[j] => i = j
  <2>1. \A i, j \in 1 .. n : lock[i] = lock[j] => i = j
    BY <1>1 DEF InTurn
  <2> QED
    BY <1>2, <1>3, <1>4, <2>1
<1>13. \A d \in Calls : call'[d].pc # "idle" <=> Contains(lock, d)'
  <2>1. \A d \in Calls : call[d].pc # "idle" <=> Contains(lock, d)
    BY DEF InTurn
  <2> QED
    BY <1>2, <1>4, <1>7, <1>8, <1>9, <2>1
<1>14. \A i, j \in DOMAIN lock' : i < j => call'[lock'[i]].rank < call'[lock'[j]].rank
  <2>1. \A i, j \in 1 .. n : i < j => call[lock[i]].rank < call[lock[j]].rank
    BY <1>1 DEF InTurn
  <2>2. \A i \in 1 .. n : call[lock[i]].rank < NextRank
    BY <1>1, <1>3, NextRankIsLast
  <2> SUFFICES ASSUME NEW i \in 1 .. n + 1, NEW j \in 1 .. n + 1, i < j
               PROVE  call'[lock'[i]].rank < call'[lock'[j]].rank
    BY <1>2
  <2>3. i \in 1 .. n
    BY <1>11
  <2>4. CASE j \in 1 .. n
    BY <1>2, <1>5, <2>1, <2>3, <2>4
  <2>5. CASE j = n + 1
    BY <1>2, <1>5, <2>2, <2>3, <2>5
  <2> QED
    BY <1>4, <2>4, <2>5
<1>15. \A d \in Calls : call'[d].pc \notin {"idle", "queued"} => Head(lock') = d
  <2>1. \A d \in Calls : d # c /\ call[d].pc \notin {"idle", "queued"}
            => Head(lock) = d /\ Contains(lock, d)
    BY DEF InTurn
  <2> QED
    BY <1>6, <1>10, <2>1
<1>16. \A d \in Calls : call'[d].pc # "idle" => winner'.rank <= call'[d].rank
  <2>1. \A d \in Calls : call[d].pc # "idle" => winner.rank <= call[d].rank /\ d \in UnderWay
    BY DEF InTurn, UnderWay
  <2>2. winner.rank \in Nat /\ NextRank \in Nat /\ (UnderWay # {} => winner.rank < NextRank)
    BY NextRankIsLast, WritesAssumption DEF CallsTyped
  <2>3. \A d \in Calls : d # c /\ call[d].pc # "idle" => winner'.rank <= call'[d].rank
    BY <2>1
  <2>4. winner'.rank <= call'[c].rank
    BY <2>2
  <2> QED
    BY <2>3, <2>4
<1> QED
  BY <1>2, <1>12, <1>13, <1>14, <1>15, <1>16 DEF InTurn

LEMMA StayKeepsTurn ==
    ASSUME InTurn, lock' = lock,
           \A d \in Calls : /\ call'[d].rank = call[d].rank
                            /\ call'[d].pc = "idle" <=> call[d].pc = "idle"
                            /\ call'[d].pc \notin {"idle", "queued"} => Head(lock) = d
                            /\ call'[d].pc # "idle" => winner'.rank <= call[d].rank
    PROVE  InTurn'
<1>1. \A i \in DOMAIN lock : lock[i] \in Calls
  BY DEF InTurn
<1>2. \A i, j \in DOMAIN lock : i < j => call'[lock[i]].rank < call'[lock[j]].rank
  BY <1>1 DEF InTurn
<1>3. \A d \in Calls : call'[d].pc # "idle" <=> Contains(lock, d)
  BY DEF InTurn
<1>4. \A d \in Calls : Contains(lock, d)' <=> Contains(lock, d)
  BY DEF Contains
<1> QED
  BY <1>2, <1>3, <1>4 DEF InTurn

LEMMA LeaveKeepsTurn ==
    ASSUME CallsTyped, InTurn, NEW c \in Calls, Leave(c), winner' = winner
    PROVE  InTurn'
<1>1. /\ call'[c].pc = "idle"
      /\ \A d \in Calls : d # c => call'[d] = call[d]
  BY DEF CallsTyped, Leave, Idle
<1>2. PICK i \in DOMAIN lock : lock[i] = c /\ lock' = RemoveAt(lock, i)
  BY DEF Leave
<1> DEFINE rest == RemoveAt(lock, i)
<1>3. /\ lock \in Seq(Calls) /\ i \in 1 .. Len(lock)
      /\ \A j, k \in DOMAIN lock : lock[j] = lock[k] => j = k
  BY DEF InTurn
<1>4. /\ rest \in Seq(Calls)
      /\ \A x \in Calls : Contains(rest, x) <=> Contains(lock, x) /\ x # lock[i]
      /\ \E b \in [DOMAIN rest -> DOMAIN lock] :
            /\ \A j \in DOMAIN rest : rest[j] = lock[b[j]]
            /\ \A j, k \in DOMAIN rest : j < k => b[j] < b[k]
      /\ i # 1 => rest # << >> /\ rest[1] = lock[1]
  BY <1>3, QueueWithout, Zenon
<1>5. PICK b \in [DOMAIN rest -> DOMAIN lock] :
            /\ \A j \in DOMAIN rest : rest[j] = lock[b[j]]
            /\ \A j, k \in DOMAIN rest : j < k => b[j] < b[k]
  BY <1>4
<1>6. rest = lock'
  BY <1>2
<1> HIDE DEF rest
<1>7. \A j \in DOMAIN rest : rest[j] \in Calls /\ Contains(rest, rest[j]) /\ rest[j] # c
  <2>1. \A j \in DOMAIN rest : rest[j] \in Calls /\ Contains(rest, rest[j])
    BY <1>4 DEF Contains
  <2> QED
    BY <1>2, <1>4, <2>1
<1>8. \A j, k \in DOMAIN rest : rest[j] = rest[k] => j = k
  <2> SUFFICES ASSUME NEW j \in DOMAIN rest, NEW k \in DOMAIN rest, rest[j] = rest[k]
               PROVE  j = k
    OBVIOUS
  <2>1. b[j] = b[k]
    BY <1>3, <1>5
  <2>2. j \in Nat /\ k \in Nat /\ b[j] \in Nat
    BY <1>3, <1>4, <1>5
  <2>3. ~(j < k) /\ ~(k < j)
    BY <1>5, <2>1, <2>2
  <2> QED
    BY <2>2, <2>3
<1>9. \A d \in Calls : call'[d].pc # "idle" <=> Contains(rest, d)
  BY <1>1, <1>2, <1>4 DEF InTurn
<1>10. \A j, k \in DOMAIN rest : j < k => call'[rest[j]].rank < call'[rest[k]].rank
  <2>1. \A j, k \in DOMAIN rest : j < k => call[rest[j]].rank < call[rest[k]].rank
    BY <1>5 DEF InTurn
  <2> QED
    BY <1>1, <1>7, <2>1
<1>11. \A d \in Calls : call'[d].pc \notin {"idle", "queued"} => Head(rest) = d
  <2> SUFFICES ASSUME NEW d \in Calls, call'[d].pc \notin {"idle", "queued"}
               PROVE  Head(rest) = d
    OBVIOUS
  <2>1. d # c /\ Head(lock) = d
    BY <1>1 DEF InTurn
  <2>2. lock[1] = d
    BY <1>3, <2>1
  <2>3. i # 1
    BY <1>2, <2>1, <2>2
  <2> QED
    BY <1>4, <2>2, <2>3
<1>12. \A d \in Calls : call'[d].pc # "idle" => winner'.rank <= call'[d].rank
  BY <1>1 DEF InTurn
<1>13. \A d \in Calls : Contains(rest, d) <=> Contains(lock, d)'
  BY <1>6 DEF Contains
<1> QED
  BY <1>4, <1>6, <1>8, <1>9, <1>10, <1>11, <1>12, <1>13 DEF InTurn
-----------------------------------------------------------------------------
(* What an action does to the calls. *)

\* A call goes on: its record keeps what it was called with.
GoesOn(c, p, t) ==
    call' = [call EXCEPT ![c] = [pc |-> p, kind |-> call[c].kind, arg |-> call[c].arg,
                                 todo |-> t, rank |-> call[c].rank]]

LEMMA RecordUpdates ==
    ASSUME NEW r, NEW p, NEW t,
           r = [pc |-> r.pc, kind |-> r.kind, arg |-> r.arg, todo |-> r.todo, rank |-> r.rank]
    PROVE  /\ [r EXCEPT !.pc = p] = [pc |-> p, kind |-> r.kind, arg |-> r.arg,
                                     todo |-> r.todo, rank |-> r.rank]
           /\ [[r EXCEPT !.pc = p] EXCEPT !.todo = t] =
                  [pc |-> p, kind |-> r.kind, arg |-> r.arg, todo |-> t, rank |-> r.rank]
           /\ [[r EXCEPT !.todo = t] EXCEPT !.pc = p] =
                  [pc |-> p, kind |-> r.kind, arg |-> r.arg, todo |-> t, rank |-> r.rank]
<1> DEFINE R(a, b, d, e, f) == [pc |-> a, kind |-> b, arg |-> d, todo |-> e, rank |-> f]
<1>1. ASSUME NEW q, NEW a, NEW b, NEW d, NEW e, NEW f, q = R(a, b, d, e, f)
      PROVE  /\ [q EXCEPT !.pc = p] = R(p, b, d, e, f)
             /\ [q EXCEPT !.todo = t] = R(a, b, d, t, f)
  BY <1>1
<1>2. r = R(r.pc, r.kind, r.arg, r.todo, r.rank)
  OBVIOUS
<1> HIDE DEF R
<1>3. /\ [r EXCEPT !.pc = p] = R(p, r.kind, r.arg, r.todo, r.rank)
      /\ [r EXCEPT !.todo = t] = R(r.pc, r.kind, r.arg, t, r.rank)
  BY <1>1, <1>2
<1>4. /\ [R(p, r.kind, r.arg, r.todo, r.rank) EXCEPT !.todo = t] = R(p, r.kind, r.arg, t, r.rank)
      /\ [R(r.pc, r.kind, r.arg, t, r.rank) EXCEPT !.pc = p] = R(p, r.kind, r.arg, t, r.rank)
  BY <1>1
<1>5. /\ [r EXCEPT !.pc = p] = R(p, r.kind, r.arg, r.todo, r.rank)
      /\ [[r EXCEPT !.pc = p] EXCEPT !.todo = t] = R(p, r.kind, r.arg, t, r.rank)
      /\ [[r EXCEPT !.todo = t] EXCEPT !.pc = p] = R(p, r.kind, r.arg, t, r.rank)
  BY <1>3, <1>4
<1> QED
  BY <1>5, Zenon DEF R

LEMMA GoingOn ==
    ASSUME CallsTyped, NEW c \in Calls, NEW p, NEW t, GoesOn(c, p, t)
    PROVE  /\ call'[c].pc = p /\ call'[c].kind = call[c].kind /\ call'[c].arg = call[c].arg
           /\ call'[c].todo = t /\ call'[c].rank = call[c].rank
           /\ \A d \in Calls : d # c => call'[d] = call[d]
BY DEF CallsTyped, GoesOn

LEMMA GoingOnTyped ==
    ASSUME CallsTyped, NEW c \in Calls, call[c].pc # "idle", NEW p \in Pcs, NEW t, GoesOn(c, p, t),
           group' = group, inverter' = [x \in DOMAIN inverter |-> inverter'[x]],
           bus' \in Calls \cup {NoCall}, cutOff' \in BOOLEAN, raced' \in BOOLEAN,
           winner' \in [rank : 0 .. MAX_RANK, kind : Commands[group] \cup {"none"}]
    PROVE  CallsTyped'
<1>1. DOMAIN inverter = DOMAIN Resting(group)
  <2> DEFINE D == DOMAIN Resting(group)
  <2> HIDE DEF D
  <2>1. inverter = [x \in D |-> inverter[x]]
    BY DEF CallsTyped, D
  <2>2. DOMAIN inverter = D
    BY <2>1
  <2> QED
    BY <2>2 DEF D
<1>2. inverter' = [x \in DOMAIN Resting(group') |-> inverter'[x]]
  BY <1>1
<1>3. call' = [d \in Calls |-> call'[d]]
  BY DEF CallsTyped, GoesOn
<1>4. ASSUME NEW d \in Calls, d # c
      PROVE  /\ call'[d] = call[d]
             /\ call[d] = [pc |-> call[d].pc, kind |-> call[d].kind, arg |-> call[d].arg,
                           todo |-> call[d].todo, rank |-> call[d].rank]
             /\ call[d].pc \in Pcs /\ call[d].rank \in 0 .. MAX_RANK
             /\ call[d].pc # "idle" => call[d].kind \in Commands[group]
             /\ call[d].pc # "idle" /\ group # "schedule" => call[d].arg = << >>
  BY <1>4, TypesOf, GoingOn
<1>5. /\ call'[c] = [pc |-> p, kind |-> call[c].kind, arg |-> call[c].arg,
                     todo |-> t, rank |-> call[c].rank]
      /\ call[c].rank \in 0 .. MAX_RANK /\ call[c].kind \in Commands[group]
      /\ group # "schedule" => call[c].arg = << >>
  BY TypesOf DEF CallsTyped, GoesOn
<1>6. group' \in Groups
  BY DEF CallsTyped
<1>7. ASSUME NEW d \in Calls
      PROVE  LET r == call'[d] IN
             /\ r = [pc |-> r.pc, kind |-> r.kind, arg |-> r.arg, todo |-> r.todo, rank |-> r.rank]
             /\ r.pc \in Pcs /\ r.rank \in 0 .. MAX_RANK
             /\ r.pc # "idle" => r.kind \in Commands[group]
             /\ r.pc # "idle" /\ group # "schedule" => r.arg = << >>
  <2>1. CASE d = c
    BY <1>5, <2>1
  <2>2. CASE d # c
    BY <1>4, <2>2
  <2> QED
    BY <2>1, <2>2
<1> QED
  BY <1>2, <1>3, <1>6, <1>7 DEF CallsTyped

\* What a call that waits, or whose hold of the bus nothing disturbs, has to do.
LEMMA BystandersKeep ==
    ASSUME NEW d, CommandOf(d), EditOf(d), call'[d] = call[d], group' = group,
           \/ call[d].pc \in {"idle", "queued", "refreshing"}
           \/ /\ inverter' = inverter /\ refused' = refused
              /\ raced' = raced /\ (bus' = d <=> bus = d)
    PROVE  CommandOf(d)' /\ EditOf(d)'
<1>1. CASE call[d].pc \in {"idle", "queued", "refreshing"}
  BY <1>1 DEF CommandOf, EditOf
<1>2. CASE inverter' = inverter /\ refused' = refused /\ raced' = raced /\ (bus' = d <=> bus = d)
  BY <1>2, Zenon DEF CommandOf, EditOf, Progress
<1> QED
  BY <1>1, <1>2

\* A call that leaves takes nothing from the others.
LEMMA LeaveKeeps ==
    ASSUME CallsTyped, InTurn, OneOnTheBus, \A d \in Calls : CommandOf(d) /\ EditOf(d),
           NEW c \in Calls, Leave(c),
           UNCHANGED <<group, winner, raced>>, cutOff' \in BOOLEAN,
           inverter' = [x \in DOMAIN inverter |-> inverter'[x]],
           bus = c \/ UNCHANGED <<inverter, refused>>
    PROVE  /\ CallsTyped' /\ InTurn' /\ OneOnTheBus'
           /\ \A d \in Calls : CommandOf(d)' /\ EditOf(d)'
<1>1. /\ call' = [call EXCEPT ![c] = Idle]
      /\ bus' = IF bus = c THEN NoCall ELSE bus
  BY DEF Leave
<1>2. call'[c] = Idle /\ \A d \in Calls : d # c => call'[d] = call[d]
  BY <1>1 DEF CallsTyped
<1>3. InTurn'
  BY LeaveKeepsTurn
<1>4. CallsTyped'
  <2>1. DOMAIN inverter = DOMAIN Resting(group)
    <3> DEFINE D == DOMAIN Resting(group)
    <3> HIDE DEF D
    <3>1. inverter = [x \in D |-> inverter[x]]
      BY DEF CallsTyped, D
    <3>2. DOMAIN inverter = D
      BY <3>1
    <3> QED
      BY <3>2 DEF D
  <2>2. inverter' = [x \in DOMAIN Resting(group') |-> inverter'[x]]
    BY <2>1
  <2>3. call' = [d \in Calls |-> call'[d]]
    BY <1>1 DEF CallsTyped
  <2>4. ASSUME NEW d \in Calls
        PROVE  LET r == call'[d] IN
               /\ r = [pc |-> r.pc, kind |-> r.kind, arg |-> r.arg, todo |-> r.todo, rank |-> r.rank]
               /\ r.pc \in Pcs /\ r.rank \in 0 .. MAX_RANK
               /\ r.pc # "idle" => r.kind \in Commands[group]
               /\ r.pc # "idle" /\ group # "schedule" => r.arg = << >>
    <3>1. CASE d = c
      <4>1. 0 \in 0 .. MAX_RANK
        BY WritesAssumption
      <4> QED
        BY <1>2, <3>1, <4>1 DEF Idle, Pcs
    <3>2. CASE d # c
      <4>1. call'[d] = call[d]
        BY <1>2, <3>2
      <4> QED
        BY <4>1, TypesOf
    <3> QED
      BY <3>1, <3>2
  <2>5. /\ group' \in Groups /\ bus' \in Calls \cup {NoCall} /\ raced' \in BOOLEAN
        /\ winner' \in [rank : 0 .. MAX_RANK, kind : Commands[group'] \cup {"none"}]
    BY <1>1 DEF CallsTyped
  <2> QED
    BY <2>2, <2>3, <2>4, <2>5 DEF CallsTyped
<1>5. OneOnTheBus'
  BY <1>1, <1>2, WritesAssumption DEF OneOnTheBus, CallsTyped, Idle
<1>6. ASSUME NEW d \in Calls
      PROVE  CommandOf(d)' /\ EditOf(d)'
  <2>1. CASE d = c
    BY <1>2, <2>1 DEF Idle, CommandOf, EditOf
  <2>2. CASE d # c
    <3>1. call'[d] = call[d] /\ (bus' = d <=> bus = d)
      BY <1>1, <1>2, <2>2, WritesAssumption
    <3>2. bus = c => call[d].pc \in {"idle", "queued"}
      BY <2>2, WritesAssumption, OthersWait DEF OneOnTheBus, InTurn
    <3> QED
      BY <3>1, <3>2, BystandersKeep
  <2> QED
    BY <2>1, <2>2
<1> QED
  BY <1>3, <1>4, <1>5, <1>6
-----------------------------------------------------------------------------
(* The actions. *)

LEMMA CallKeeps ==
    ASSUME WritesIInv, NEW c \in Calls, NEW kind \in Commands[group], NEW arg \in Args(kind),
           Call(c, kind, arg)
    PROVE  WritesIInv'
<1>0. /\ CallsTyped /\ InTurn /\ OneOnTheBus /\ Settled /\ Powered(inverter)
      /\ \A d \in Calls : CommandOf(d) /\ EditOf(d)
  BY DEF WritesIInv
<1> DEFINE new == [pc |-> "queued", kind |-> kind, arg |-> arg,
                   todo |-> Writes(kind, arg), rank |-> NextRank]
<1>1. /\ call[c].pc = "idle" /\ NextRank <= MAX_RANK
      /\ call' = [call EXCEPT ![c] = new]
      /\ lock' = Append(lock, c)
      /\ winner' = IF UnderWay = {} THEN [winner EXCEPT !.rank = 0] ELSE winner
      /\ UNCHANGED <<group, inverter, bus, cutOff, raced, refused>>
  BY DEF Call
<1>2. call'[c] = new /\ \A d \in Calls : d # c => call'[d] = call[d]
  BY <1>0, <1>1 DEF CallsTyped
<1>3. NextRank \in 0 .. MAX_RANK
  BY <1>0, <1>1, NextRankIsLast, WritesAssumption
<1>4. /\ new.pc = "queued" /\ new.kind = kind /\ new.arg = arg
      /\ new.todo = Writes(kind, arg) /\ new.rank = NextRank
      /\ new = [pc |-> new.pc, kind |-> new.kind, arg |-> new.arg,
                todo |-> new.todo, rank |-> new.rank]
  OBVIOUS
<1>5. group # "schedule" => arg = << >>
  BY <1>0, WrittenRegisters, SMTT(20) DEF CallsTyped, Args, Groups, Commands
<1> HIDE DEF new
<1>6. /\ winner' \in [rank : 0 .. MAX_RANK, kind : Commands[group] \cup {"none"}]
      /\ winner'.kind = winner.kind
      /\ winner'.rank = IF UnderWay = {} THEN 0 ELSE winner.rank
  <2>1. winner \in [rank : 0 .. MAX_RANK, kind : Commands[group] \cup {"none"}] /\ 0 \in 0 .. MAX_RANK
    BY <1>0, WritesAssumption DEF CallsTyped
  <2> QED
    BY <1>1, <2>1
<1>7. InTurn'
  BY <1>0, <1>1, <1>2, <1>4, <1>6, JoinKeepsTurn
<1>8. CallsTyped'
  <2>1. call' = [d \in Calls |-> call'[d]]
    BY <1>0, <1>1 DEF CallsTyped
  <2>2. ASSUME NEW d \in Calls
        PROVE  LET r == call'[d] IN
               /\ r = [pc |-> r.pc, kind |-> r.kind, arg |-> r.arg, todo |-> r.todo, rank |-> r.rank]
               /\ r.pc \in Pcs /\ r.rank \in 0 .. MAX_RANK
               /\ r.pc # "idle" => r.kind \in Commands[group]
               /\ r.pc # "idle" /\ group # "schedule" => r.arg = << >>
    <3>1. CASE d = c
      BY <1>2, <1>3, <1>4, <1>5, <3>1 DEF Pcs
    <3>2. CASE d # c
      <4>1. call'[d] = call[d]
        BY <1>2, <3>2
      <4> QED
        BY <1>0, <4>1, TypesOf
    <3> QED
      BY <3>1, <3>2
  <2>3. /\ group' \in Groups /\ bus' \in Calls \cup {NoCall}
        /\ cutOff' \in BOOLEAN /\ raced' \in BOOLEAN
        /\ inverter' = [x \in DOMAIN Resting(group') |-> inverter'[x]]
    BY <1>0, <1>1 DEF CallsTyped
  <2>4. winner' \in [rank : 0 .. MAX_RANK, kind : Commands[group'] \cup {"none"}]
    BY <1>1, <1>6
  <2>5. group' = group
    BY <1>1
  <2> QED
    BY <2>1, <2>2, <2>3, <2>4, <2>5 DEF CallsTyped
<1>9. OneOnTheBus'
  BY <1>0, <1>1, <1>2, <1>4 DEF OneOnTheBus
<1>10. ASSUME NEW d \in Calls
       PROVE  CommandOf(d)' /\ EditOf(d)'
  <2>1. CASE d = c
    BY <1>2, <1>4, <2>1 DEF CommandOf, EditOf
  <2>2. CASE d # c
    BY <1>0, <1>1, <1>2, <2>2, BystandersKeep
  <2> QED
    BY <2>1, <2>2
<1>11. Settled'
  BY <1>0, <1>1, <1>6 DEF Settled, Applied
<1>12. Powered(inverter)'
  BY <1>0, <1>1 DEF Powered, InAccord
<1> QED
  BY <1>7, <1>8, <1>9, <1>10, <1>11, <1>12 DEF WritesIInv

LEMMA ValidateKeeps ==
    ASSUME WritesIInv, NEW c \in Calls, Validate(c)
    PROVE  WritesIInv'
<1>0. /\ CallsTyped /\ InTurn /\ OneOnTheBus /\ Settled /\ Powered(inverter)
      /\ \A d \in Calls : CommandOf(d) /\ EditOf(d)
  BY DEF WritesIInv
<1>1. /\ call[c].pc = "queued" /\ Head(lock) = c /\ Validates(call[c].kind) /\ bus = NoCall
      /\ UNCHANGED <<group, inverter, lock, bus, cutOff, raced, winner, refused>>
  BY DEF Validate, HoldsLock
<1>2. GoesOn(c, "writing", call[c].todo)
  <2>1. [call[c] EXCEPT !.pc = "writing"] =
            [pc |-> "writing", kind |-> call[c].kind, arg |-> call[c].arg,
             todo |-> call[c].todo, rank |-> call[c].rank]
    BY <1>0, TypesOf, RecordUpdates
  <2>2. call' = [call EXCEPT ![c] = [call[c] EXCEPT !.pc = "writing"]]
    BY DEF Validate
  <2> QED
    BY <2>1, <2>2 DEF GoesOn
<1>3. /\ call'[c].pc = "writing" /\ call'[c].kind = call[c].kind /\ call'[c].arg = call[c].arg
      /\ call'[c].todo = call[c].todo /\ call'[c].rank = call[c].rank
      /\ \A d \in Calls : d # c => call'[d] = call[d]
  BY <1>0, <1>2, GoingOn
<1>4. CallsTyped'
  <2>1. inverter' = [x \in DOMAIN inverter |-> inverter'[x]]
    BY <1>0, <1>1 DEF CallsTyped
  <2>2. "writing" \in Pcs /\ call[c].pc # "idle"
    BY <1>1 DEF Pcs
  <2>3. /\ bus' \in Calls \cup {NoCall} /\ cutOff' \in BOOLEAN /\ raced' \in BOOLEAN
        /\ winner' \in [rank : 0 .. MAX_RANK, kind : Commands[group] \cup {"none"}]
    BY <1>0, <1>1 DEF CallsTyped
  <2> QED
    BY <1>0, <1>1, <1>2, <2>1, <2>2, <2>3, GoingOnTyped
<1>5. InTurn'
  <2>1. ASSUME NEW d \in Calls
        PROVE  /\ call'[d].rank = call[d].rank
               /\ call'[d].pc = "idle" <=> call[d].pc = "idle"
               /\ call'[d].pc \notin {"idle", "queued"} => Head(lock) = d
               /\ call'[d].pc # "idle" => winner'.rank <= call[d].rank
    BY <1>0, <1>1, <1>3 DEF InTurn
  <2> QED
    BY <1>0, <1>1, <2>1, StayKeepsTurn
<1>6. OneOnTheBus'
  BY <1>0, <1>1, <1>3 DEF OneOnTheBus
<1>7. ASSUME NEW d \in Calls
      PROVE  CommandOf(d)' /\ EditOf(d)'
  <2>1. CASE d = c
    <3>1. call[c].todo = Writes(call[c].kind, call[c].arg)
      BY <1>0, <1>1 DEF CommandOf
    <3>2. group # "schedule" => call[c].arg = << >>
      BY <1>0, <1>1, TypesOf
    <3>3. call[c].kind # "edit_slot" /\ bus # c
      BY <1>1, WritesAssumption DEF Validates
    <3> QED
      BY <1>1, <1>3, <2>1, <3>1, <3>2, <3>3 DEF CommandOf, EditOf
  <2>2. CASE d # c
    BY <1>0, <1>1, <1>3, <2>2, BystandersKeep
  <2> QED
    BY <2>1, <2>2
<1>8. Settled'
  BY <1>0, <1>1 DEF Settled, Applied
<1>9. Powered(inverter)'
  BY <1>0, <1>1 DEF Powered, InAccord
<1> QED
  BY <1>4, <1>5, <1>6, <1>7, <1>8, <1>9 DEF WritesIInv

LEMMA TakeBusKeeps ==
    ASSUME WritesIInv, NEW c \in Calls, TakeBus(c)
    PROVE  WritesIInv'
<1>0. /\ CallsTyped /\ InTurn /\ OneOnTheBus /\ Settled /\ Powered(inverter)
      /\ \A d \in Calls : CommandOf(d) /\ EditOf(d)
  BY DEF WritesIInv
<1> DEFINE p == IF call[c].pc = "writing" THEN "writing"
                ELSE IF call[c].kind = "edit_slot" THEN "reading" ELSE "writing"
<1>1. /\ \/ call[c].pc = "queued" /\ Head(lock) = c
         \/ call[c].pc = "writing"
      /\ bus = NoCall /\ bus' = c /\ raced' = FALSE
      /\ UNCHANGED <<group, inverter, lock, cutOff, winner, refused>>
  BY DEF TakeBus, HoldsLock
<1>2. GoesOn(c, p, call[c].todo)
  <2>1. [call[c] EXCEPT !.pc = p] =
            [pc |-> p, kind |-> call[c].kind, arg |-> call[c].arg,
             todo |-> call[c].todo, rank |-> call[c].rank]
    BY <1>0, TypesOf, RecordUpdates
  <2>2. call' = [call EXCEPT ![c] = [call[c] EXCEPT !.pc = p]]
    <3>1. call' = [call EXCEPT ![c] = [call[c] EXCEPT !.pc =
              IF call[c].pc = "writing" THEN call[c].pc
              ELSE IF call[c].kind = "edit_slot" THEN "reading" ELSE "writing"]]
      BY DEF TakeBus
    <3>2. p = IF call[c].pc = "writing" THEN call[c].pc
              ELSE IF call[c].kind = "edit_slot" THEN "reading" ELSE "writing"
      OBVIOUS
    <3> QED
      BY <3>1, <3>2
  <2> QED
    BY <2>1, <2>2 DEF GoesOn
<1>3. /\ p \in {"reading", "writing"} /\ p \in Pcs
      /\ p = "reading" => call[c].kind = "edit_slot"
  BY DEF Pcs
<1>4. p = "writing" => call[c].kind # "edit_slot"
  BY <1>0, <1>1, WritesAssumption DEF EditOf
<1> HIDE DEF p
<1>5. /\ call'[c].pc = p /\ call'[c].kind = call[c].kind /\ call'[c].arg = call[c].arg
      /\ call'[c].todo = call[c].todo /\ call'[c].rank = call[c].rank
      /\ \A d \in Calls : d # c => call'[d] = call[d]
  BY <1>0, <1>2, GoingOn
<1>6. Head(lock) = c /\ call[c].pc # "idle"
  BY <1>0, <1>1 DEF InTurn
<1>7. CallsTyped'
  <2>1. inverter' = [x \in DOMAIN inverter |-> inverter'[x]]
    BY <1>0, <1>1 DEF CallsTyped
  <2>2. /\ bus' \in Calls \cup {NoCall} /\ cutOff' \in BOOLEAN /\ raced' \in BOOLEAN
        /\ winner' \in [rank : 0 .. MAX_RANK, kind : Commands[group] \cup {"none"}]
    BY <1>0, <1>1 DEF CallsTyped
  <2> QED
    BY <1>0, <1>1, <1>2, <1>3, <1>6, <2>1, <2>2, GoingOnTyped
<1>8. InTurn'
  <2>1. ASSUME NEW d \in Calls
        PROVE  /\ call'[d].rank = call[d].rank
               /\ call'[d].pc = "idle" <=> call[d].pc = "idle"
               /\ call'[d].pc \notin {"idle", "queued"} => Head(lock) = d
               /\ call'[d].pc # "idle" => winner'.rank <= call[d].rank
    BY <1>0, <1>1, <1>3, <1>5, <1>6 DEF InTurn
  <2> QED
    BY <1>0, <1>1, <2>1, StayKeepsTurn
<1>9. \A d \in Calls : d # c => call[d].pc \in {"idle", "queued"}
  BY <1>0, <1>6, OthersWait
<1>10. OneOnTheBus'
  BY <1>1, <1>3, <1>5, <1>9 DEF OneOnTheBus
<1>11. ASSUME NEW d \in Calls
       PROVE  CommandOf(d)' /\ EditOf(d)'
  <2>1. CASE d = c
    <3>1. EditOf(c)'
      BY <1>3, <1>4, <1>5 DEF EditOf
    <3>2. ASSUME group # "schedule" PROVE Progress(c)'
      <4>1. call[c].todo = Writes(call[c].kind, << >>)
        BY <1>0, <1>1, <3>2, WritesAssumption, TypesOf DEF CommandOf
      <4>2. Distinct(call[c].todo) /\ InOrder(call[c].todo)
        BY <1>0, <1>6, <3>2, <4>1, TypesOf, WrittenRegisters, CommandsAreInOrder DEF CallsTyped
      <4> QED
        BY <1>5, <4>1, <4>2 DEF Progress, Distinct
    <3>3. CommandOf(c)'
      BY <1>1, <1>3, <1>5, <3>2 DEF CommandOf
    <3> QED
      BY <2>1, <3>1, <3>3
  <2>2. CASE d # c
    BY <1>0, <1>1, <1>5, <1>9, <2>2, BystandersKeep
  <2> QED
    BY <2>1, <2>2
<1>12. Settled'
  BY <1>0, <1>1, WritesAssumption DEF Settled
<1>13. Powered(inverter)'
  BY <1>0, <1>1 DEF Powered, InAccord
<1> QED
  BY <1>7, <1>8, <1>10, <1>11, <1>12, <1>13 DEF WritesIInv

LEMMA ReadScheduleKeeps ==
    ASSUME WritesIInv, NEW c \in Calls, ReadSchedule(c)
    PROVE  WritesIInv'
<1>0. /\ CallsTyped /\ InTurn /\ OneOnTheBus /\ Settled /\ Powered(inverter)
      /\ \A d \in Calls : CommandOf(d) /\ EditOf(d)
  BY DEF WritesIInv
<1>1. /\ call[c].pc = "reading" /\ bus = c
      /\ UNCHANGED <<group, inverter, cutOff, raced, winner, refused>>
  BY DEF ReadSchedule
<1>2. call[c].kind = "edit_slot" /\ group = "schedule"
  <2>1. call[c].kind = "edit_slot" /\ call[c].kind \in Commands[group] /\ group \in Groups
    BY <1>0, <1>1, TypesOf DEF OneOnTheBus, CallsTyped
  <2> QED
    BY <2>1 DEF Groups, Commands
<1>5. Powered(inverter)'
  BY <1>1, <1>2 DEF Powered
<1>3. CASE Leave(c)
  <2>1. inverter' = [x \in DOMAIN inverter |-> inverter'[x]] /\ cutOff' \in BOOLEAN
    BY <1>0, <1>1 DEF CallsTyped
  <2>2. /\ CallsTyped' /\ InTurn' /\ OneOnTheBus'
        /\ \A d \in Calls : CommandOf(d)' /\ EditOf(d)'
    BY <1>0, <1>1, <1>3, <2>1, LeaveKeeps
  <2>3. Settled'
    BY <1>0, <1>1, <1>2 DEF Settled
  <2> QED
    BY <1>5, <2>2, <2>3 DEF WritesIInv
<1>4. CASE ~Leave(c)
  <2> DEFINE s == ApplySlotEdit(inverter.periods, call[c].arg[1], call[c].arg[2])
             t == << <<"periods", s>> >>
  <2>1. /\ call' = [call EXCEPT ![c].pc = "writing", ![c].todo = t]
        /\ UNCHANGED <<lock, bus>>
    BY <1>4 DEF ReadSchedule, FreshlyRead
  <2> HIDE DEF t
  <2>2. GoesOn(c, "writing", t)
    <3>0. call[c] = [pc |-> call[c].pc, kind |-> call[c].kind, arg |-> call[c].arg,
                     todo |-> call[c].todo, rank |-> call[c].rank]
      BY <1>0, TypesOf
    <3>1. [[call[c] EXCEPT !.pc = "writing"] EXCEPT !.todo = t] =
              [pc |-> "writing", kind |-> call[c].kind, arg |-> call[c].arg,
               todo |-> t, rank |-> call[c].rank]
      BY <3>0, RecordUpdates, Zenon
    <3>2. call' = [call EXCEPT ![c] = [[call[c] EXCEPT !.pc = "writing"] EXCEPT !.todo = t]]
      BY <1>0, <2>1 DEF CallsTyped
    <3> QED
      BY <3>1, <3>2 DEF GoesOn
  <2>3. /\ call'[c].pc = "writing" /\ call'[c].kind = call[c].kind /\ call'[c].arg = call[c].arg
        /\ call'[c].todo = t /\ call'[c].rank = call[c].rank
        /\ \A d \in Calls : d # c => call'[d] = call[d]
    BY <1>0, <2>2, GoingOn
  <2>4. Head(lock) = c
    BY <1>0, <1>1 DEF InTurn
  <2>5. CallsTyped'
    <3>1. inverter' = [x \in DOMAIN inverter |-> inverter'[x]]
      BY <1>0, <1>1 DEF CallsTyped
    <3>2. "writing" \in Pcs /\ call[c].pc # "idle"
      BY <1>1 DEF Pcs
    <3>3. /\ bus' \in Calls \cup {NoCall} /\ cutOff' \in BOOLEAN /\ raced' \in BOOLEAN
          /\ winner' \in [rank : 0 .. MAX_RANK, kind : Commands[group] \cup {"none"}]
      BY <1>0, <1>1, <2>1 DEF CallsTyped
    <3> QED
      BY <1>0, <1>1, <2>2, <3>1, <3>2, <3>3, GoingOnTyped
  <2>6. InTurn'
    <3>1. ASSUME NEW d \in Calls
          PROVE  /\ call'[d].rank = call[d].rank
                 /\ call'[d].pc = "idle" <=> call[d].pc = "idle"
                 /\ call'[d].pc \notin {"idle", "queued"} => Head(lock) = d
                 /\ call'[d].pc # "idle" => winner'.rank <= call[d].rank
      BY <1>0, <1>1, <2>3, <2>4 DEF InTurn
    <3> QED
      BY <1>0, <2>1, <3>1, StayKeepsTurn
  <2>7. \A d \in Calls : d # c => call[d].pc \in {"idle", "queued"}
    BY <1>0, <2>4, OthersWait
  <2>8. OneOnTheBus'
    BY <1>1, <2>1, <2>3, <2>7 DEF OneOnTheBus
  <2>9. ASSUME NEW d \in Calls
        PROVE  CommandOf(d)' /\ EditOf(d)'
    <3>1. CASE d = c
      <4>1. CommandOf(c)'
        BY <1>1, <1>2, <2>3 DEF CommandOf
      <4>2. EditOf(c)'
        BY <1>1, <2>1, <2>3 DEF EditOf, t
      <4> QED
        BY <3>1, <4>1, <4>2
    <3>2. CASE d # c
      BY <1>0, <1>1, <2>3, <2>7, <3>2, BystandersKeep
    <3> QED
      BY <3>1, <3>2
  <2>10. Settled'
    BY <1>0, <1>1, <1>2 DEF Settled
  <2> QED
    BY <1>5, <2>5, <2>6, <2>8, <2>9, <2>10 DEF WritesIInv
<1> QED
  BY <1>3, <1>4

\* The calls and the bus after a write; what is written is not looked at.
LEMMA WriteDoes ==
    ASSUME CallsTyped, InTurn, NEW c \in Calls, Write(c)
    PROVE  LET last == Len(call[c].todo) = 1 IN
           /\ call[c].pc = "writing" /\ bus = c /\ Head(lock) = c
           /\ \E taken \in BOOLEAN : Take(Head(call[c].todo), taken)
           /\ bus' = IF last THEN NoCall ELSE c
           /\ GoesOn(c, IF last THEN "refreshing" ELSE "writing", Tail(call[c].todo))
           /\ cutOff' = IF last THEN FALSE ELSE cutOff
           /\ winner' = IF last /\ group # "schedule"
                        THEN [rank |-> call[c].rank, kind |-> call[c].kind] ELSE winner
           /\ UNCHANGED <<group, lock, raced>>
<1> DEFINE last == Len(call[c].todo) = 1
           p == IF last THEN "refreshing" ELSE "writing"
           t == Tail(call[c].todo)
<1>1. /\ call[c].pc = "writing" /\ bus = c
      /\ \E taken \in BOOLEAN : Take(Head(call[c].todo), taken)
      /\ bus' = IF last THEN NoCall ELSE c
      /\ UNCHANGED <<group, lock, raced>>
      /\ cutOff' = IF last THEN FALSE ELSE cutOff
  BY DEF Write, FreeAtTheEnd
<1>2. GoesOn(c, p, t)
  <2>0. call[c] = [pc |-> call[c].pc, kind |-> call[c].kind, arg |-> call[c].arg,
                   todo |-> call[c].todo, rank |-> call[c].rank]
    BY TypesOf
  <2>1. [[call[c] EXCEPT !.todo = t] EXCEPT !.pc = p] =
            [pc |-> p, kind |-> call[c].kind, arg |-> call[c].arg,
             todo |-> t, rank |-> call[c].rank]
    <3> HIDE DEF p, t
    <3> QED
      BY <2>0, RecordUpdates, Zenon
  <2>2. call' = [call EXCEPT ![c].todo = Tail(@),
                             ![c].pc = IF last THEN "refreshing" ELSE @]
    BY DEF Write
  <2>3. call' = [call EXCEPT ![c] = [[call[c] EXCEPT !.todo = t] EXCEPT !.pc =
                     IF last THEN "refreshing" ELSE [call[c] EXCEPT !.todo = t].pc]]
    <3> HIDE DEF last
    <3> QED
      BY <2>2, ZenonT(40) DEF CallsTyped
  <2>4. [call[c] EXCEPT !.todo = t].pc = "writing"
    BY <1>1, TypesOf
  <2>5. p = IF last THEN "refreshing" ELSE [call[c] EXCEPT !.todo = t].pc
    BY <2>4
  <2> HIDE DEF p, last, t
  <2> QED
    BY <2>1, <2>3, <2>5 DEF GoesOn
<1>3. Head(lock) = c
  BY <1>1 DEF InTurn
<1>4. winner' = IF last /\ group # "schedule"
                THEN [rank |-> call[c].rank, kind |-> call[c].kind] ELSE winner
  <2>1. ~(call[c].rank < winner.rank)
    <3>1. winner.rank <= call[c].rank
      BY <1>1 DEF InTurn
    <3>2. winner.rank \in Nat /\ call[c].rank \in Nat
      BY TypesOf, WritesAssumption DEF CallsTyped
    <3> QED
      BY <3>1, <3>2
  <2>2. IF last THEN winner' = IF call[c].rank < winner.rank \/ group = "schedule" THEN winner
                               ELSE [rank |-> call[c].rank, kind |-> call[c].kind]
        ELSE winner' = winner
    BY DEF Write
  <2> QED
    BY <2>1, <2>2
<1> QED
  BY <1>1, <1>2, <1>3, <1>4

LEMMA WriteKeeps ==
    ASSUME WritesIInv, NEW c \in Calls, Write(c)
    PROVE  WritesIInv'
<1>0. /\ CallsTyped /\ InTurn /\ OneOnTheBus /\ Settled /\ Powered(inverter)
      /\ \A d \in Calls : CommandOf(d) /\ EditOf(d)
  BY DEF WritesIInv
<1> DEFINE last == Len(call[c].todo) = 1
           p == IF last THEN "refreshing" ELSE "writing"
           t == Tail(call[c].todo)
           w == Head(call[c].todo)
<1>1. /\ call[c].pc = "writing" /\ bus = c /\ Head(lock) = c
      /\ \E taken \in BOOLEAN : Take(w, taken)
      /\ bus' = IF last THEN NoCall ELSE c
      /\ GoesOn(c, p, t)
      /\ cutOff' = IF last THEN FALSE ELSE cutOff
      /\ winner' = IF last /\ group # "schedule"
                   THEN [rank |-> call[c].rank, kind |-> call[c].kind] ELSE winner
      /\ UNCHANGED <<group, lock, raced>>
  BY <1>0, WriteDoes
<1>2. p \in Pcs /\ p \in {"refreshing", "writing"} /\ (p = "refreshing" <=> last)
  BY DEF Pcs
<1> HIDE DEF p, t
<1>3. /\ call'[c].pc = p /\ call'[c].kind = call[c].kind /\ call'[c].arg = call[c].arg
      /\ call'[c].todo = t /\ call'[c].rank = call[c].rank
      /\ \A d \in Calls : d # c => call'[d] = call[d]
  BY <1>0, <1>1, GoingOn
<1>4. /\ call[c].kind \in Commands[group] /\ call[c].rank \in 0 .. MAX_RANK
      /\ group \in Groups
  BY <1>0, <1>1, TypesOf DEF CallsTyped
<1>12. /\ inverter' = [x \in DOMAIN inverter |-> inverter'[x]]
       /\ w[1] \in refused' \/ inverter'[w[1]] = w[2]
       /\ \A x \in DOMAIN Resting(group) : x # w[1] =>
             inverter'[x] = inverter[x] /\ (x \in refused' <=> x \in refused)
  <2> HIDE DEF w
  <2> QED
    BY <1>0, <1>1, TakeDoes
<1> DEFINE all == ToSet(Writes(call[c].kind, << >>))
<1>5. ASSUME group # "schedule"
      PROVE  /\ t \in Seq(all) /\ (last => ToSet(t) = {}) /\ (~last => t # << >>)
             /\ InOrder(t) /\ Powered(inverter)'
             /\ \A v \in all : v \in ToSet(t) \/ v[1] \in refused' \/ inverter'[v[1]] = v[2]
  <2>1. /\ call[c].todo \in Seq(all) /\ call[c].todo # << >> /\ InOrder(call[c].todo)
        /\ \A v \in all : v \in ToSet(call[c].todo) \/ v[1] \in refused \/ inverter[v[1]] = v[2]
    BY <1>0, <1>1, <1>5 DEF CommandOf, Progress
  <2>2. /\ w \in all /\ t \in Seq(all)
        /\ \A x : x \in ToSet(call[c].todo) => x = w \/ x \in ToSet(t)
        /\ last => ToSet(t) = {}
        /\ ~last => t # << >>
        /\ InOrder(t)
    <3> HIDE DEF all
    <3> QED
      BY <2>1, HeadAndTail, HeadInOrder DEF t
  <2>3. /\ \A v, x \in all : v[1] = x[1] => v = x
        /\ \A v \in all : v[1] \in DOMAIN Resting(group)
    BY <1>4, <1>5, WrittenRegisters DEF Distinct
  <2>4. \A v \in all : v # w => inverter'[v[1]] = inverter[v[1]] /\ (v[1] \in refused' <=> v[1] \in refused)
    BY <1>12, <2>2, <2>3
  <2>5. Powered(inverter)'
    BY <1>0, <1>1, <1>4, <1>5, <1>12, <2>1, TakeKeepsPower
  <2> HIDE DEF all, w, last
  <2> QED
    BY <1>12, <2>1, <2>2, <2>4, <2>5
<1>6. CallsTyped'
  <2>1. inverter' = [x \in DOMAIN inverter |-> inverter'[x]]
    BY <1>12
  <2>2. /\ bus' \in Calls \cup {NoCall} /\ cutOff' \in BOOLEAN /\ raced' \in BOOLEAN
        /\ winner' \in [rank : 0 .. MAX_RANK, kind : Commands[group] \cup {"none"}]
    BY <1>0, <1>1, <1>4 DEF CallsTyped
  <2> QED
    BY <1>0, <1>1, <1>2, <2>1, <2>2, GoingOnTyped
<1>7. InTurn'
  <2>1. ASSUME NEW d \in Calls, call[d].pc # "idle"
        PROVE  winner'.rank <= call[d].rank
    <3>1. winner.rank <= call[d].rank
      BY <1>0, <2>1 DEF InTurn
    <3>2. call[c].rank <= call[d].rank
      BY <1>0, <1>1, <2>1, HeadIsFirst
    <3> QED
      BY <1>1, <3>1, <3>2
  <2>2. ASSUME NEW d \in Calls
        PROVE  /\ call'[d].rank = call[d].rank
               /\ call'[d].pc = "idle" <=> call[d].pc = "idle"
               /\ call'[d].pc \notin {"idle", "queued"} => Head(lock) = d
    BY <1>0, <1>1, <1>2, <1>3 DEF InTurn
  <2> QED
    BY <1>0, <1>1, <2>1, <2>2, StayKeepsTurn
<1>8. \A d \in Calls : d # c => call[d].pc \in {"idle", "queued"}
  BY <1>0, <1>1, OthersWait
<1>9. OneOnTheBus'
  BY <1>1, <1>2, <1>3, <1>8 DEF OneOnTheBus
<1>10. ASSUME NEW d \in Calls
       PROVE  CommandOf(d)' /\ EditOf(d)'
  <2>1. CASE d = c
    <3>1. CommandOf(c)'
      <4>1. ASSUME group # "schedule", ~last PROVE Progress(c)'
        BY <1>3, <1>5, <4>1 DEF Progress
      <4> HIDE DEF last
      <4> QED
        BY <1>1, <1>2, <1>3, <4>1 DEF CommandOf
    <3>2. EditOf(c)'
      <4>1. ASSUME call[c].kind = "edit_slot" PROVE last
        <5>1. PICK s : call[c].todo = << <<"periods", s>> >>
          BY <1>0, <1>1, <4>1 DEF EditOf
        <5> QED
          BY <5>1
      <4> HIDE DEF last
      <4> QED
        BY <1>2, <1>3, <4>1 DEF EditOf
    <3> QED
      BY <2>1, <3>1, <3>2
  <2>2. CASE d # c
    BY <1>0, <1>1, <1>3, <1>8, <2>2, BystandersKeep
  <2> QED
    BY <2>1, <2>2
<1>11. Settled'
  <2>1. group = "schedule" => winner'.kind = "none"
    BY <1>0, <1>1 DEF Settled
  <2>2. ASSUME group # "schedule", bus' = NoCall
        PROVE  (winner.kind # "none" /\ Applied(winner.kind))'
    <3>0. PICK k : k = call[c].kind
      OBVIOUS
    <3>1. last /\ winner'.kind = k
      BY <1>1, <2>2, <3>0, WritesAssumption
    <3>2. \A v \in ToSet(Writes(k, << >>)) : v[1] \in refused' \/ inverter'[v[1]] = v[2]
      BY <1>5, <2>2, <3>0, <3>1
    <3>4. k # "none"
      BY <1>4, <2>2, <3>0, WrittenRegisters
    <3> QED
      BY <3>1, <3>2, <3>4 DEF Applied
  <2> QED
    BY <1>1, <2>1, <2>2 DEF Settled
<1>13. Powered(inverter)'
  BY <1>1, <1>4, <1>5 DEF Powered
<1> QED
  BY <1>6, <1>7, <1>9, <1>10, <1>11, <1>13 DEF WritesIInv

\* A call that ends without a write, or in the middle of one.
LEMMA EndKeeps ==
    ASSUME WritesIInv, NEW c \in Calls, Refreshed(c) \/ GiveUp(c) \/ BreakOff(c)
    PROVE  WritesIInv'
<1>0. /\ CallsTyped /\ InTurn /\ OneOnTheBus /\ Settled /\ Powered(inverter)
      /\ \A d \in Calls : CommandOf(d) /\ EditOf(d)
  BY DEF WritesIInv
<1>1. Leave(c) /\ UNCHANGED <<group, winner, raced>>
  BY DEF Refreshed, GiveUp, BreakOff
<1>2. CASE BreakOff(c)
  <2> DEFINE w == Head(call[c].todo)
  <2>1. /\ bus = c /\ cutOff' = (group # "schedule")
        /\ call[c].pc = "writing" /\ (Take(w, TRUE) \/ UNCHANGED <<inverter, refused>>)
    BY <1>2 DEF BreakOff
  <2> HIDE DEF w
  <2>2. inverter' = [x \in DOMAIN inverter |-> inverter'[x]] /\ cutOff' \in BOOLEAN
    BY <1>0, <2>1, TakeDoes DEF CallsTyped
  <2>3. /\ CallsTyped' /\ InTurn' /\ OneOnTheBus'
        /\ \A d \in Calls : CommandOf(d)' /\ EditOf(d)'
    BY <1>0, <1>1, <2>1, <2>2, LeaveKeeps
  <2>4. Settled'
    BY <1>0, <1>1, <2>1 DEF Settled
  <2>5. Powered(inverter)'
    <3>1. CASE UNCHANGED <<inverter, refused>>
      BY <1>0, <1>1, <3>1 DEF Powered, InAccord
    <3>2. CASE group = "schedule"
      BY <1>1, <3>2 DEF Powered
    <3>3. CASE group # "schedule" /\ Take(w, TRUE)
      <4>1. /\ w[1] \in refused' \/ inverter'[w[1]] = w[2]
            /\ \A x \in DOMAIN Resting(group) : x # w[1] =>
                  inverter'[x] = inverter[x] /\ (x \in refused' <=> x \in refused)
        BY <1>0, <3>3, TakeDoes
      <4>2. Progress(c) /\ call[c].kind \in Commands[group] /\ group \in Groups
        BY <1>0, <2>1, <3>3, TypesOf DEF CommandOf, CallsTyped
      <4> QED
        BY <1>0, <1>1, <3>3, <4>1, <4>2, TakeKeepsPower DEF Progress, w
    <3> QED
      BY <2>1, <3>1, <3>2, <3>3
  <2> QED
    BY <2>3, <2>4, <2>5 DEF WritesIInv
<1>3. CASE Refreshed(c) \/ GiveUp(c)
  <2>1. UNCHANGED <<inverter, cutOff, refused>>
    BY <1>3 DEF Refreshed, GiveUp
  <2>2. inverter' = [x \in DOMAIN inverter |-> inverter'[x]] /\ cutOff' \in BOOLEAN
    BY <1>0, <2>1 DEF CallsTyped
  <2>3. /\ CallsTyped' /\ InTurn' /\ OneOnTheBus'
        /\ \A d \in Calls : CommandOf(d)' /\ EditOf(d)'
    BY <1>0, <1>1, <2>1, <2>2, LeaveKeeps
  <2>4. bus' = bus \/ group = "schedule"
    <3>1. CASE call[c].pc = "reading"
      <4>1. call[c].kind = "edit_slot" /\ call[c].kind \in Commands[group] /\ group \in Groups
        BY <1>0, <3>1, TypesOf DEF OneOnTheBus, CallsTyped
      <4> QED
        BY <4>1 DEF Groups, Commands
    <3>2. CASE call[c].pc # "reading"
      <4>1. bus # c
        BY <1>0, <1>3, <3>2, WritesAssumption DEF Refreshed, GiveUp, OneOnTheBus
      <4> QED
        BY <1>1, <4>1 DEF Leave
    <3> QED
      BY <3>1, <3>2
  <2>5. Settled'
    BY <1>0, <1>1, <2>1, <2>4 DEF Settled, Applied
  <2>6. Powered(inverter)'
    BY <1>0, <1>1, <2>1 DEF Powered, InAccord
  <2> QED
    BY <2>3, <2>5, <2>6 DEF WritesIInv
<1> QED
  BY <1>2, <1>3

LEMMA AppKeeps ==
    ASSUME WritesIInv, AppEdits
    PROVE  WritesIInv'
<1>0. /\ CallsTyped /\ InTurn /\ OneOnTheBus /\ Settled /\ Powered(inverter)
      /\ \A d \in Calls : CommandOf(d) /\ EditOf(d)
  BY DEF WritesIInv
<1>1. /\ group = "schedule" /\ raced' = (bus # NoCall)
      /\ UNCHANGED <<group, lock, bus, call, cutOff, winner, refused>>
      /\ \E s \in Schedules : inverter' = [inverter EXCEPT !.periods = s]
  BY DEF AppEdits
<1>2. CallsTyped'
  <2>1. raced' \in BOOLEAN
    BY <1>1
  <2>2. inverter' = [x \in DOMAIN Resting(group) |-> inverter'[x]]
    <3> DEFINE D == DOMAIN Resting(group)
    <3> HIDE DEF D
    <3>1. inverter = [x \in D |-> inverter[x]]
      BY <1>0 DEF CallsTyped, D
    <3>2. inverter' = [x \in D |-> inverter'[x]]
      BY <1>1, <3>1
    <3> QED
      BY <3>2 DEF D
  <2> QED
    BY <1>0, <1>1, <2>1, <2>2 DEF CallsTyped
<1>3. InTurn' /\ OneOnTheBus'
  BY <1>0, <1>1 DEF InTurn, OneOnTheBus, Contains
<1>4. ASSUME NEW d \in Calls
      PROVE  CommandOf(d)' /\ EditOf(d)'
  <2>1. CommandOf(d)
    BY <1>0
  <2>2. CommandOf(d)'
    BY <1>1, <2>1 DEF CommandOf
  <2>3. EditOf(d)'
    <3> SUFFICES ASSUME call[d].kind = "edit_slot", call[d].pc = "writing"
                 PROVE  bus = d /\ raced' /\ \E s : call[d].todo = << <<"periods", s>> >>
      BY <1>1 DEF EditOf
    <3>1. bus = d /\ \E s : call[d].todo = << <<"periods", s>> >>
      BY <1>0 DEF EditOf
    <3> QED
      BY <1>1, <3>1, WritesAssumption
  <2> QED
    BY <2>2, <2>3
<1>5. Settled'
  BY <1>0, <1>1 DEF Settled
<1>6. Powered(inverter)'
  BY <1>1 DEF Powered
<1> QED
  BY <1>2, <1>3, <1>4, <1>5, <1>6 DEF WritesIInv

LEMMA SameStateKeeps ==
    ASSUME WritesIInv,
           UNCHANGED <<group, inverter, lock, bus, call, cutOff, raced, winner, refused>>
    PROVE  WritesIInv'
<1>1. CallsTyped' /\ InTurn' /\ OneOnTheBus' /\ Settled'
  BY DEF WritesIInv, CallsTyped, InTurn, OneOnTheBus, Settled, Contains, Applied
<1>3. Powered(inverter)'
  BY DEF WritesIInv, Powered, InAccord
<1>2. \A d \in Calls : CommandOf(d)' /\ EditOf(d)'
  BY BystandersKeep DEF WritesIInv
<1> QED
  BY <1>1, <1>2, <1>3 DEF WritesIInv

\* Commands in turn, one on the bus, and between them what the latest left,
\* with any registers refused; no mode is ever without its power, refused
\* registers aside, wherever a command breaks off.
THEOREM WritesInvariant == WritesSpec => []WritesIInv
<1>1. WritesInit => WritesIInv
  <2> SUFFICES ASSUME WritesInit PROVE WritesIInv
    OBVIOUS
  <2>1. /\ group \in Groups /\ inverter = Resting(group) /\ lock = << >> /\ bus = NoCall
        /\ call = [c \in Calls |-> Idle] /\ cutOff = FALSE /\ raced = FALSE
        /\ winner = [rank |-> 0, kind |-> "none"]
    BY DEF WritesInit
  <2>2. 0 \in 0 .. MAX_RANK
    BY WritesAssumption
  <2>3. \A c \in Calls : call[c] = Idle
    BY <2>1
  <2>4. inverter = [x \in DOMAIN Resting(group) |-> inverter[x]]
    BY <2>1 DEF Groups, Resting
  <2>5. CallsTyped
    BY <2>1, <2>2, <2>3, <2>4 DEF CallsTyped, Idle, Pcs
  <2>6. InTurn
    BY <2>1, <2>3 DEF InTurn, Idle, Contains
  <2>7. OneOnTheBus /\ Settled /\ \A c \in Calls : CommandOf(c) /\ EditOf(c)
    BY <2>1, <2>3 DEF OneOnTheBus, Settled, CommandOf, EditOf, Idle
  <2>8. Powered(inverter)
    BY <2>1 DEF Groups, Resting, Powered, InAccord
  <2> QED
    BY <2>5, <2>6, <2>7, <2>8 DEF WritesIInv
<1>2. WritesIInv /\ [WritesNext]_writesVars => WritesIInv'
  <2> SUFFICES ASSUME WritesIInv, [WritesNext]_writesVars PROVE WritesIInv'
    OBVIOUS
  <2>1. ASSUME NEW c \in Calls, NEW kind \in Commands[group], NEW arg \in Args(kind),
               Call(c, kind, arg)
        PROVE  WritesIInv'
    BY <2>1, CallKeeps
  <2>2. ASSUME NEW c \in Calls, Step(c)
        PROVE  WritesIInv'
    BY <2>2, ValidateKeeps, TakeBusKeeps, ReadScheduleKeeps, WriteKeeps, EndKeeps DEF Step
  <2>3. CASE Poll
    BY <2>3, SameStateKeeps DEF Poll
  <2>4. CASE AppEdits
    BY <2>4, AppKeeps
  <2>5. CASE EntriesChange
    BY <2>5, SameStateKeeps DEF EntriesChange, commandVars
  <2>6. CASE UNCHANGED writesVars
    BY <2>6, SameStateKeeps DEF writesVars, commandVars
  <2> QED
    BY <2>1, <2>2, <2>3, <2>4, <2>5, <2>6 DEF WritesNext
<1> QED
  BY <1>1, <1>2, PTL DEF WritesSpec

\* ICS-12, Defect R: of commands that overlap, the one called last decides, for
\* any number of tasks: no charge undoes a stop that was called after it.
\* Each register of the last one that the device took is as it wrote it.
THEOREM TheLastCallDecides == WritesSpec => []LastCallWins
<1>1. WritesIInv => LastCallWins
  <2> SUFFICES ASSUME WritesIInv, UnderWay = {}, ~cutOff PROVE Applied(winner.kind)
    BY DEF LastCallWins
  <2>1. bus = NoCall
    BY DEF WritesIInv, CallsTyped, OneOnTheBus, UnderWay
  <2>2. CASE winner.kind = "none"
    <3>1. Writes("none", << >>) = << >>
      BY DEF Writes
    <3> QED
      BY <2>2, <3>1 DEF Applied, ToSet
  <2>3. CASE winner.kind # "none"
    BY <2>1, <2>3 DEF WritesIInv, Settled
  <2> QED
    BY <2>2, <2>3
<1> QED
  BY <1>1, WritesInvariant, PTL

\* MOD-19: a poll finds the registers of one whole command, refused ones aside,
\* unless the last command was broken off; and what is switched on has its
\* power even then.
THEOREM NoCommandIsSeenHalfWritten == WritesSpec => []PolledWhole
<1>1. WritesIInv => PolledWhole
  <2> SUFFICES ASSUME WritesIInv, bus = NoCall, ~cutOff PROVE MakesSense(inverter)
    BY DEF PolledWhole, WritesIInv
  <2>1. CASE group = "schedule"
    BY <2>1 DEF MakesSense, Powered
  <2>2. CASE group # "schedule"
    <3>1. /\ group \in Groups /\ winner.kind \in Commands[group] \cup {"none"}
          /\ Powered(inverter)
          /\ IF winner.kind = "none" THEN inverter = Resting(group) ELSE Applied(winner.kind)
      BY <2>2 DEF WritesIInv, CallsTyped, Settled
    <3> QED
      BY <2>2, <3>1, AppliedMakesSense
  <2> QED
    BY <2>1, <2>2
<1> QED
  BY <1>1, WritesInvariant, PTL

\* text.py: an edit of a slot writes the schedule of the device with that slot
\* changed and nothing else.
THEOREM EditsAreOfTheDevice == WritesSpec => NoEditLost
<1> DEFINE Kept(c) ==
        /\ call[c].kind = "edit_slot" /\ call[c].pc = "writing"
        /\ call'[c].pc # "writing" /\ inverter' # inverter /\ ~raced
        => inverter'.periods = ApplySlotEdit(inverter.periods, call[c].arg[1], call[c].arg[2])
<1>1. WritesIInv /\ [WritesNext]_writesVars => [\A c \in Calls : Kept(c)]_writesVars
  <2> SUFFICES ASSUME WritesIInv, WritesNext, NEW c \in Calls,
                      call[c].kind = "edit_slot", call[c].pc = "writing",
                      call'[c].pc # "writing", inverter' # inverter, ~raced
               PROVE  inverter'.periods =
                          ApplySlotEdit(inverter.periods, call[c].arg[1], call[c].arg[2])
    OBVIOUS
  <2>0. CallsTyped /\ InTurn /\ OneOnTheBus /\ EditOf(c)
    BY DEF WritesIInv
  <2>1. PICK s : /\ call[c].todo = << <<"periods", s>> >>
                 /\ s = ApplySlotEdit(inverter.periods, call[c].arg[1], call[c].arg[2])
    BY <2>0 DEF EditOf
  <2>2. bus = c
    BY <2>0 DEF EditOf
  <2>3. Write(c) \/ BreakOff(c)
    <3>1. ~AppEdits /\ ~Poll /\ ~EntriesChange
      BY DEF AppEdits, Poll, EntriesChange, commandVars
    <3>2. \A d \in Calls : Write(d) \/ BreakOff(d) => d = c
      BY <2>2 DEF Write, BreakOff
    <3>3. \A d \in Calls, kind \in Commands[group] : \A arg \in Args(kind) : ~Call(d, kind, arg)
      BY DEF Call
    <3>4. \A d \in Calls : Step(d) => Write(d) \/ BreakOff(d)
      BY DEF Step, Validate, TakeBus, ReadSchedule, Refreshed, GiveUp
    <3> QED
      BY <3>1, <3>2, <3>3, <3>4 DEF WritesNext
  <2>4. inverter' = [inverter EXCEPT !["periods"] = s]
    <3>1. Head(call[c].todo) = <<"periods", s>>
      BY <2>1
    <3>2. Head(call[c].todo)[1] = "periods" /\ Head(call[c].todo)[2] = s
      BY <3>1
    <3> QED
      BY <2>3, <3>2 DEF Write, BreakOff, Take
  <2>5. "periods" \in DOMAIN inverter
    <3>1. group = "schedule"
      <4>1. call[c].kind \in Commands[group] /\ group \in Groups
        BY <2>0, TypesOf DEF CallsTyped
      <4> QED
        BY <4>1 DEF Groups, Commands
    <3>2. inverter = [x \in {"periods"} |-> inverter[x]]
      BY <2>0, <3>1 DEF CallsTyped, Resting
    <3> QED
      BY <3>2
  <2> QED
    BY <2>1, <2>4, <2>5
<1> QED
  BY <1>1, WritesInvariant, PTL DEF WritesSpec, NoEditLost
=============================================================================
