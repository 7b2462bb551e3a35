------------------------ MODULE AdaptiveLearningProofs ------------------------
(***************************************************************************)
(* What the adaptive controller remembers survives, for any firmware       *)
(* versions and any number of controllers: a clean memory is on the disk,  *)
(* an unload leaves nothing behind, and statistics of two firmware         *)
(* versions never count alike.  The induction is on what holds of every    *)
(* controller, Sound, of the file, and of the newest controller; it is     *)
(* shown operation by operation for one controller first.                  *)
(***************************************************************************)
EXTENDS AdaptiveLearning, TLAPS

Phases == {"none", "loaded", "unloading", "undoing", "removed", "stopped"}

\* What has its full weight was observed under the recorded version, if under
\* a known one.
Consistent(m) == m.full \cap Versions \subseteq {m.firmware}

\* A save that runs knows whether it has what it must write, and is needed.
SavesWhatItMust(c) ==
    c.writer # "none" => c.dirty /\ (c.raced \/ c.copy = c.memory)

Sound(c) ==
    /\ c \in Controllers
    /\ SavesWhatItMust(c)
    /\ Consistent(c.memory) /\ Consistent(c.copy)
    /\ c.read \in Versions => c.memory.firmware = c.read

SoundFile == disk # NoFile => disk \in Memories /\ Consistent(disk)

Typed ==
    /\ newest \in 0 .. MAX_OBJECTS
    /\ phase \in Phases
    /\ phase # "none" => newest # 0
    /\ wanted \in BOOLEAN /\ apart \in BOOLEAN /\ failed \in BOOLEAN

IInv ==
    /\ object \in [Objects -> Controllers]
    /\ \A i \in Objects : Sound(object[i])
    /\ SoundFile
    /\ Typed
    /\ CleanIsOnDisk
    /\ NothingLeftBehind

-----------------------------------------------------------------------------
(* One memory, one controller. *)

LEMMA CreatedSound == Sound(Created)
BY DEF Sound, Created, Empty, Controllers, Memories, Labels, Consistent,
       SavesWhatItMust

\* Noting a version records it, and keeps the memory consistent.
LEMMA NotedConsistent ==
    ASSUME NEW m \in Memories, Consistent(m), NEW version \in Labels
    PROVE  /\ Noted(m, version) \in Memories
           /\ Consistent(Noted(m, version))
           /\ version \in Versions => Noted(m, version).firmware = version
BY AdaptiveAssumption DEF Noted, Memories, Labels, Consistent

LEMMA PreparedSound ==
    ASSUME NEW c, Sound(c), c.writer = "none",
           NEW base \in Memories, Consistent(base),
           NEW version \in Labels, NEW aged \in BOOLEAN
    PROVE  /\ Sound(Prepared(c, base, version, aged))
           /\ ~Prepared(c, base, version, aged).dirty
                => Prepared(c, base, version, aged).memory = base
<1>1. /\ Noted(base, version) \in Memories
      /\ Consistent(Noted(base, version))
      /\ version \in Versions => Noted(base, version).firmware = version
  BY NotedConsistent
<1> QED
  BY <1>1 DEF Prepared, SetUp, Sound, SavesWhatItMust, Controllers

LEMMA CopyingSound ==
    ASSUME NEW c, Sound(c), c.dirty, NEW who \in {"task", "direct"}
    PROVE  Sound(Copying(c, who))
BY DEF Copying, Sound, SavesWhatItMust, Controllers

LEMMA EmptyConsistent == Empty \in Memories /\ Consistent(Empty)
BY DEF Empty, Memories, Labels, Consistent

LEMMA IdleSound ==
    ASSUME NEW c, Sound(c)
    PROVE  Sound(Idle(c))
BY EmptyConsistent DEF Idle, Sound, SavesWhatItMust, Controllers

LEMMA ChangedSound ==
    ASSUME NEW c, Sound(c), NEW m \in Memories, Consistent(m),
           m.firmware = c.memory.firmware
    PROVE  Sound(Changed(c, m))
BY DEF Changed, Sound, SavesWhatItMust, Controllers

\* Flags that no save looks at.
LEMMA FlagsSound ==
    ASSUME NEW c, Sound(c), NEW late \in BOOLEAN, NEW sleeping \in BOOLEAN
    PROVE  /\ Sound([c EXCEPT !.late = late, !.sleeping = sleeping])
           /\ Sound([c EXCEPT !.late = late])
           /\ Sound([c EXCEPT !.sleeping = sleeping])
BY DEF Sound, SavesWhatItMust, Controllers

LEMMA CleanSound ==
    ASSUME NEW c, Sound(c)
    PROVE  Sound([Idle(c) EXCEPT !.dirty = FALSE])
BY EmptyConsistent DEF Idle, Sound, SavesWhatItMust, Controllers

LEMMA AfterWriteSound ==
    ASSUME NEW c, Sound(c), c.writer # "none"
    PROVE  Sound(AfterWrite(c))
<1>1. CASE c.raced
  BY <1>1, CopyingSound DEF AfterWrite, Sound, SavesWhatItMust, Controllers
<1>2. CASE ~c.raced
  BY <1>2, CleanSound DEF AfterWrite
<1> QED
  BY <1>1, <1>2

-----------------------------------------------------------------------------
(* The steps.  A step of one controller leaves the others alone. *)

\* What an action owes: the controllers sound, the file, the flags.
StaysSound == /\ object' \in [Objects -> Controllers]
              /\ \A i \in Objects : Sound(object'[i])
              /\ SoundFile'
              /\ Typed'

LEMMA OneController ==
    ASSUME IInv, NEW i \in Objects, NEW c, Sound(c),
           object' = [object EXCEPT ![i] = c]
    PROVE  /\ object' \in [Objects -> Controllers]
           /\ \A j \in Objects : Sound(object'[j])
           /\ object'[i] = c
           /\ \A j \in Objects : j # i => object'[j] = object[j]
BY DEF IInv, Sound

LEMMA NewestIsObject ==
    ASSUME IInv, phase # "none"
    PROVE  newest \in Objects
BY AdaptiveAssumption DEF IInv, Typed, Objects

LEMMA LoadKeeps ==
    ASSUME IInv, Load
    PROVE  IInv'
<1> DEFINE i == IF phase = "stopped" THEN newest ELSE newest + 1
           c == IF phase = "stopped" THEN object[i] ELSE Created
<1>1. PICK readable \in {FALSE, disk # NoFile}, version \in Labels, aged \in BOOLEAN :
         LET base == IF readable THEN disk ELSE c.memory IN
         /\ c.writer = "none"
         /\ object' = [Remaining EXCEPT ![i] = Prepared(c, base, version, aged)]
         /\ apart' = ~readable
  BY DEF Load
<1> DEFINE base == IF readable THEN disk ELSE c.memory
           p == Prepared(c, base, version, aged)
<1>2. i \in Objects /\ newest' = i /\ phase' = "loaded" /\ failed' = FALSE
      /\ UNCHANGED <<disk, wanted>>
  BY DEF Load
<1>3. Sound(c)
  BY <1>2, CreatedSound DEF IInv
<1>4. readable => disk # NoFile
  OBVIOUS
<1>5. base \in Memories /\ Consistent(base)
  BY <1>3, <1>4 DEF IInv, SoundFile, Sound, Controllers
<1>6. Sound(p) /\ (~p.dirty => p.memory = base)
  <2> HIDE DEF c, base
  <2> QED
    BY <1>1, <1>3, <1>5, PreparedSound
<1>7. Remaining \in [Objects -> Controllers] /\ \A j \in Objects : Sound(Remaining[j])
  BY CreatedSound DEF Remaining, IInv, Sound
<1>8. object' = [Remaining EXCEPT ![i] = p]
  BY <1>1
<1> HIDE DEF i, c, p
<1>9. /\ object' \in [Objects -> Controllers]
      /\ \A j \in Objects : Sound(object'[j])
      /\ object'[i] = p
  BY <1>2, <1>6, <1>7, <1>8 DEF Sound
<1>10. SoundFile' /\ Typed'
  <2>1. readable \in BOOLEAN /\ apart' \in BOOLEAN
    BY <1>1
  <2>2. newest' \in 0 .. MAX_OBJECTS /\ newest' # 0
    BY <1>2, AdaptiveAssumption DEF Objects
  <2> QED
    BY <1>2, <2>1, <2>2 DEF IInv, SoundFile, Typed, Phases
<1>11. CleanIsOnDisk'
  BY <1>1, <1>2, <1>6, <1>9 DEF CleanIsOnDisk
<1>12. NothingLeftBehind'
  BY <1>2 DEF NothingLeftBehind
<1> QED
  BY <1>9, <1>10, <1>11, <1>12 DEF IInv

LEMMA RecordKeeps ==
    ASSUME IInv, NEW i \in Objects, Record(i)
    PROVE  IInv'
<1> DEFINE c == object[i]
           m == [c.memory EXCEPT !.full = @ \cup {c.read}]
           sleeping == (c.writer # "task")
           d == [Changed(c, m) EXCEPT !.late = FALSE, !.sleeping = sleeping]
<1>1. Sound(c)
  BY DEF IInv
<1>2. m \in Memories /\ Consistent(m) /\ m.firmware = c.memory.firmware
  BY <1>1, AdaptiveAssumption DEF Sound, Controllers, Memories, Consistent, Labels
<1>3. Sound(Changed(c, m))
  BY <1>1, <1>2, ChangedSound
<1>4. Sound(d)
  <2> HIDE DEF c, m
  <2> QED
    BY <1>3, FlagsSound
<1>5. d.dirty /\ (d.sleeping \/ d.writer # "none")
  BY <1>1 DEF Changed, Sound, Controllers
<1>6. object' = [object EXCEPT ![i] = d] /\ UNCHANGED <<disk, newest, phase, wanted, apart, failed>>
  BY DEF Record
<1> HIDE DEF d
<1>7. /\ object' \in [Objects -> Controllers]
      /\ \A j \in Objects : Sound(object'[j])
      /\ object'[i] = d
      /\ \A j \in Objects : j # i => object'[j] = object[j]
  BY <1>4, <1>6, OneController
<1>8. SoundFile' /\ Typed'
  BY <1>6 DEF IInv, SoundFile, Typed
<1>9. CleanIsOnDisk'
  BY <1>5, <1>6, <1>7, NewestIsObject DEF CleanIsOnDisk, IInv
<1>10. NothingLeftBehind'
  BY <1>5, <1>6, <1>7, NewestIsObject DEF NothingLeftBehind, IInv
<1> QED
  BY <1>7, <1>8, <1>9, <1>10 DEF IInv

LEMMA ToggleKeeps ==
    ASSUME IInv, Toggle
    PROVE  IInv'
<1> DEFINE c == object[newest]
           m == [c.memory EXCEPT !.enabled = wanted']
           d == IF c.memory.enabled = wanted' THEN c ELSE Changed(c, m)
<1>1. newest \in Objects /\ phase = "loaded" /\ wanted' \in BOOLEAN
  BY NewestIsObject DEF Toggle
<1>2. Sound(c)
  BY <1>1 DEF IInv
<1>3. m \in Memories /\ Consistent(m) /\ m.firmware = c.memory.firmware
  BY <1>1, <1>2 DEF Sound, Controllers, Memories, Consistent
<1>4. Sound(d)
  BY <1>2, <1>3, ChangedSound
<1>5. d = c \/ d.dirty
  BY <1>2 DEF Changed, Sound, Controllers
<1>6. object' = [object EXCEPT ![newest] = d] /\ UNCHANGED <<disk, newest, phase, apart, failed>>
  BY DEF Toggle
<1> HIDE DEF d
<1>7. /\ object' \in [Objects -> Controllers]
      /\ \A j \in Objects : Sound(object'[j])
      /\ object'[newest] = d
  BY <1>1, <1>4, <1>6, OneController
<1>8. SoundFile' /\ Typed'
  BY <1>1, <1>6 DEF IInv, SoundFile, Typed
<1>9. CleanIsOnDisk' /\ NothingLeftBehind'
  BY <1>1, <1>5, <1>6, <1>7 DEF CleanIsOnDisk, NothingLeftBehind, IInv
<1> QED
  BY <1>7, <1>8, <1>9 DEF IInv

LEMMA WakeKeeps ==
    ASSUME IInv, NEW i \in Objects, Wake(i)
    PROVE  IInv'
<1> DEFINE awake == [object[i] EXCEPT !.sleeping = FALSE]
           d == IF awake.dirty THEN Copying(awake, "task") ELSE awake
<1>1. Sound(object[i]) /\ object[i] \in Controllers
  BY DEF IInv, Sound
<1>2. Sound(awake)
  BY <1>1, FlagsSound
<1>3. Sound(d)
  <2> HIDE DEF awake
  <2> QED
    BY <1>2, CopyingSound
<1>4. /\ d.dirty = object[i].dirty /\ d.memory = object[i].memory
      /\ d.dirty => d.writer # "none"
  BY <1>1 DEF Copying, Controllers
<1>5. object' = [object EXCEPT ![i] = d] /\ UNCHANGED <<disk, newest, phase, wanted, apart, failed>>
  BY DEF Wake
<1> HIDE DEF d
<1>6. /\ object' \in [Objects -> Controllers]
      /\ \A j \in Objects : Sound(object'[j])
      /\ object'[i] = d
      /\ \A j \in Objects : j # i => object'[j] = object[j]
  BY <1>3, <1>5, OneController
<1>7. SoundFile' /\ Typed'
  BY <1>5 DEF IInv, SoundFile, Typed
<1>8. CleanIsOnDisk' /\ NothingLeftBehind'
  BY <1>4, <1>5, <1>6, NewestIsObject DEF CleanIsOnDisk, NothingLeftBehind, IInv
<1> QED
  BY <1>6, <1>7, <1>8 DEF IInv

LEMMA SavedKeeps ==
    ASSUME IInv, NEW i \in Objects, Saved(i)
    PROVE  IInv'
<1> DEFINE c == object[i]
           d == AfterWrite(c)
<1>1. Sound(c) /\ c \in Controllers /\ c.writer # "none"
  BY DEF IInv, Sound, Saved
<1>2. Sound(d)
  BY <1>1, AfterWriteSound
<1>3. /\ disk' = c.copy
      /\ object' = [object EXCEPT ![i] = d]
      /\ phase' = IF Flushing(i) /\ object'[i].writer = "none" THEN TornDown ELSE phase
      /\ apart' = (i # newest) /\ failed' = (failed /\ i # newest)
      /\ UNCHANGED <<newest, wanted>>
  BY DEF Saved
<1>4. IF d.dirty THEN d.writer # "none"
                 ELSE d.writer = "none" /\ d.memory = c.memory /\ c.copy = c.memory
  BY <1>1 DEF AfterWrite, Copying, Idle, Sound, SavesWhatItMust, Controllers
<1> HIDE DEF d
<1>5. /\ object' \in [Objects -> Controllers]
      /\ \A j \in Objects : Sound(object'[j])
      /\ object'[i] = d
      /\ \A j \in Objects : j # i => object'[j] = object[j]
  BY <1>2, <1>3, OneController
<1>6. SoundFile'
  BY <1>1, <1>3 DEF Sound, SoundFile, Controllers
<1>7. Typed'
  BY <1>3 DEF IInv, Typed, Phases, Flushing, TornDown
<1>8. CleanIsOnDisk'
  BY <1>3, <1>4, <1>5 DEF CleanIsOnDisk
<1>9. NothingLeftBehind'
  <2> SUFFICES ASSUME phase' \in {"removed", "stopped"}, object'[newest].dirty
               PROVE  object'[newest].sleeping \/ object'[newest].writer # "none"
                      \/ failed'
    BY <1>3 DEF NothingLeftBehind
  <2>1. CASE i = newest
    BY <1>4, <1>5, <2>1
  <2>2. CASE i # newest
    BY <1>3, <1>5, <2>2, NewestIsObject DEF Flushing, IInv, NothingLeftBehind
  <2> QED
    BY <2>1, <2>2
<1> QED
  BY <1>5, <1>6, <1>7, <1>8, <1>9 DEF IInv

LEMMA SaveFailsKeeps ==
    ASSUME IInv, NEW i \in Objects, SaveFails(i)
    PROVE  IInv'
<1> DEFINE c == object[i]
           stopped == Copying([c EXCEPT !.sleeping = FALSE], "direct")
           d == IF Flushing(i) /\ phase = "unloading" THEN stopped ELSE Idle(c)
<1>1. Sound(c) /\ c \in Controllers /\ c.writer # "none" /\ c.dirty
  BY DEF IInv, Sound, SaveFails, SavesWhatItMust
<1>2. Sound([c EXCEPT !.sleeping = FALSE]) /\ [c EXCEPT !.sleeping = FALSE].dirty
  BY <1>1, FlagsSound DEF Controllers
<1>3. Sound(stopped)
  BY <1>2, CopyingSound
<1>4. Sound(d)
  BY <1>1, <1>3, IdleSound
<1>5. d.dirty
  BY <1>1 DEF Copying, Idle, Controllers
<1>6. /\ object' = [object EXCEPT ![i] = d]
      /\ phase' = IF Flushing(i) THEN TornDown ELSE phase
      /\ failed' = (failed \/ i = newest)
      /\ UNCHANGED <<disk, newest, wanted, apart>>
  BY DEF SaveFails
<1> HIDE DEF d
<1>7. /\ object' \in [Objects -> Controllers]
      /\ \A j \in Objects : Sound(object'[j])
      /\ object'[i] = d
      /\ \A j \in Objects : j # i => object'[j] = object[j]
  BY <1>4, <1>6, OneController
<1>8. SoundFile' /\ Typed'
  BY <1>6 DEF IInv, SoundFile, Typed, Phases, Flushing, TornDown
<1>9. CleanIsOnDisk'
  BY <1>5, <1>6, <1>7, NewestIsObject DEF CleanIsOnDisk, IInv, Flushing, TornDown
<1>10. NothingLeftBehind'
  BY <1>6, <1>7, NewestIsObject DEF NothingLeftBehind, IInv, Flushing
<1> QED
  BY <1>7, <1>8, <1>9, <1>10 DEF IInv

LEMMA UnloadKeeps ==
    ASSUME IInv, Unload
    PROVE  IInv'
<1> DEFINE c == object[newest]
           idle == [Idle(c) EXCEPT !.sleeping = FALSE]
<1>1. PICK removal \in BOOLEAN, busy \in BOOLEAN :
         /\ object' = [object EXCEPT ![newest] =
                [(IF FlushNeeded(c) THEN Copying(idle, "direct") ELSE idle)
                    EXCEPT !.late = busy]]
         /\ phase' = CASE FlushNeeded(c) /\ removal -> "unloading"
                       [] FlushNeeded(c) /\ ~removal -> "undoing"
                       [] ~FlushNeeded(c) /\ removal -> "removed"
                       [] OTHER -> "stopped"
         /\ disk' \in {disk} \cup (IF c.writer = "none" THEN {} ELSE {c.copy})
  BY DEF Unload
<1>2. newest \in Objects /\ phase = "loaded" /\ UNCHANGED <<newest, wanted, apart, failed>>
  BY NewestIsObject DEF Unload
<1>3. Sound(c) /\ c \in Controllers
  BY <1>2 DEF IInv, Sound
<1>4. Sound(idle) /\ idle.dirty = c.dirty /\ idle.memory = c.memory
  <2>1. Sound(Idle(c))
    BY <1>3, IdleSound
  <2>2. Sound(idle)
    BY <2>1, FlagsSound
  <2> QED
    BY <1>3, <2>2 DEF Idle, Controllers
<1> DEFINE e == IF FlushNeeded(c) THEN Copying(idle, "direct") ELSE idle
           d == [e EXCEPT !.late = busy]
<1>5. Sound(e)
  <2> HIDE DEF idle, c
  <2> QED
    BY <1>4, CopyingSound DEF FlushNeeded
<1>6. Sound(d)
  <2> HIDE DEF e
  <2> QED
    BY <1>5, FlagsSound
<1>7. d.dirty = c.dirty /\ d.memory = c.memory
  BY <1>3 DEF Idle, Copying, Controllers
<1>8. /\ phase' \in Phases /\ phase' # "none"
      /\ phase' \in {"removed", "stopped"} => ~c.dirty
  BY <1>1, Zenon DEF FlushNeeded, Phases
<1> HIDE DEF d
<1>9. /\ object' \in [Objects -> Controllers]
      /\ \A j \in Objects : Sound(object'[j])
      /\ object'[newest] = d
  BY <1>1, <1>2, <1>6, OneController DEF d
<1>10. SoundFile' /\ Typed'
  BY <1>1, <1>2, <1>3, <1>8 DEF IInv, SoundFile, Typed, Sound, Controllers
<1>11. CleanIsOnDisk'
  <2>1. ~c.dirty => c.writer = "none"
    BY <1>3 DEF Sound, SavesWhatItMust
  <2> QED
    BY <1>1, <1>2, <1>7, <1>9, <2>1 DEF CleanIsOnDisk, IInv
<1>12. NothingLeftBehind'
  BY <1>2, <1>7, <1>8, <1>9 DEF NothingLeftBehind
<1> QED
  BY <1>9, <1>10, <1>11, <1>12 DEF IInv

LEMMA EndsKeeps ==
    ASSUME IInv, Ends
    PROVE  IInv'
<1>1. /\ object' = [i \in Objects |-> Created]
      /\ newest' = 0 /\ phase' = "none" /\ failed' = FALSE /\ apart' = TRUE
      /\ wanted' = wanted
  BY DEF Ends
<1>2. /\ object' \in [Objects -> Controllers]
      /\ \A j \in Objects : Sound(object'[j])
  BY <1>1, CreatedSound DEF Sound
<1>3. SoundFile'
  BY DEF Ends, IInv, Sound, SoundFile, Controllers
<1>4. Typed'
  <2>1. 0 \in 0 .. MAX_OBJECTS
    BY AdaptiveAssumption
  <2>2. wanted' \in BOOLEAN /\ apart' \in BOOLEAN /\ failed' \in BOOLEAN
    BY <1>1, Zenon DEF IInv, Typed
  <2> QED
    BY <1>1, <2>1, <2>2 DEF Typed, Phases
<1> QED
  BY <1>1, <1>2, <1>3, <1>4 DEF IInv, CleanIsOnDisk, NothingLeftBehind

-----------------------------------------------------------------------------
(* The specification. *)

LEMMA Invariant == Spec => []IInv
<1>1. Init => IInv
  <2> SUFFICES ASSUME Init PROVE IInv
    OBVIOUS
  <2>1. object \in [Objects -> Controllers] /\ \A i \in Objects : Sound(object[i])
    BY CreatedSound DEF Init, Sound
  <2>2. 0 \in 0 .. MAX_OBJECTS
    BY AdaptiveAssumption
  <2>3. wanted \in BOOLEAN /\ apart \in BOOLEAN /\ failed \in BOOLEAN
    BY Zenon DEF Init
  <2>4. Typed
    BY <2>2, <2>3 DEF Init, Typed, Phases
  <2> QED
    BY <2>1, <2>4 DEF Init, IInv, SoundFile, CleanIsOnDisk, NothingLeftBehind
<1>2. IInv /\ [Next]_vars => IInv'
  <2> SUFFICES ASSUME IInv, [Next]_vars
               PROVE  IInv'
    OBVIOUS
  <2>1. CASE UNCHANGED vars
    BY <2>1 DEF vars, IInv, SoundFile, Typed, CleanIsOnDisk, NothingLeftBehind
  <2> QED
    BY <2>1, LoadKeeps, RecordKeeps, ToggleKeeps, WakeKeeps, SavedKeeps,
       SaveFailsKeeps, UnloadKeeps, EndsKeeps DEF Next
<1> QED
  BY <1>1, <1>2, PTL DEF Spec

\* The file, every controller and every flag keep their type.
THEOREM AdaptiveTypeCorrect == Spec => []AdaptiveTypeOK
<1>1. IInv => AdaptiveTypeOK
  BY DEF IInv, SoundFile, Typed, Phases, AdaptiveTypeOK
<1> QED
  BY <1>1, Invariant, PTL

\* A controller with nothing to save has its memory on the disk, however saves
\* are raced, fail or are cancelled.
THEOREM CleanMemoryIsOnDisk == Spec => []CleanIsOnDisk
<1>1. IInv => CleanIsOnDisk
  BY DEF IInv
<1> QED
  BY <1>1, Invariant, PTL

\* A controller that was unloaded has saved what it knows, or will, or failed to.
THEOREM UnloadLosesNothing == Spec => []NothingLeftBehind
<1>1. IInv => NothingLeftBehind
  BY DEF IInv
<1> QED
  BY <1>1, Invariant, PTL

\* No memory, in use or stored, gives full weight to observations of two
\* firmware versions, for any sequence of versions read, failures and crashes.
THEOREM FirmwareNeverMixes == Spec => []OneFirmwareAtFullWeight
<1>1. IInv => OneFirmwareAtFullWeight
  <2> SUFFICES ASSUME IInv,
                      NEW m \in {object[i].memory : i \in Objects} \cup ({disk} \ {NoFile}),
                      NEW a \in m.full \cap Versions, NEW b \in m.full \cap Versions
               PROVE  a = b
    BY DEF OneFirmwareAtFullWeight
  <2>1. Consistent(m)
    BY DEF IInv, Sound, SoundFile
  <2> QED
    BY <2>1 DEF Consistent
<1> QED
  BY <1>1, Invariant, PTL
=============================================================================
