--------------------------- MODULE AdaptiveLearning ---------------------------
(***************************************************************************)
(* What AdaptiveModbusController (src/adaptive_modbus.py) remembers of the *)
(* device's timing, and how it survives: the store file, the deferred save *)
(* that runs while polls go on learning, the flush of an unload, set-up    *)
(* from the file, firmware updates and a crash.  The statistics of a slot  *)
(* are reduced to how much was learned and under which firmware it was     *)
(* observed.                                                               *)
(* The registry holds one controller per serial number: an unload removes  *)
(* it, and a set-up after that creates another while the poll and the save *)
(* of its predecessor may still be under way; the roll-back of a failed    *)
(* set-up leaves it in the registry.                                       *)
(***************************************************************************)
EXTENDS Integers

CONSTANTS
    Versions,       \* firmware versions of the device
    NoVersion,      \* the version could not be read, or none is recorded
    NoFile,         \* nothing stored yet
    MAX_OBJECTS     \* bound: controllers created in one run of Home Assistant

ASSUME AdaptiveAssumption ==
    /\ NoVersion \notin Versions
    /\ MAX_OBJECTS \in Nat \ {0}

VARIABLES
    disk,       \* the file of the store
    object,     \* the controllers created since Home Assistant started
    newest,     \* the last of them, 0: none
    phase,      \* "none", "loaded", "unloading", "undoing", "removed", "stopped"
    wanted,     \* the learning switch (flag of the battery-health engine)
    apart,      \* history: the file was not read, or another controller wrote it
    failed      \* history: the last save of the newest controller failed

vars == <<disk, object, newest, phase, wanted, apart, failed>>

Objects == 1 .. MAX_OBJECTS
Labels == Versions \cup {NoVersion}

\* What _serialize writes.  full: the versions read by the set-ups under which
\* the observations were made that still have their full weight.
Memories == [full : SUBSET Labels, firmware : Labels, enabled : BOOLEAN]

Empty == [full |-> {}, firmware |-> NoVersion, enabled |-> TRUE]

\* sleeping: the deferred save waits.  writer: who is inside Store.async_save,
\* the deferred "task", or a "direct" call (unload, stop).  raced: the
\* generation has moved since the copy was taken.  late: a poll of an entry
\* that is being unloaded is still running.
Controllers == [memory : Memories, dirty : BOOLEAN, sleeping : BOOLEAN,
                writer : {"none", "task", "direct"}, copy : Memories,
                raced : BOOLEAN, read : Labels, late : BOOLEAN]

Created == [memory |-> Empty, dirty |-> FALSE, sleeping |-> FALSE, writer |-> "none",
            copy |-> Empty, raced |-> FALSE, read |-> NoVersion, late |-> FALSE]

AdaptiveTypeOK ==
    /\ disk \in Memories \cup {NoFile}
    /\ object \in [Objects -> Controllers]
    /\ newest \in 0 .. MAX_OBJECTS
    /\ phase \in {"none", "loaded", "unloading", "undoing", "removed", "stopped"}
    /\ wanted \in BOOLEAN /\ apart \in BOOLEAN /\ failed \in BOOLEAN

Init ==
    /\ disk = NoFile
    /\ object = [i \in Objects |-> Created]
    /\ newest = 0
    /\ phase = "none"
    /\ wanted = TRUE
    /\ apart = TRUE
    /\ failed = FALSE

-----------------------------------------------------------------------------
(* Set-up: async_load, then note_firmware_version. *)

\* note_firmware_version: the first version is only recorded; a change takes
\* the weight of all that was learned before.
Noted(m, version) ==
    CASE version \in {NoVersion, m.firmware} -> m
      [] version # NoVersion /\ m.firmware = NoVersion -> [m EXCEPT !.firmware = version]
      [] OTHER -> [m EXCEPT !.firmware = version, !.full = {}]

\* Mutant: the version is noted before the file is read, and the version the
\* file has then replaces it, with no discount.
SetUpNotedFirst(m, version, base) ==
    IF base.firmware # NoVersion THEN base
    ELSE [base EXCEPT !.firmware = Noted(m, version).firmware]

\* note_firmware_version after _deserialize.  `m` is the memory the object had,
\* `base` what it starts from: the file, or `m` itself if the file gave nothing.
SetUp(m, version, base) == Noted(base, version)

Prepared(c, base, version, aged) ==
    LET m == SetUp(c.memory, version, base) IN
    [c EXCEPT !.memory = m, !.dirty = c.dirty \/ aged \/ m # base, !.read = version]

\* A removed controller that nothing runs for any more is forgotten.
Remaining ==
    [i \in Objects |-> IF phase = "removed" /\ ~object[i].late /\ ~object[i].sleeping
                         /\ object[i].writer = "none"
                      THEN Created ELSE object[i]]

\* The controller of the registry is used again after a roll-back (not within
\* the instant one of its saves takes); after a removal get_or_create makes
\* another.  `aged`: _apply_startup_decay has discounted the days since.
Load ==
    /\ phase \in {"none", "removed", "stopped"}
    /\ LET i == IF phase = "stopped" THEN newest ELSE newest + 1 IN
       /\ i \in Objects
       /\ \E readable \in {FALSE, disk # NoFile}, version \in Labels, aged \in BOOLEAN :
             LET c == IF phase = "stopped" THEN object[i] ELSE Created
                 base == IF readable THEN disk ELSE c.memory
             IN  /\ c.writer = "none"
                 /\ object' = [Remaining EXCEPT ![i] = Prepared(c, base, version, aged)]
                 /\ apart' = ~readable
       /\ newest' = i
    /\ phase' = "loaded"
    /\ failed' = FALSE
    /\ UNCHANGED <<disk, wanted>>

-----------------------------------------------------------------------------
(* Learning. *)

\* A change of what is remembered, with the generation moved.
Changed(c, m) == [c EXCEPT !.memory = m, !.dirty = TRUE, !.raced = c.writer # "none"]

\* record_request of one request; the save is scheduled if none is.  While a
\* direct save runs _save_task is None, so a deferred one is started as well.
Record(i) ==
    LET c == object[i] IN
    /\ (i = newest /\ phase = "loaded") \/ c.late
    /\ c.memory.enabled
    /\ object' = [object EXCEPT ![i] =
           [Changed(c, [c.memory EXCEPT !.full = @ \cup {c.read}])
               EXCEPT !.late = FALSE, !.sleeping = c.writer # "task"]]
    /\ UNCHANGED <<disk, newest, phase, wanted, apart, failed>>

\* The learning switch: the engine's flag is flushed to its own store, then
\* set_learning_enabled of the controller, which schedules no save.
Toggle ==
    /\ phase = "loaded"
    /\ wanted' = ~wanted
    /\ LET c == object[newest] IN
       object' = [object EXCEPT ![newest] =
           IF c.memory.enabled = wanted' THEN c
           ELSE Changed(c, [c.memory EXCEPT !.enabled = wanted'])]
    /\ UNCHANGED <<disk, newest, phase, apart, failed>>

-----------------------------------------------------------------------------
(* Saving. *)

Copying(c, who) == [c EXCEPT !.writer = who, !.copy = c.memory, !.raced = FALSE]
Idle(c) == [c EXCEPT !.writer = "none", !.copy = Empty, !.raced = FALSE]

\* _deferred_save after its 60 s, far longer than a flush.
Wake(i) ==
    LET awake == [object[i] EXCEPT !.sleeping = FALSE] IN
    /\ object[i].sleeping /\ object[i].writer = "none"
    /\ object' = [object EXCEPT ![i] =
                      IF awake.dirty THEN Copying(awake, "task") ELSE awake]
    /\ UNCHANGED <<disk, newest, phase, wanted, apart, failed>>

\* Mutant (ICS-02): a finished save clears _dirty whatever came in meanwhile.
AfterWriteClean(c) == [Idle(c) EXCEPT !.dirty = FALSE]

\* The loop of _async_save: saved again if the generation has moved.
AfterWrite(c) ==
    IF c.raced THEN Copying(c, c.writer)
    ELSE [Idle(c) EXCEPT !.dirty = FALSE]

TornDown == IF phase = "unloading" THEN "removed" ELSE "stopped"

\* The flush an unload or a roll-back awaits.
Flushing(i) == i = newest /\ phase \in {"unloading", "undoing"}

Saved(i) ==
    /\ object[i].writer # "none"
    /\ disk' = object[i].copy
    /\ object' = [object EXCEPT ![i] = AfterWrite(@)]
    /\ phase' = IF Flushing(i) /\ object'[i].writer = "none" THEN TornDown ELSE phase
    /\ apart' = (i # newest)
    /\ failed' = (failed /\ i # newest)
    /\ UNCHANGED <<newest, wanted>>

\* Store.async_save raised: _dirty stays.  After a failed flush the unload
\* calls stop(), which cancels the deferred save and starts another one.
SaveFails(i) ==
    /\ object[i].writer # "none"
    /\ object' = [object EXCEPT ![i] =
           IF Flushing(i) /\ phase = "unloading"
           THEN Copying([@ EXCEPT !.sleeping = FALSE], "direct")
           ELSE Idle(@)]
    /\ phase' = IF Flushing(i) THEN TornDown ELSE phase
    /\ failed' = (failed \/ i = newest)
    /\ UNCHANGED <<disk, newest, wanted, apart>>

\* Mutant: a save already under way is taken for the flush.
FlushNeededUnlessSaving(c) == c.dirty /\ c.writer = "none"

FlushNeeded(c) == c.dirty

\* async_unload, by an unload of the entry or by the roll-back of a set-up that
\* failed: the deferred save is cancelled (what it was writing may still reach
\* the disk), and a dirty memory is flushed.
Unload ==
    /\ phase = "loaded"
    /\ LET c == object[newest]
           flush == FlushNeeded(c)
           idle == [Idle(c) EXCEPT !.sleeping = FALSE]
       IN  \E removal, busy \in BOOLEAN :
             /\ object' = [object EXCEPT ![newest] =
                    [(IF flush THEN Copying(idle, "direct") ELSE idle)
                        EXCEPT !.late = busy]]
             /\ phase' = CASE flush /\ removal -> "unloading"
                           [] flush /\ ~removal -> "undoing"
                           [] ~flush /\ removal -> "removed"
                           [] OTHER -> "stopped"
             /\ disk' \in {disk} \cup (IF c.writer = "none" THEN {} ELSE {c.copy})
    /\ UNCHANGED <<newest, wanted, apart, failed>>

-----------------------------------------------------------------------------
(* The world. *)

\* Home Assistant ends without unloading anything, by a crash or by its own
\* shutdown (which only suppresses learning): objects and tasks are gone.
Ends ==
    /\ newest # 0
    /\ disk' \in {disk} \cup
           {object[i].copy : i \in {j \in Objects : object[j].writer # "none"}}
    /\ object' = [i \in Objects |-> Created]
    /\ newest' = 0
    /\ phase' = "none"
    /\ failed' = FALSE
    /\ apart' = TRUE
    /\ UNCHANGED wanted

Next ==
    \/ Load \/ Toggle \/ Unload
    \/ \E i \in Objects : Record(i) \/ Wake(i) \/ Saved(i) \/ SaveFails(i)
    \/ Ends

Spec == Init /\ [][Next]_vars

-----------------------------------------------------------------------------
\* A controller that thinks it has nothing to save has its memory on the disk,
\* whatever was learned or switched while a save was being written (ICS-02),
\* failed (F16) or was cancelled; unless it could not read the file, or another
\* controller wrote over it, since.
CleanIsOnDisk ==
    newest # 0 /\ phase # "none" /\ ~object[newest].dirty /\ ~apart
        => disk = object[newest].memory

\* An unload loses nothing (Defect V): the controller it leaves behind has
\* saved what it knows, or a save is still to come, or one has failed.
NothingLeftBehind ==
    phase \in {"removed", "stopped"} /\ object[newest].dirty
        => object[newest].sleeping \/ object[newest].writer # "none" \/ failed

\* Statistics of two firmware versions never count alike: of the observations
\* that keep their full weight, in memory or on the disk, no two come from
\* set-ups that read different versions, through crashes between noting a
\* version and saving, failed saves, unreadable versions and files.
OneFirmwareAtFullWeight ==
    \A m \in {object[i].memory : i \in Objects} \cup ({disk} \ {NoFile}) :
        \A a, b \in m.full \cap Versions : a = b

-----------------------------------------------------------------------------
(* What a comment promises and the code does not keep. *)

\* "Maintenance inhibit shared with the battery-health engine."
\* (set_learning_enabled): with a file that could be read, both learners are
\* frozen or neither is.
FrozenTogether ==
    phase = "loaded" /\ ~apart => object[newest].memory.enabled = wanted
=============================================================================
