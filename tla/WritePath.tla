------------------------------ MODULE WritePath ------------------------------
(***************************************************************************)
(* Writing a setting while its coordinator polls: the guarded write of an  *)
(* entity or a service (src/number.py, switch.py, select.py, services.py,  *)
(* types.py), the invalidation and the verification it schedules           *)
(* (src/update_coordinator.py), and PollCycle, all on one bus guard that   *)
(* lets one of them talk to the device at a time.                          *)
(* The device changes the setting only through these writes.               *)
(***************************************************************************)
EXTENDS PollCycle

CONSTANTS
    Setting,                \* the register that is written
    WRITE_VERIFY_RETRIES

ASSUME WriteAssumption ==
    /\ Setting \in Registers \ Energy
    /\ WRITE_VERIFY_RETRIES \in Nat

VARIABLES
    device,     \* the setting as the device has it
    writer,     \* the write: "idle", "asking" for the bus, "onwire"
    target,     \* the value it writes
    verifier,   \* the verification task: also asleep in "delay"
    expected,   \* the value it expects
    attempt,    \* its attempt, from 1
    unknown     \* history: a write was lost and the setting not read since

writeVars == <<device, writer, target, verifier, expected, attempt, unknown>>
allVars == <<vars, writeVars>>

WriteTypeOK ==
    /\ TypeOK
    /\ device \in Values
    /\ writer \in {"idle", "asking", "onwire"} /\ target \in Values
    /\ verifier \in {"idle", "delay", "asking", "onwire"} /\ expected \in Values
    /\ attempt \in 1 .. WRITE_VERIFY_RETRIES + 1
    /\ unknown \in BOOLEAN

WriteInit ==
    /\ Init
    /\ device \in Values
    /\ writer = "idle" /\ target = device
    /\ verifier = "idle" /\ expected = device /\ attempt = 1
    /\ unknown = FALSE

\* The guard admits one request at a time (ModbusGuard).
LineFree == phase # "onwire" /\ writer # "onwire" /\ verifier # "onwire"

-----------------------------------------------------------------------------
(* The poll, which reads the setting as the device has it. *)

PollReads(results) ==
    /\ ChunkAnswered(results)
    /\ Setting \in Chunk => results[Setting] = device
    /\ unknown' = (unknown /\ Setting \notin Chunk)
    /\ UNCHANGED <<device, writer, target, verifier, expected, attempt>>

PollAdvances ==
    \/ /\ \/ BackoffWakes \/ DeviceBusy \/ AskAgain \/ Deadline
          \/ LineFree /\ Admitted
          \/ \E kind \in {"shed", "admission"} : Refused(kind)
          \/ \E kind \in {"timeout", "illegal", "device"} : ReadFails(kind)
       /\ UNCHANGED writeVars
    \/ \E results \in [Chunk -> Values] : PollReads(results)

PollStarts == StartPoll /\ UNCHANGED writeVars

Around == (Cancelled \/ Environment) /\ UNCHANGED writeVars

-----------------------------------------------------------------------------
(* The write. *)

StartWrite(v) ==
    /\ writer = "idle"
    /\ writer' = "asking"
    /\ target' = v
    /\ UNCHANGED <<vars, device, verifier, expected, attempt, unknown>>

WriteAdmitted ==
    /\ writer = "asking" /\ LineFree
    /\ writer' = "onwire"
    /\ UNCHANGED <<vars, device, target, verifier, expected, attempt, unknown>>

\* Shed, or the admission timed out: the device was not reached.
WriteRefused ==
    /\ writer = "asking" /\ ~calm
    /\ writer' = "idle"
    /\ UNCHANGED <<vars, device, target, verifier, expected, attempt, unknown>>

\* device.set returned False, or raised before anything was sent.
WriteRejected ==
    /\ writer = "onwire"
    /\ writer' = "idle"
    /\ UNCHANGED <<vars, device, target, verifier, expected, attempt, unknown>>

\* WRITE_TIMEOUT, or the link broke: it may have been applied all the same,
\* and the exception skips the invalidation.
WriteLost ==
    /\ writer = "onwire" /\ ~calm
    /\ writer' = "idle"
    /\ device' \in {device, target}
    /\ unknown' = TRUE
    /\ UNCHANGED <<vars, target, verifier, expected, attempt>>

\* Mutant (Defect Q): the cached register is not invalidated.
WriteAcknowledgedOnly ==
    /\ writer = "onwire"
    /\ writer' = "idle"
    /\ device' \in {device, target}
    /\ verifier' = "delay" /\ expected' = target /\ attempt' = 1
    /\ UNCHANGED <<vars, target, unknown>>

\* Acknowledged (the inverter may still ignore it): invalidate_cache and, for an
\* entity, schedule_verify_write, which cancels the verification of an older
\* write, run before anyone else gets the bus.  A service invalidates whatever
\* the answer was, and leaves an older verification to itself.
WriteAcknowledged ==
    /\ writer = "onwire"
    /\ writer' = "idle"
    /\ device' \in {device, target}
    /\ Invalidate(Setting)
    /\ \/ verifier' = "delay" /\ expected' = target /\ attempt' = 1
       \/ UNCHANGED <<verifier, expected, attempt>>
    /\ UNCHANGED <<pollVars, timeouts, backoffCycle, entityVars, calm, target, unknown>>

WriteStep == WriteAdmitted \/ WriteRefused \/ WriteRejected \/ WriteLost
             \/ WriteAcknowledged

-----------------------------------------------------------------------------
(* verify_write *)

VerifyWakes ==
    /\ verifier = "delay"
    /\ verifier' = "asking"
    /\ UNCHANGED <<vars, device, writer, target, expected, attempt, unknown>>

VerifyAdmitted ==
    /\ verifier = "asking" /\ LineFree
    /\ verifier' = "onwire"
    /\ UNCHANGED <<vars, device, writer, target, expected, attempt, unknown>>

\* Mutant: off by one in the number of attempts.
NextAttemptOnceMore ==
    IF attempt <= WRITE_VERIFY_RETRIES + 1
    THEN verifier' = "delay" /\ attempt' = attempt + 1
    ELSE verifier' = "idle" /\ attempt' = 1

\* Mismatch, refusal or failure: sleep and try again, a bounded number of times.
NextAttempt ==
    IF attempt <= WRITE_VERIFY_RETRIES
    THEN verifier' = "delay" /\ attempt' = attempt + 1
    ELSE verifier' = "idle" /\ attempt' = 1

VerifyFails ==
    /\ verifier \in {"asking", "onwire"} /\ ~calm
    /\ NextAttempt
    /\ UNCHANGED <<vars, device, writer, target, expected, unknown>>

VerifyMismatch ==
    /\ verifier = "onwire" /\ device # expected
    /\ NextAttempt
    /\ UNCHANGED <<vars, device, writer, target, expected, unknown>>

\* The value read is the one expected: it goes into the cache.
VerifyMatch ==
    /\ verifier = "onwire" /\ device = expected
    /\ Store([n \in {Setting} |-> device])
    /\ verifier' = "idle" /\ attempt' = 1
    /\ unknown' = FALSE
    /\ UNCHANGED <<pollVars, timeouts, backoffCycle, entityVars, calm,
                   device, writer, target, expected>>

VerifyStep == VerifyWakes \/ VerifyAdmitted \/ VerifyFails \/ VerifyMismatch
              \/ VerifyMatch

WriteNext ==
    \/ PollStarts \/ PollAdvances \/ Around
    \/ \E v \in Values : StartWrite(v)
    \/ WriteStep
    \/ VerifyStep

WriteSpec == WriteInit /\ [][WriteNext]_allVars

(* As in PollCycle; a write and a verification on the wire end (both have a *)
(* timeout); and the setting becomes due again and again, because its TTL   *)
(* is capped (GoodIsRecent of RegisterCache).                               *)
WriteFairness ==
    /\ WF_allVars(PollStarts) /\ WF_allVars(PollAdvances)
    /\ WF_allVars(WriteStep) /\ WF_allVars(VerifyStep)
    /\ SF_allVars(PollStarts /\ Setting \in batch')

FairWriteSpec == WriteSpec /\ WriteFairness

-----------------------------------------------------------------------------
\* The cache never serves a value that one of our own acknowledged writes has
\* replaced, whatever was being read, verified, deferred or failing meanwhile:
\* what it serves is what the device has, unless a write was lost without an
\* answer and the register not read since.
ServedIsCurrent ==
    Servable(status[Setting]) /\ ~unknown => value[Setting] = device

\* Once the writes stop and bus and device answer, the entities show the
\* setting the device has, for good: even if the last write was lost without
\* an answer, was silently ignored, or raced a poll.
WriteIsShown ==
    <>[](calm /\ writer = "idle") => <>[](data[Setting] = device)

\* "the pre-write value was served again -- exactly what section 6 decided
\* against" (record_attempt): a poll never publishes the value that an
\* acknowledged write has replaced.
NoPreWriteValue ==
    [][Ends /\ available' /\ ~unknown' => data'[Setting] \in {device', NoValue}]_allVars
=============================================================================
