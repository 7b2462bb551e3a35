---------------------------- MODULE EntryLifecycle ----------------------------
(***************************************************************************)
(* Setting up and unloading the config entries that share one Modbus       *)
(* endpoint (src/__init__.py), with the reference-counted guard registry   *)
(* of src/modbus_guard.py, the discovery sessions of src/config_flow.py    *)
(* and the keep-alive task of src/modbus_keepalive.py.                     *)
(* The devices are inverters: other kinds have neither telemetry nor       *)
(* keep-alive.  What each attempt creates is told apart by the number of   *)
(* the attempt, guard objects by the order of their creation.              *)
(***************************************************************************)
EXTENDS Naturals, Sequences, FiniteSets

CONSTANTS
    Entries,
    Flows,          \* discovery sessions of the config flow
    DevicesOf,      \* per entry: the inverters in the order of their set-up
    MaxAttempts,    \* bound: set-up attempts per entry
    MaxGuards,      \* bound: guard objects made
    NoKeepAlive

Elements(s) == {s[i] : i \in DOMAIN s}
Devices     == UNION {Elements(DevicesOf[e]) : e \in Entries}
EntryOf(d)  == CHOOSE e \in Entries : d \in Elements(DevicesOf[e])
Attempts    == 1 .. MaxAttempts
Users       == (Entries \X Attempts) \cup Flows

KeepAlive   == [owner : Attempts, wired : Attempts, healthy : BOOLEAN,
                task : {"none", "sleeping", "probing"}]

ASSUME LifecycleAssumption ==
    /\ \A e \in Entries :
          /\ DevicesOf[e] \in Seq(Elements(DevicesOf[e])) \ {<< >>}
          /\ \A i, j \in DOMAIN DevicesOf[e] :   \* parse_unit_ids refuses duplicates
                i # j => DevicesOf[e][i] # DevicesOf[e][j]
    /\ \A e, f \in Entries :
          e # f => Elements(DevicesOf[e]) \cap Elements(DevicesOf[f]) = {}
    /\ Flows \cap (Entries \X Attempts) = {}
    /\ NoKeepAlive \notin KeepAlive
    /\ MaxAttempts \in Nat /\ MaxGuards \in Nat

VARIABLES
    guard,      \* _registry: the guard object of the endpoint, 0 when there is none
    made,       \* guard objects made so far
    refs,       \* _ref_counts
    held,       \* the guard object each user works with, 0 when it has released it
    phase,      \* how far the set-up or the unload of each entry is
    attempt,    \* the set-up attempt it is in or was in last
    pos,        \* the device it is at
    cleanup,    \* cleanup_callbacks of the running attempt
    undo,       \* the rollback of an attempt, which may outlive it
    unloadOk,   \* unload_ok
    transport,  \* the connection of the current attempt
    telemetry,  \* registry of telemetry singletons: "none", "armed", "dead" (stopped)
    keepalive,  \* registry of keep-alive objects
    dying,      \* the keep-alive task was cancelled and has not ended yet
    view,       \* what the coordinators were told last about the connection
    dropped,    \* history: a rollback of this entry was cut short
    leaked,     \* history: references these rollbacks left behind
    overtaken   \* history: an attempt started beside the rollback of an earlier one

registry == <<guard, made, refs, held>>
objects  == <<telemetry, keepalive, dying, view>>
history  == <<dropped, leaked, overtaken>>
vars == <<registry, phase, attempt, pos, cleanup, undo, unloadOk, transport, objects, history>>

SettingUp == {"identify", "closing", "prepare", "load", "optimizers", "platforms"}
Item      == [what : {"ref", "client"}] \cup [what : {"telemetry", "keepalive"}, device : Devices]
Idle      == [mode |-> "none", todo |-> << >>, stop |-> FALSE, attempt |-> 0]

LifecycleTypeOK ==
    /\ guard \in 0 .. made /\ made \in 0 .. MaxGuards
    /\ refs \in Nat /\ (guard = 0 <=> refs = 0)
    /\ held \in [Users -> 0 .. made]
    /\ phase \in [Entries -> SettingUp \cup {"off", "undoing", "loaded", "unloading",
                                             "teardown", "failed"}]
    /\ attempt \in [Entries -> 0 .. MaxAttempts]
    /\ pos \in [Entries -> Nat]
    /\ \A e \in Entries : pos[e] \in 1 .. Len(DevicesOf[e]) + 1
    /\ cleanup \in [Entries -> Seq(Item)]
    /\ undo \in [Entries -> [mode : {"none", "failure", "shielded"}, todo : Seq(Item),
                             stop : BOOLEAN, attempt : 0 .. MaxAttempts]]
    /\ unloadOk \in [Entries -> BOOLEAN]
    /\ transport \in [Entries -> {"closed", "open", "wedged"}]
    /\ telemetry \in [Devices -> {"none", "armed", "dead"}]
    /\ keepalive \in [Devices -> {NoKeepAlive} \cup KeepAlive]
    /\ dying \in [Devices -> BOOLEAN] /\ view \in [Devices -> {"up", "down"}]
    /\ dropped \in [Entries -> BOOLEAN] /\ overtaken \in [Entries -> BOOLEAN]
    /\ leaked \in Nat

Init ==
    /\ guard = 0 /\ made = 0 /\ refs = 0
    /\ held = [u \in Users |-> 0]
    /\ phase = [e \in Entries |-> "off"]
    /\ attempt = [e \in Entries |-> 0]
    /\ pos = [e \in Entries |-> 1]
    /\ cleanup = [e \in Entries |-> << >>]
    /\ undo = [e \in Entries |-> Idle]
    /\ unloadOk = [e \in Entries |-> TRUE]
    /\ transport = [e \in Entries |-> "closed"]
    /\ telemetry = [d \in Devices |-> "none"]
    /\ keepalive = [d \in Devices |-> NoKeepAlive]
    /\ dying = [d \in Devices |-> FALSE]
    /\ view = [d \in Devices |-> "up"]
    /\ dropped = [e \in Entries |-> FALSE]
    /\ overtaken = [e \in Entries |-> FALSE]
    /\ leaked = 0

Device(e) == DevicesOf[e][pos[e]]
Self(e)   == <<e, attempt[e]>>

-----------------------------------------------------------------------------
(* The guard registry. *)

\* acquire_endpoint
Acquire(user) ==
    /\ guard # 0 \/ made < MaxGuards
    /\ made' = IF guard = 0 THEN made + 1 ELSE made
    /\ guard' = IF guard = 0 THEN made' ELSE guard
    /\ refs' = refs + 1
    /\ held' = [held EXCEPT ![user] = guard']

\* Mutant (before F04): the first release removes the guard.
Always(count) == TRUE

\* Mutant: the last release leaves the guard registered.
Never(count) == FALSE

LastRelease(count) == count = 0

\* release_endpoint
Release(user) ==
    /\ held' = [held EXCEPT ![user] = 0]
    /\ IF refs = 0 THEN UNCHANGED <<refs, guard>>
       ELSE LET gone == LastRelease(refs - 1) IN
            /\ refs' = IF gone THEN 0 ELSE refs - 1
            /\ guard' = IF gone THEN 0 ELSE guard
    /\ UNCHANGED made

\* A discovery session brackets its requests with acquire and release.
FlowStarts(f) ==
    /\ held[f] = 0
    /\ Acquire(f)
    /\ UNCHANGED <<phase, attempt, pos, cleanup, undo, unloadOk, transport, objects, history>>

FlowEnds(f) ==
    /\ held[f] # 0
    /\ Release(f)
    /\ UNCHANGED <<phase, attempt, pos, cleanup, undo, unloadOk, transport, objects, history>>

-----------------------------------------------------------------------------
(* Setting an entry up. *)

\* Mutant: the reference is acquired without its cleanup.
NoCleanup == << >>

RefCleanup == <<[what |-> "ref"]>>

StartSetup(e) ==
    /\ phase[e] = "off" /\ attempt[e] < MaxAttempts
    /\ attempt' = [attempt EXCEPT ![e] = @ + 1]
    /\ Acquire(<<e, attempt[e] + 1>>)
    /\ cleanup' = [cleanup EXCEPT ![e] = RefCleanup]
    /\ phase' = [phase EXCEPT ![e] = "identify"]
    /\ pos' = [pos EXCEPT ![e] = 1]
    /\ transport' = [transport EXCEPT ![e] = "closed"]
    /\ overtaken' = [overtaken EXCEPT ![e] = @ \/ undo[e].mode # "none"]
    /\ UNCHANGED <<undo, unloadOk, objects, dropped, leaked>>

Identified(e) ==
    /\ phase[e] = "identify"
    /\ phase' = [phase EXCEPT ![e] = "prepare"]
    /\ transport' = [transport EXCEPT ![e] = "open"]
    /\ UNCHANGED <<registry, attempt, pos, cleanup, undo, unloadOk, objects, history>>

\* Timed out or refused, perhaps with the connection open.
IdentifyFails(e) ==
    /\ phase[e] = "identify"
    /\ phase' = [phase EXCEPT ![e] = "closing"]
    /\ \E t \in {"closed", "open"} : transport' = [transport EXCEPT ![e] = t]
    /\ UNCHANGED <<registry, attempt, pos, cleanup, undo, unloadOk, objects, history>>

\* The primary has logged in, or the next sub-device was discovered: its
\* coordinator and telemetry (get_or_create) are made.
Prepared(e) ==
    /\ phase[e] = "prepare"
    /\ phase' = [phase EXCEPT ![e] = "load"]
    /\ telemetry' = [telemetry EXCEPT ![Device(e)] = IF @ = "none" THEN "armed" ELSE @]
    /\ view' = [view EXCEPT ![Device(e)] = "up"]
    /\ cleanup' = [cleanup EXCEPT ![e] =
                      Append(@, [what |-> "telemetry", device |-> Device(e)])]
    /\ UNCHANGED <<registry, attempt, pos, undo, unloadOk, transport, keepalive, dying, history>>

\* Mutant (Defect U): the keep-alive task is not part of the rollback.
NoKeepAliveCleanup(d) == << >>

KeepAliveCleanup(d) == <<[what |-> "keepalive", device |-> d]>>

\* ModbusKeepAlive.get_or_create keeps a registered object, with its device
\* and guard; start leaves a running task alone.
Registered(d, n) ==
    IF keepalive[d] = NoKeepAlive
    THEN [owner |-> n, wired |-> n, healthy |-> TRUE, task |-> "none"]
    ELSE keepalive[d]

Running(k) == IF k.task = "none" THEN [k EXCEPT !.task = "sleeping"] ELSE k

\* The learning state is loaded; the keep-alive starts.
KeepAliveStarted(e) ==
    /\ phase[e] = "load"
    /\ phase' = [phase EXCEPT ![e] = "optimizers"]
    /\ keepalive' = [keepalive EXCEPT ![Device(e)] =
                        Running(Registered(Device(e), attempt[e]))]
    /\ cleanup' = [cleanup EXCEPT ![e] = @ \o KeepAliveCleanup(Device(e))]
    /\ UNCHANGED <<registry, attempt, pos, undo, unloadOk, transport, telemetry, dying,
                   view, history>>

\* Optimizer discovery is over, whatever came of it; the callbacks of the
\* keep-alive are wired to the coordinators of this attempt.
DeviceReady(e) ==
    /\ phase[e] = "optimizers"
    /\ keepalive' = [keepalive EXCEPT ![Device(e)] =
                        IF @ = NoKeepAlive THEN @ ELSE [@ EXCEPT !.wired = attempt[e]]]
    /\ pos' = [pos EXCEPT ![e] = @ + 1]
    /\ phase' = [phase EXCEPT ![e] =
                    IF pos[e] < Len(DevicesOf[e]) THEN "prepare" ELSE "platforms"]
    /\ UNCHANGED <<registry, attempt, cleanup, undo, unloadOk, transport, telemetry,
                   dying, view, history>>

\* Platforms and services are set up.
SetupDone(e) ==
    /\ phase[e] = "platforms"
    /\ phase' = [phase EXCEPT ![e] = "loaded"]
    /\ cleanup' = [cleanup EXCEPT ![e] = << >>]
    /\ UNCHANGED <<registry, attempt, pos, undo, unloadOk, transport, objects, history>>

-----------------------------------------------------------------------------
(* Rolling a failed or cancelled attempt back. *)

Rollback(e, mode, todo, stop) ==
    /\ undo[e].mode = "none"    \* bound: one rollback of an entry at a time
    /\ undo' = [undo EXCEPT ![e] = [mode |-> mode, todo |-> todo, stop |-> stop,
                                    attempt |-> attempt[e]]]
    /\ phase' = [phase EXCEPT ![e] = "undoing"]
    /\ cleanup' = [cleanup EXCEPT ![e] = << >>]
    /\ UNCHANGED <<registry, attempt, pos, unloadOk, objects, leaked, overtaken>>

\* Mutant (before MOD-16): a wedged connection is waited for.
ClosesWhenSound(t) == t # "wedged"

\* _bounded_device_stop, _bounded_client_disconnect: closed or given up.
MayClose(t) == t \in {"open", "wedged", "closed"}

\* The raw client is disconnected before the failure is passed on.
ClientClosed(e) ==
    /\ phase[e] = "closing" /\ MayClose(transport[e])
    /\ Rollback(e, "failure", cleanup[e], FALSE)
    /\ transport' = [transport EXCEPT ![e] = "closed"]
    /\ UNCHANGED dropped

SetupFails(e) ==
    /\ phase[e] \in {"prepare", "load", "platforms"}
    /\ Rollback(e, "failure", cleanup[e], TRUE)
    /\ UNCHANGED <<transport, dropped>>

\* CancelledError: the rollback is shielded; the raw client is first.
SetupCancelled(e) ==
    \/ /\ phase[e] = "identify"
       /\ \E t \in {"closed", "open"} : transport' = [transport EXCEPT ![e] = t]
       /\ Rollback(e, "shielded", Append(cleanup[e], [what |-> "client"]), FALSE)
       /\ UNCHANGED dropped
    \/ /\ phase[e] = "closing"  \* in the middle of the disconnect
       /\ Rollback(e, "shielded", cleanup[e], FALSE)
       /\ dropped' = [dropped EXCEPT ![e] = TRUE]
       /\ UNCHANGED transport
    \/ /\ phase[e] \in {"prepare", "load", "optimizers", "platforms"}
       /\ Rollback(e, "shielded", cleanup[e], TRUE)
       /\ UNCHANGED <<transport, dropped>>

\* async_stop: the task is cancelled, at once unless a probe is in flight.
Stopped(d) ==
    /\ keepalive' = [keepalive EXCEPT ![d] =
                        IF @ = NoKeepAlive THEN @ ELSE [@ EXCEPT !.task = "none"]]
    /\ dying' = [dying EXCEPT ![d] = @ \/ /\ keepalive[d] # NoKeepAlive
                                          /\ keepalive[d].task = "probing"]

\* Mutant (before HS-2310-005): cancelling is enough.
NotAwaited(e) == TRUE

\* async_stop has waited for the task.
Awaited(e) == \A d \in Elements(DevicesOf[e]) : ~dying[d]

\* Mutant (ICS-011): the stopped telemetry object stays registered.
StaysRegistered == "dead"

AfterRollback == "none"

\* _run_cleanup_callbacks: last created, first torn down.
UndoOne(e) ==
    LET todo == undo[e].todo
        item == todo[Len(todo)]
    IN  /\ undo[e].mode # "none" /\ todo # << >> /\ Awaited(e)
        /\ undo' = [undo EXCEPT ![e].todo = SubSeq(todo, 1, Len(todo) - 1)]
        /\ \/ /\ item.what = "ref"
              /\ Release(<<e, undo[e].attempt>>)
              /\ UNCHANGED <<transport, objects>>
           \/ /\ item.what = "client"
              /\ transport' = IF attempt[e] = undo[e].attempt
                              THEN [transport EXCEPT ![e] = "closed"] ELSE transport
              /\ UNCHANGED <<registry, objects>>
           \/ /\ item.what = "telemetry"
              /\ telemetry' = [telemetry EXCEPT ![item.device] = AfterRollback]
              /\ UNCHANGED <<registry, transport, keepalive, dying, view>>
           \/ /\ item.what = "keepalive"
              /\ Stopped(item.device)
              /\ UNCHANGED <<registry, transport, telemetry, view>>
        /\ UNCHANGED <<phase, attempt, pos, cleanup, unloadOk, history>>

\* The device is stopped last; an attempt that waited for this is over.
UndoDone(e) ==
    LET same == attempt[e] = undo[e].attempt IN
    /\ undo[e].mode # "none" /\ undo[e].todo = << >> /\ Awaited(e)
    /\ undo[e].stop /\ same => MayClose(transport[e])
    /\ transport' = IF undo[e].stop /\ same THEN [transport EXCEPT ![e] = "closed"]
                    ELSE transport
    /\ undo' = [undo EXCEPT ![e] = Idle]
    /\ phase' = [phase EXCEPT ![e] = IF same /\ @ = "undoing" THEN "off" ELSE @]
    /\ UNCHANGED <<registry, attempt, pos, cleanup, unloadOk, objects, history>>

\* A second cancellation leaves a shielded rollback running by itself...
CancelledAgain(e) ==
    /\ phase[e] = "undoing" /\ undo[e].mode = "shielded"
    /\ phase' = [phase EXCEPT ![e] = "off"]
    /\ UNCHANGED <<registry, attempt, pos, cleanup, undo, unloadOk, transport, objects, history>>

\* ...but the rollback of a failure is not shielded and is cut short.
RollbackCancelled(e) ==
    /\ phase[e] = "undoing" /\ undo[e].mode = "failure"
    /\ phase' = [phase EXCEPT ![e] = "off"]
    /\ undo' = [undo EXCEPT ![e] = Idle]
    /\ dropped' = [dropped EXCEPT ![e] = TRUE]
    /\ leaked' = IF held[Self(e)] # 0 THEN leaked + 1 ELSE leaked
    /\ held' = [held EXCEPT ![Self(e)] = 0]
    /\ UNCHANGED <<guard, made, refs, attempt, pos, cleanup, unloadOk, transport, objects,
                   overtaken>>

-----------------------------------------------------------------------------
(* Unloading an entry. *)

StartUnload(e) ==
    /\ phase[e] = "loaded"
    /\ phase' = [phase EXCEPT ![e] = "unloading"]
    /\ \E ok \in BOOLEAN : unloadOk' = [unloadOk EXCEPT ![e] = ok]
    /\ pos' = [pos EXCEPT ![e] = 1]
    /\ UNCHANGED <<registry, attempt, cleanup, undo, transport, objects, history>>

StopKeepAlive(e) ==
    /\ phase[e] = "unloading" /\ pos[e] <= Len(DevicesOf[e]) /\ Awaited(e)
    /\ Stopped(Device(e))
    /\ pos' = [pos EXCEPT ![e] = @ + 1]
    /\ UNCHANGED <<registry, phase, attempt, cleanup, undo, unloadOk, transport, telemetry,
                   view, history>>

Disconnect(e) ==
    /\ phase[e] = "unloading" /\ pos[e] > Len(DevicesOf[e]) /\ Awaited(e)
    /\ MayClose(transport[e])
    /\ transport' = [transport EXCEPT ![e] = "closed"]
    /\ phase' = [phase EXCEPT ![e] = "teardown"]
    /\ UNCHANGED <<registry, attempt, pos, cleanup, undo, unloadOk, objects, history>>

\* Runs whether or not the platforms unloaded; an entry whose platforms did
\* not is never set up again.
Teardown(e) ==
    LET mine == Elements(DevicesOf[e]) IN
    /\ phase[e] = "teardown"
    /\ telemetry' = [d \in Devices |-> IF d \in mine THEN "none" ELSE telemetry[d]]
    /\ keepalive' = [d \in Devices |-> IF d \in mine THEN NoKeepAlive ELSE keepalive[d]]
    /\ Release(Self(e))
    /\ phase' = [phase EXCEPT ![e] = IF unloadOk[e] THEN "off" ELSE "failed"]
    /\ dropped' = [dropped EXCEPT ![e] = FALSE]
    /\ overtaken' = [overtaken EXCEPT ![e] = undo[e].mode # "none"]
    /\ UNCHANGED <<attempt, pos, cleanup, undo, unloadOk, transport, dying, view, leaked>>

-----------------------------------------------------------------------------
(* The keep-alive task; a probe the bus was too busy for changes nothing. *)

ProbeStarts(d) ==
    /\ keepalive[d] # NoKeepAlive /\ keepalive[d].task = "sleeping"
    /\ keepalive' = [keepalive EXCEPT ![d].task = "probing"]
    /\ UNCHANGED <<registry, phase, attempt, pos, cleanup, undo, unloadOk, transport,
                   telemetry, dying, view, history>>

\* The callbacks reach the coordinators they were wired to.
Told(d, what) ==
    view' = [view EXCEPT ![d] = IF keepalive[d].wired = attempt[EntryOf(d)] THEN what ELSE @]

\* Mutant: the restored connection is not remembered.
RestoredUnnoticed(healthy) == healthy

Restored(healthy) == TRUE

ProbeEnds(d) ==
    /\ keepalive[d] # NoKeepAlive /\ keepalive[d].task = "probing"
    /\ \/ /\ keepalive' = [keepalive EXCEPT ![d].task = "sleeping",
                                            ![d].healthy = Restored(@)]
          /\ IF keepalive[d].healthy THEN UNCHANGED view ELSE Told(d, "up")
       \/ /\ keepalive' = [keepalive EXCEPT ![d].task = "sleeping", ![d].healthy = FALSE]
          /\ IF keepalive[d].healthy THEN Told(d, "down") ELSE UNCHANGED view
       \/ /\ keepalive' = [keepalive EXCEPT ![d].task = "sleeping"]
          /\ UNCHANGED view
    /\ UNCHANGED <<registry, phase, attempt, pos, cleanup, undo, unloadOk, transport,
                   telemetry, dying, history>>

\* The cancelled task ends, or is no longer waited for.
KeepAliveGone(d) ==
    /\ dying[d]
    /\ dying' = [dying EXCEPT ![d] = FALSE]
    /\ UNCHANGED <<registry, phase, attempt, pos, cleanup, undo, unloadOk, transport,
                   telemetry, keepalive, view, history>>

\* The connection stops answering, even to being closed.
Wedges(e) ==
    /\ transport[e] = "open"
    /\ transport' = [transport EXCEPT ![e] = "wedged"]
    /\ UNCHANGED <<registry, phase, attempt, pos, cleanup, undo, unloadOk, objects, history>>

-----------------------------------------------------------------------------
SetupSteps(e) ==
    \/ Identified(e) \/ IdentifyFails(e) \/ ClientClosed(e) \/ Prepared(e)
    \/ KeepAliveStarted(e) \/ DeviceReady(e) \/ SetupDone(e)

UndoSteps(e) == UndoOne(e) \/ UndoDone(e)

UnloadSteps(e) == StopKeepAlive(e) \/ Disconnect(e) \/ Teardown(e)

Next ==
    \/ \E e \in Entries :
          \/ StartSetup(e) \/ StartUnload(e)
          \/ SetupSteps(e) \/ UndoSteps(e) \/ UnloadSteps(e)
          \/ SetupFails(e) \/ SetupCancelled(e)
          \/ CancelledAgain(e) \/ RollbackCancelled(e) \/ Wedges(e)
    \/ \E d \in Devices : ProbeStarts(d) \/ ProbeEnds(d) \/ KeepAliveGone(d)
    \/ \E f \in Flows : FlowStarts(f) \/ FlowEnds(f)

\* Every wait of a set-up, of a rollback and of an unload is bounded.
Fairness ==
    /\ \A e \in Entries : WF_vars(SetupSteps(e)) /\ WF_vars(UndoSteps(e)) /\ WF_vars(UnloadSteps(e))
    /\ \A d \in Devices : WF_vars(KeepAliveGone(d))

Spec == Init /\ [][Next]_vars /\ Fairness

-----------------------------------------------------------------------------
Resting(e) == phase[e] \in {"off", "failed"} /\ undo[e].mode = "none" /\ ~dropped[e]

\* Every reference to the endpoint belongs to a user that still has to give it
\* back, apart from those a rollback that was cut short left behind: none is
\* lost or given back twice, whichever attempts fail, are cancelled or overlap.
ReferencesExact ==
    /\ refs = Cardinality({u \in Users : held[u] # 0}) + leaked
    /\ \A e \in Entries, n \in Attempts : held[<<e, n>>] # 0 =>
          \/ n = attempt[e] /\ phase[e] \notin {"off", "failed"}
          \/ n = undo[e].attempt

\* Whoever uses the endpoint works with the registered guard object, so that
\* one physical bus never has two guards (F04).
OneGuardPerBus == \A u \in Users : held[u] # 0 => held[u] = guard

\* After a failed or cancelled set-up, or an unload, nothing of the entry is
\* left behind: no open connection, no keep-alive task, no telemetry timer.
NothingLeftRunning ==
    \A e \in Entries : Resting(e) =>
        /\ transport[e] # "open"
        /\ \A d \in Elements(DevicesOf[e]) :
              /\ keepalive[d] # NoKeepAlive => keepalive[d].task = "none"
              /\ telemetry[d] = "none" /\ ~dying[d]

\* No probe of the current attempt is in flight on a connection that the
\* unload or the rollback has closed (HS-2310-005).
NoProbeOnClosedLine ==
    \A d \in Devices :
        LET e == EntryOf(d) IN
        /\ keepalive[d] # NoKeepAlive /\ keepalive[d].owner = attempt[e]
        /\ keepalive[d].task = "probing" \/ dying[d]
        => transport[e] # "closed" \/ overtaken[e]

\* A loaded entry has telemetry whose timer runs, even when earlier attempts
\* failed (ICS-011), unless the rollback of one of them was still running.
TelemetryArmed ==
    \A e \in Entries : phase[e] = "loaded" /\ ~overtaken[e] =>
        \A d \in Elements(DevicesOf[e]) : telemetry[d] = "armed"

\* The coordinators of a loaded entry know the state of the connection as its
\* keep-alive sees it: lost and restored reach them in turn.
HealthIsKnown ==
    \A e \in Entries : phase[e] = "loaded" =>
        \A d \in Elements(DevicesOf[e]) :
            /\ keepalive[d] # NoKeepAlive
            /\ keepalive[d].owner = attempt[e] => (view[d] = "up" <=> keepalive[d].healthy)

\* A set-up, a rollback and an unload end, also on a wedged connection.
EntrySettles ==
    \A e \in Entries :
        [](phase[e] = "undoing" \/ phase[e] = "unloading" \/ phase[e] \in SettingUp
           => <>(phase[e] \in {"off", "loaded", "failed"}))

\* The keep-alive of a loaded entry probes the device object of its own set-up
\* attempt, through the guard of that attempt (_run_cleanup_callbacks: an
\* orphaned keep-alive must not run against a device object the next attempt
\* has no reference to).
KeepAliveIsOwn ==
    \A e \in Entries : phase[e] = "loaded" /\ ~overtaken[e] =>
        \A d \in Elements(DevicesOf[e]) : keepalive[d].owner = attempt[e]
=============================================================================
