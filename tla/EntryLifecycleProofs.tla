------------------------- MODULE EntryLifecycleProofs -------------------------
(***************************************************************************)
(* Proofs about EntryLifecycle, for any number of entries, inverters,      *)
(* discovery sessions, attempts and guard objects.  The invariant has five *)
(* layers; each is preserved with the help of the ones before it.          *)
(***************************************************************************)
EXTENDS EntryLifecycle, FiniteSetTheorems, SequenceTheorems, TLAPS

Mine(e)     == Elements(DevicesOf[e])
Undoing(e)  == undo[e].mode # "none"

\* The rollback that runs is the one of the current attempt.
Latest(e)   == Undoing(e) /\ undo[e].attempt = attempt[e]

\* The phases in which the current attempt holds its reference.
Active      == SettingUp \cup {"loaded", "unloading", "teardown"}

Holders     == {u \in Users : held[u] # 0}

RefItem           == [what |-> "ref"]
ClientItem        == [what |-> "client"]
TaskItem(d)       == [what |-> "keepalive", device |-> d]
TelemetryItem(d)  == [what |-> "telemetry", device |-> d]

\* What is still going to be torn down.
Left(e) == Elements(cleanup[e]) \cup Elements(undo[e].todo)

-----------------------------------------------------------------------------
(* Layer 1: attempts, their cleanups and their rollbacks. *)

\* A list of cleanups gives the reference back last, once, and concerns
\* devices of its own entry only.
ListOf(e, s) ==
    /\ s # << >> => s[1] = RefItem
    /\ \A i \in 2 .. Len(s) : s[i] # RefItem
    /\ \A i \in 1 .. Len(s) : s[i].what \in {"keepalive", "telemetry"} => s[i].device \in Mine(e)

RollbackOf(e) ==
    /\ ~Undoing(e) => undo[e].todo = << >>
    /\ Undoing(e) => undo[e].attempt \in 1 .. attempt[e]
    /\ phase[e] = "undoing" => Latest(e)
    /\ Latest(e) => phase[e] \in {"undoing", "off"}
    /\ Undoing(e) /\ ~Latest(e) => overtaken[e]

AttemptOf(e) ==
    /\ phase[e] # "off" => attempt[e] >= 1
    /\ phase[e] \in SettingUp <=> cleanup[e] # << >>
    /\ phase[e] \in {"identify", "closing"} => cleanup[e] = RefCleanup /\ pos[e] = 1
    /\ phase[e] \in {"prepare", "load", "optimizers"} => pos[e] <= Len(DevicesOf[e])

Bookkeeping ==
    /\ LifecycleTypeOK
    /\ \A e \in Entries : /\ ListOf(e, cleanup[e]) /\ ListOf(e, undo[e].todo)
                          /\ RollbackOf(e) /\ AttemptOf(e)

-----------------------------------------------------------------------------
(* Layer 2: references. *)

\* An attempt holds its reference exactly while it runs or is loaded, and
\* then until its rollback has given it back.
Needs(e, n) ==
    \/ n = attempt[e] /\ phase[e] \in Active
    \/ n = undo[e].attempt /\ undo[e].todo # << >>

HeldWhileNeeded ==
    \A e \in Entries, n \in Attempts : held[<<e, n>>] # 0 <=> Needs(e, n)

References ==
    /\ IsFiniteSet(Holders)
    /\ refs = Cardinality(Holders) + leaked
    /\ OneGuardPerBus
    /\ HeldWhileNeeded

-----------------------------------------------------------------------------
(* Layer 3: keep-alive objects and what the coordinators were told. *)

\* The device at position i has not got to its keep-alive in this attempt.
Ahead(e, i) == \/ phase[e] \in {"identify", "closing", "prepare", "load"} /\ i >= pos[e]
               \/ phase[e] = "optimizers" /\ i > pos[e]

\* It has.
Passed(e, i) == \/ phase[e] \in {"prepare", "load"} /\ i < pos[e]
                \/ phase[e] = "optimizers" /\ i <= pos[e]
                \/ phase[e] \in {"platforms", "loaded"}

HealthOf(e, d) ==
    keepalive[d] # NoKeepAlive =>
        /\ keepalive[d].owner <= attempt[e] /\ keepalive[d].wired <= attempt[e]
        /\ keepalive[d].owner = attempt[e] =>
              keepalive[d].wired = attempt[e] /\ (view[d] = "up" <=> keepalive[d].healthy)

ObjectAt(e, i) ==
    LET d == DevicesOf[e][i] IN
    /\ Ahead(e, i) /\ keepalive[d] # NoKeepAlive =>
          keepalive[d].owner < attempt[e] /\ keepalive[d].wired < attempt[e]
    /\ Passed(e, i) => keepalive[d] # NoKeepAlive

HealthFor(e) ==
    /\ \A d \in Mine(e) : HealthOf(e, d)
    /\ \A i \in 1 .. Len(DevicesOf[e]) : ObjectAt(e, i)
    /\ phase[e] = "load" => view[Device(e)] = "up"

Health == \A e \in Entries : HealthFor(e)

-----------------------------------------------------------------------------
(* Layer 4: what runs, and what will stop it. *)

Runs(d) == keepalive[d] # NoKeepAlive /\ keepalive[d].task # "none"

Probing(d) == keepalive[d] # NoKeepAlive /\ keepalive[d].task = "probing"

\* Of an object of the current attempt.
OwnObject(e, d) == keepalive[d] # NoKeepAlive /\ keepalive[d].owner = attempt[e]

\* A running task is going to be stopped: that of any object unless a rollback
\* was cut short, and in any case that of an object of the current attempt.
TaskOwed(e, d) ==
    /\ phase[e] \in SettingUp \cup {"undoing", "off", "failed"}
    /\ Runs(d)
    /\ \/ ~dropped[e]
       \/ OwnObject(e, d) /\ (phase[e] \in SettingUp \/ Latest(e))
    => TaskItem(d) \in Left(e)

TelemetryOwed(e, d) ==
    /\ phase[e] \in SettingUp \cup {"undoing", "off", "failed"}
    /\ telemetry[d] # "none" /\ ~dropped[e]
    => TelemetryItem(d) \in Left(e)

StoppedByUnload(e) ==
    /\ phase[e] = "unloading" => \A i \in 1 .. Len(DevicesOf[e]) :
                                    i < pos[e] => ~Runs(DevicesOf[e][i])
    /\ phase[e] = "teardown" => /\ transport[e] = "closed"
                                /\ \A d \in Mine(e) : ~Runs(d) /\ ~dying[d]

LineOf(e) ==
    /\ phase[e] \in {"prepare", "load", "optimizers", "platforms", "loaded", "unloading"}
          => transport[e] # "closed"
    /\ phase[e] \in {"off", "failed"} /\ ~dropped[e] /\ ~Latest(e) =>
          /\ transport[e] # "open"
          /\ ~Undoing(e) => \A d \in Mine(e) : ~dying[d]
    /\ Latest(e) /\ ~undo[e].stop /\ ~dropped[e] =>
          transport[e] # "open" \/ ClientItem \in Elements(undo[e].todo)
    /\ ClientItem \notin Elements(cleanup[e])
    /\ Latest(e) /\ ClientItem \in Elements(undo[e].todo) => \A d \in Mine(e) : ~OwnObject(e, d)

QuietOnClosedLine(e, d) ==
    transport[e] = "closed" /\ ~overtaken[e] /\ OwnObject(e, d) => ~Runs(d) /\ ~dying[d]

TeardownFor(e) ==
    /\ StoppedByUnload(e) /\ LineOf(e)
    /\ \A d \in Mine(e) : TaskOwed(e, d) /\ TelemetryOwed(e, d) /\ QuietOnClosedLine(e, d)

Teardowns == \A e \in Entries : TeardownFor(e)

-----------------------------------------------------------------------------
(* Layer 5: the telemetry of the devices an attempt has prepared. *)

HasTelemetry(e, i) ==
    \/ phase[e] = "prepare" /\ i < pos[e]
    \/ phase[e] \in {"load", "optimizers"} /\ i <= pos[e]
    \/ phase[e] \in {"platforms", "loaded"}

ArmedFor(e) ==
    /\ \A d \in Mine(e) : telemetry[d] # "dead"
    /\ ~overtaken[e] => \A i \in 1 .. Len(DevicesOf[e]) :
                           HasTelemetry(e, i) => telemetry[DevicesOf[e][i]] = "armed"

Arms == \A e \in Entries : ArmedFor(e)

LifecycleIInv == Bookkeeping /\ References /\ Health /\ Teardowns /\ Arms

-----------------------------------------------------------------------------
(* Lemmas about lists of cleanups. *)

\* An item is one of the four kinds, each with what it carries.
LEMMA ItemKinds ==
    ASSUME NEW x \in Item
    PROVE  /\ x.what = "ref" => x = RefItem
           /\ x.what = "client" => x = ClientItem
           /\ x.what = "telemetry" => x.device \in Devices /\ x = TelemetryItem(x.device)
           /\ x.what = "keepalive" => x.device \in Devices /\ x = TaskItem(x.device)
           /\ x.what \in {"ref", "client", "telemetry", "keepalive"}
<1>1. CASE x \in [what : {"ref", "client"}]
  BY <1>1 DEF RefItem, ClientItem
<1>2. CASE x \in [what : {"telemetry", "keepalive"}, device : Devices]
  BY <1>2 DEF TelemetryItem, TaskItem
<1> QED
  BY <1>1, <1>2 DEF Item

\* The items are told apart by what they do.
LEMMA ItemsAreItems ==
    /\ RefItem \in Item /\ RefItem.what = "ref"
    /\ ClientItem \in Item /\ ClientItem.what = "client"
    /\ \A d \in Devices :
          /\ TaskItem(d) \in Item /\ TaskItem(d).what = "keepalive" /\ TaskItem(d).device = d
          /\ TelemetryItem(d) \in Item /\ TelemetryItem(d).what = "telemetry"
          /\ TelemetryItem(d).device = d
BY DEF Item, RefItem, ClientItem, TaskItem, TelemetryItem

\* One more cleanup keeps a list a list, when it is of a device of the entry.
LEMMA ListGrows ==
    ASSUME NEW e, NEW s \in Seq(Item), s # << >>, ListOf(e, s),
           NEW x \in Item, x # RefItem,
           x.what \in {"keepalive", "telemetry"} => x.device \in Mine(e)
    PROVE  /\ Append(s, x) \in Seq(Item) /\ Append(s, x) # << >>
           /\ ListOf(e, Append(s, x))
           /\ Elements(Append(s, x)) = Elements(s) \cup {x}
           /\ s \o <<x>> = Append(s, x)
<1>1. /\ Append(s, x) \in Seq(Item) /\ Len(Append(s, x)) = Len(s) + 1 /\ Len(s) \in Nat \ {0}
      /\ \A i \in 1 .. Len(s) : Append(s, x)[i] = s[i]
      /\ Append(s, x)[Len(s) + 1] = x
      /\ DOMAIN s = 1 .. Len(s) /\ DOMAIN Append(s, x) = 1 .. Len(s) + 1
  OBVIOUS
<1>2. ListOf(e, Append(s, x))
  BY <1>1 DEF ListOf
<1>3. Elements(Append(s, x)) = Elements(s) \cup {x}
  BY <1>1 DEF Elements
<1>4. s \o <<x>> = Append(s, x)
  OBVIOUS
<1> QED
  BY <1>1, <1>2, <1>3, <1>4

\* The last cleanup taken off a list: the reference when it was the only one.
LEMMA ListShrinks ==
    ASSUME NEW e, NEW s \in Seq(Item), s # << >>, ListOf(e, s)
    PROVE  LET last == s[Len(s)]
               rest == SubSeq(s, 1, Len(s) - 1)
           IN  /\ last \in Item /\ last \in Elements(s)
               /\ rest \in Seq(Item) /\ ListOf(e, rest)
               /\ last = RefItem <=> rest = << >>
               /\ Elements(s) = Elements(rest) \cup {last}
               /\ last.what \in {"keepalive", "telemetry"} => last.device \in Mine(e)
<1> DEFINE n == Len(s)
           rest == SubSeq(s, 1, n - 1)
<1>1. /\ n \in Nat \ {0} /\ DOMAIN s = 1 .. n /\ \A i \in 1 .. n : s[i] \in Item
  OBVIOUS
<1>2. /\ rest \in Seq(Item) /\ Len(rest) = n - 1
      /\ \A i \in 1 .. n - 1 : rest[i] = s[i]
      /\ DOMAIN rest = 1 .. n - 1
  <2>1. \A i \in 1 .. n - 1 : s[i] \in Item
    BY <1>1
  <2>2. /\ rest \in Seq(Item)
        /\ Len(rest) = IF 1 <= n - 1 THEN (n - 1) - 1 + 1 ELSE 0
        /\ \A i \in 1 .. (n - 1) - 1 + 1 : rest[i] = s[1 + i - 1]
    BY <1>1, <2>1, SubSeqProperties
  <2> QED
    BY <1>1, <2>2, LenProperties
<1>3. ListOf(e, rest)
  BY <1>1, <1>2 DEF ListOf
<1>4. s[n] = RefItem <=> rest = << >>
  <2>1. CASE n = 1
    BY <1>1, <1>2, <2>1 DEF ListOf
  <2>2. CASE n # 1
    <3>1. n \in 2 .. n /\ Len(rest) # 0
      BY <1>1, <1>2, <2>2
    <3>2. s[n] # RefItem
      BY <3>1 DEF ListOf
    <3>3. rest # << >>
      <4> HIDE DEF rest
      <4> QED
        BY <3>1, EmptySeq
    <3> QED
      BY <3>2, <3>3
  <2> QED
    BY <2>1, <2>2
<1>5. Elements(s) = Elements(rest) \cup {s[n]}
  <2>1. Elements(s) = {s[i] : i \in 1 .. n} /\ Elements(rest) = {rest[i] : i \in 1 .. n - 1}
    BY <1>1, <1>2 DEF Elements
  <2>2. n \in Nat \ {0}
    BY <1>1
  <2>3. /\ \A i \in 1 .. n : i = n \/ i \in 1 .. n - 1
        /\ n \in 1 .. n /\ \A i \in 1 .. n - 1 : i \in 1 .. n
    <3> HIDE DEF n
    <3> QED
      BY <2>2
  <2>4. \A i \in 1 .. n - 1 : rest[i] = s[i]
    BY <1>2
  <2>5. {s[i] : i \in 1 .. n} = {rest[i] : i \in 1 .. n - 1} \cup {s[n]}
    <3> HIDE DEF rest, n
    <3>1. \A x \in {s[i] : i \in 1 .. n} : x \in {rest[i] : i \in 1 .. n - 1} \cup {s[n]}
      BY <2>3, <2>4, Zenon
    <3>2. \A x \in {rest[i] : i \in 1 .. n - 1} \cup {s[n]} : x \in {s[i] : i \in 1 .. n}
      BY <2>3, <2>4, Zenon
    <3> QED
      BY <3>1, <3>2, Zenon
  <2> HIDE DEF rest, n
  <2> QED
    BY <2>1, <2>5, Zenon
<1> QED
  BY <1>1, <1>2, <1>3, <1>4, <1>5, SMTT(20) DEF ListOf, Elements

-----------------------------------------------------------------------------
(* Lemmas about entries and their devices. *)

\* The device an attempt is at is a device of the entry.
LEMMA DevicesAreMine ==
    ASSUME NEW e \in Entries
    PROVE  /\ Mine(e) \subseteq Devices
           /\ \A d \in Mine(e) : EntryOf(d) = e
           /\ Len(DevicesOf[e]) \in Nat \ {0}
           /\ \A i \in 1 .. Len(DevicesOf[e]) : DevicesOf[e][i] \in Mine(e)
           /\ \A d \in Mine(e) : \E i \in 1 .. Len(DevicesOf[e]) : d = DevicesOf[e][i]
           /\ \A i, j \in 1 .. Len(DevicesOf[e]) : DevicesOf[e][i] = DevicesOf[e][j] => i = j
<1>1. Mine(e) \subseteq Devices
  BY DEF Mine, Devices
<1>2. ASSUME NEW d \in Mine(e) PROVE EntryOf(d) = e
  <2>1. e \in Entries /\ d \in Elements(DevicesOf[e])
    BY <1>2 DEF Mine
  <2>2. \A f \in Entries : d \in Elements(DevicesOf[f]) => f = e
    BY <2>1, LifecycleAssumption DEF LifecycleAssumption
  <2> QED
    BY <2>1, <2>2 DEF EntryOf
<1>3. DevicesOf[e] \in Seq(Mine(e)) /\ DevicesOf[e] # << >>
  BY LifecycleAssumption DEF LifecycleAssumption, Mine
<1>4. /\ Len(DevicesOf[e]) \in Nat \ {0} /\ DOMAIN DevicesOf[e] = 1 .. Len(DevicesOf[e])
      /\ \A i \in 1 .. Len(DevicesOf[e]) : DevicesOf[e][i] \in Mine(e)
  BY <1>3
<1>5. \A d \in Mine(e) : \E i \in 1 .. Len(DevicesOf[e]) : d = DevicesOf[e][i]
  BY <1>4 DEF Mine, Elements
<1>6. \A i, j \in DOMAIN DevicesOf[e] : i # j => DevicesOf[e][i] # DevicesOf[e][j]
  BY LifecycleAssumption DEF LifecycleAssumption
<1> QED
  BY <1>1, <1>2, <1>4, <1>5, <1>6

\* Different entries have different devices.
LEMMA DevicesAreApart ==
    ASSUME NEW e \in Entries, NEW f \in Entries, e # f
    PROVE  \A d \in Mine(e) : d \notin Mine(f)
BY DevicesAreMine

\* The number of the next attempt is an attempt's, and no session is one.
LEMMA UsersAre ==
    /\ \A e \in Entries, n \in Attempts : <<e, n>> \in Users
    /\ Flows \subseteq Users
    /\ \A e \in Entries, n \in Attempts, f \in Flows : <<e, n>> # f
    /\ MaxAttempts \in Nat /\ MaxGuards \in Nat
    /\ \A n : n \in Attempts <=> n \in 1 .. MaxAttempts
BY LifecycleAssumption DEF LifecycleAssumption, Users, Attempts

-----------------------------------------------------------------------------
(* What a step of an entry leaves alone. *)

EntryStep(e) ==
    \/ StartSetup(e) \/ StartUnload(e)
    \/ SetupSteps(e) \/ UndoSteps(e) \/ UnloadSteps(e)
    \/ SetupFails(e) \/ SetupCancelled(e)
    \/ CancelledAgain(e) \/ RollbackCancelled(e) \/ Wedges(e)

DeviceStep(d) == ProbeStarts(d) \/ ProbeEnds(d) \/ KeepAliveGone(d)

FlowStep(f) == FlowStarts(f) \/ FlowEnds(f)

Untouched(f) ==
    /\ phase'[f] = phase[f] /\ attempt'[f] = attempt[f] /\ pos'[f] = pos[f]
    /\ cleanup'[f] = cleanup[f] /\ undo'[f] = undo[f] /\ transport'[f] = transport[f]
    /\ dropped'[f] = dropped[f] /\ overtaken'[f] = overtaken[f]

\* A step of one entry does nothing to another.
LEMMA OthersUntouched ==
    ASSUME LifecycleTypeOK, NEW e \in Entries, EntryStep(e), NEW f \in Entries, f # e
    PROVE  Untouched(f)
<1> USE DEF LifecycleTypeOK, Untouched, history
<1>1. CASE StartSetup(e)
  BY <1>1 DEF StartSetup
<1>2. CASE StartUnload(e)
  BY <1>2 DEF StartUnload
<1>3. CASE SetupSteps(e)
  <2>1. CASE Identified(e)
    BY <2>1 DEF Identified
  <2>2. CASE IdentifyFails(e)
    BY <2>2 DEF IdentifyFails
  <2>3. CASE ClientClosed(e)
    BY <2>3 DEF ClientClosed, Rollback
  <2>4. CASE Prepared(e)
    BY <2>4 DEF Prepared
  <2>5. CASE KeepAliveStarted(e)
    BY <2>5 DEF KeepAliveStarted
  <2>6. CASE DeviceReady(e)
    BY <2>6 DEF DeviceReady
  <2>7. CASE SetupDone(e)
    BY <2>7 DEF SetupDone
  <2> QED
    BY <1>3, <2>1, <2>2, <2>3, <2>4, <2>5, <2>6, <2>7 DEF SetupSteps
<1>4. CASE UndoSteps(e)
  <2>1. CASE UndoOne(e)
    BY <2>1 DEF UndoOne
  <2>2. CASE UndoDone(e)
    BY <2>2 DEF UndoDone
  <2> QED
    BY <1>4, <2>1, <2>2 DEF UndoSteps
<1>5. CASE UnloadSteps(e)
  BY <1>5 DEF UnloadSteps, StopKeepAlive, Disconnect, Teardown
<1>6. CASE SetupFails(e)
  BY <1>6 DEF SetupFails, Rollback
<1>7. CASE SetupCancelled(e)
  BY <1>7 DEF SetupCancelled, Rollback
<1>8. CASE CancelledAgain(e)
  BY <1>8 DEF CancelledAgain
<1>9. CASE RollbackCancelled(e)
  BY <1>9 DEF RollbackCancelled
<1>10. CASE Wedges(e)
  BY <1>10 DEF Wedges
<1> QED
  BY <1>1, <1>2, <1>3, <1>4, <1>5, <1>6, <1>7, <1>8, <1>9, <1>10 DEF EntryStep

\* Neither the keep-alive tasks nor the discovery sessions touch an entry.
LEMMA TasksTouchNoEntry ==
    ASSUME NEW d, DeviceStep(d) \/ FlowStep(d)
    PROVE  /\ UNCHANGED <<phase, attempt, pos, cleanup, undo, unloadOk, transport, dropped, overtaken>>
           /\ \A f : Untouched(f)
BY DEF DeviceStep, FlowStep, ProbeStarts, ProbeEnds, KeepAliveGone, FlowStarts, FlowEnds,
       history, Untouched

-----------------------------------------------------------------------------
(* Layer 1: types. *)

RegistryTypeOK ==
    /\ guard \in 0 .. made /\ made \in 0 .. MaxGuards
    /\ refs \in Nat /\ (guard = 0 <=> refs = 0)
    /\ held \in [Users -> 0 .. made]
    /\ leaked \in Nat

ObjectsTypeOK ==
    /\ telemetry \in [Devices -> {"none", "armed", "dead"}]
    /\ keepalive \in [Devices -> {NoKeepAlive} \cup KeepAlive]
    /\ dying \in [Devices -> BOOLEAN] /\ view \in [Devices -> {"up", "down"}]

EntriesTypeOK ==
    /\ phase \in [Entries -> SettingUp \cup {"off", "undoing", "loaded", "unloading",
                                             "teardown", "failed"}]
    /\ attempt \in [Entries -> 0 .. MaxAttempts]
    /\ pos \in [Entries -> Nat]
    /\ \A e \in Entries : pos[e] \in 1 .. Len(DevicesOf[e]) + 1
    /\ cleanup \in [Entries -> Seq(Item)]
    /\ undo \in [Entries -> [mode : {"none", "failure", "shielded"}, todo : Seq(Item),
                             stop : BOOLEAN, attempt : 0 .. MaxAttempts]]
    /\ unloadOk \in [Entries -> BOOLEAN]
    /\ transport \in [Entries -> {"closed", "open", "wedged"}]
    /\ dropped \in [Entries -> BOOLEAN] /\ overtaken \in [Entries -> BOOLEAN]

LEMMA TypeParts == LifecycleTypeOK <=> RegistryTypeOK /\ ObjectsTypeOK /\ EntriesTypeOK
BY DEF LifecycleTypeOK, RegistryTypeOK, ObjectsTypeOK, EntriesTypeOK

LEMMA TypePartsPrime == LifecycleTypeOK' <=> RegistryTypeOK' /\ ObjectsTypeOK' /\ EntriesTypeOK'
BY DEF LifecycleTypeOK, RegistryTypeOK, ObjectsTypeOK, EntriesTypeOK

\* Acquiring and releasing keep the registry in its range.
LEMMA AcquireTypes ==
    ASSUME RegistryTypeOK, NEW u \in Users, Acquire(u), leaked' = leaked
    PROVE  RegistryTypeOK' /\ guard' # 0
<1>1. MaxGuards \in Nat
  BY UsersAre
<1>2. /\ made' = IF guard = 0 THEN made + 1 ELSE made
      /\ guard' = IF guard = 0 THEN made' ELSE guard
      /\ refs' = refs + 1 /\ held' = [held EXCEPT ![u] = guard']
      /\ guard # 0 \/ made < MaxGuards
  BY DEF Acquire
<1>3. /\ made' \in 0 .. MaxGuards /\ made <= made' /\ guard' \in 0 .. made' /\ guard' # 0
      /\ refs' \in Nat /\ refs' # 0
  BY <1>1, <1>2 DEF RegistryTypeOK
<1>4. held' \in [Users -> 0 .. made']
  BY <1>1, <1>2, <1>3 DEF RegistryTypeOK
<1> QED
  BY <1>3, <1>4 DEF RegistryTypeOK

LEMMA ReleaseTypes ==
    ASSUME RegistryTypeOK, NEW u \in Users, Release(u), leaked' = leaked
    PROVE  RegistryTypeOK'
<1>1. /\ made' = made /\ held' = [held EXCEPT ![u] = 0]
      /\ refs = 0 => refs' = refs /\ guard' = guard
      /\ refs # 0 => /\ refs' = IF refs - 1 = 0 THEN 0 ELSE refs - 1
                     /\ guard' = IF refs - 1 = 0 THEN 0 ELSE guard
  BY DEF Release, LastRelease
<1>2. refs' \in Nat /\ guard' \in 0 .. made' /\ (guard' = 0 <=> refs' = 0)
  BY <1>1 DEF RegistryTypeOK
<1>3. held' \in [Users -> 0 .. made']
  BY <1>1 DEF RegistryTypeOK
<1> QED
  BY <1>1, <1>2, <1>3 DEF RegistryTypeOK

\* Taking an item off the list of a rollback changes nothing else about it.
LEMMA TodoChanges ==
    ASSUME EntriesTypeOK, NEW e \in Entries, NEW todo \in Seq(Item),
           undo' = [undo EXCEPT ![e].todo = todo]
    PROVE  /\ undo' \in [Entries -> [mode : {"none", "failure", "shielded"}, todo : Seq(Item),
                                     stop : BOOLEAN, attempt : 0 .. MaxAttempts]]
           /\ undo'[e].todo = todo /\ undo'[e].mode = undo[e].mode
           /\ undo'[e].stop = undo[e].stop /\ undo'[e].attempt = undo[e].attempt
BY ZenonT(40) DEF EntriesTypeOK

\* A step of an entry keeps the state of the entries in its range.
LEMMA EntryStepTypes ==
    ASSUME Bookkeeping, NEW e \in Entries, EntryStep(e)
    PROVE  EntriesTypeOK'
<1> DEFINE D == Len(DevicesOf[e])
<1>a. EntriesTypeOK
  BY TypeParts DEF Bookkeeping
<1>b. AttemptOf(e) /\ ListOf(e, cleanup[e]) /\ ListOf(e, undo[e].todo)
  BY DEF Bookkeeping
<1>c. D \in Nat \ {0} /\ \A i \in 1 .. D : DevicesOf[e][i] \in Mine(e)
  BY DevicesAreMine
<1>d. MaxAttempts \in Nat
  BY UsersAre
<1>e. phase[e] \in {"prepare", "load", "optimizers"} => Device(e) \in Mine(e) /\ Device(e) \in Devices
  BY <1>a, <1>b, <1>c, DevicesAreMine DEF AttemptOf, Device, EntriesTypeOK
<1>f. SettingUp = {"identify", "closing", "prepare", "load", "optimizers", "platforms"}
  BY DEF SettingUp
<1> USE <1>a DEF EntriesTypeOK, history
<1>1. CASE StartSetup(e)
  <2>1. RefCleanup \in Seq(Item)
    BY ItemsAreItems DEF RefCleanup, RefItem
  <2>2. attempt'[e] \in 0 .. MaxAttempts
    BY <1>1, <1>d DEF StartSetup
  <2>3. /\ cleanup' = [cleanup EXCEPT ![e] = RefCleanup]
        /\ attempt' = [attempt EXCEPT ![e] = attempt[e] + 1]
        /\ phase' = [phase EXCEPT ![e] = "identify"]
        /\ pos' = [pos EXCEPT ![e] = 1]
        /\ transport' = [transport EXCEPT ![e] = "closed"]
        /\ \A f \in Entries : overtaken'[f] \in BOOLEAN
        /\ overtaken' \in [Entries -> BOOLEAN]
        /\ UNCHANGED <<undo, unloadOk, dropped>>
    BY <1>1 DEF StartSetup
  <2>4. attempt' \in [Entries -> 0 .. MaxAttempts] /\ cleanup' \in [Entries -> Seq(Item)]
    BY <2>1, <2>2, <2>3
  <2>5. pos' \in [Entries -> Nat] /\ \A f \in Entries : pos'[f] \in 1 .. Len(DevicesOf[f]) + 1
    BY <1>c, <2>3, SMTT(20)
  <2> QED
    BY <1>f, <2>3, <2>4, <2>5
<1>2. CASE StartUnload(e)
  BY <1>2, <1>c, SMTT(20) DEF StartUnload
<1>3. CASE SetupSteps(e)
  <2>1. CASE Identified(e)
    BY <1>f, <2>1 DEF Identified
  <2>2. CASE IdentifyFails(e)
    BY <1>f, <2>2 DEF IdentifyFails
  <2>3. CASE ClientClosed(e)
    BY <2>3 DEF ClientClosed, Rollback
  <2>4. CASE Prepared(e)
    <3>1. Append(cleanup[e], TelemetryItem(Device(e))) \in Seq(Item)
      BY <1>e, <2>4, ItemsAreItems DEF Prepared
    <3> QED
      BY <1>f, <2>4, <3>1 DEF Prepared, TelemetryItem
  <2>5. CASE KeepAliveStarted(e)
    <3>1. cleanup[e] \o <<TaskItem(Device(e))>> \in Seq(Item)
      BY <1>e, <2>5, ItemsAreItems DEF KeepAliveStarted
    <3> QED
      BY <1>f, <2>5, <3>1 DEF KeepAliveStarted, KeepAliveCleanup, TaskItem
  <2>6. CASE DeviceReady(e)
    <3>1. pos[e] + 1 \in 1 .. D + 1
      BY <1>b, <1>c, <2>6 DEF DeviceReady, AttemptOf
    <3> QED
      BY <1>f, <2>6, <3>1, SMTT(20) DEF DeviceReady
  <2>7. CASE SetupDone(e)
    BY <2>7 DEF SetupDone
  <2> QED
    BY <1>3, <2>1, <2>2, <2>3, <2>4, <2>5, <2>6, <2>7 DEF SetupSteps
<1>4. CASE UndoSteps(e)
  <2>1. CASE UndoOne(e)
    <3>1. /\ undo[e].todo # << >>
          /\ undo' = [undo EXCEPT ![e].todo = SubSeq(undo[e].todo, 1, Len(undo[e].todo) - 1)]
          /\ transport' = transport \/ transport' = [transport EXCEPT ![e] = "closed"]
          /\ UNCHANGED <<phase, attempt, pos, cleanup, unloadOk, history>>
      BY <2>1 DEF UndoOne
    <3>2. SubSeq(undo[e].todo, 1, Len(undo[e].todo) - 1) \in Seq(Item)
      BY <1>b, <3>1, ListShrinks
    <3>3. undo' \in [Entries -> [mode : {"none", "failure", "shielded"}, todo : Seq(Item),
                                 stop : BOOLEAN, attempt : 0 .. MaxAttempts]]
      <4> DEFINE rest == SubSeq(undo[e].todo, 1, Len(undo[e].todo) - 1)
      <4>1. rest \in Seq(Item) /\ undo' = [undo EXCEPT ![e].todo = rest]
        BY <3>1, <3>2
      <4> HIDE DEF rest, EntriesTypeOK
      <4> QED
        BY <1>a, <4>1, TodoChanges
    <3> QED
      BY <3>1, <3>3
  <2>2. CASE UndoDone(e)
    <3>1. Idle \in [mode : {"none", "failure", "shielded"}, todo : Seq(Item),
                    stop : BOOLEAN, attempt : 0 .. MaxAttempts]
      BY <1>d DEF Idle
    <3> QED
      BY <2>2, <3>1 DEF UndoDone
  <2> QED
    BY <1>4, <2>1, <2>2 DEF UndoSteps
<1>5. CASE UnloadSteps(e)
  <2>1. CASE StopKeepAlive(e)
    BY <1>c, <2>1, SMTT(20) DEF StopKeepAlive
  <2>2. CASE Disconnect(e)
    BY <2>2 DEF Disconnect
  <2>3. CASE Teardown(e)
    BY <2>3 DEF Teardown
  <2> QED
    BY <1>5, <2>1, <2>2, <2>3 DEF UnloadSteps
<1>6. CASE SetupFails(e)
  BY <1>6 DEF SetupFails, Rollback
<1>7. CASE SetupCancelled(e)
  <2>1. Append(cleanup[e], ClientItem) \in Seq(Item)
    BY ItemsAreItems
  <2>2. \E todo \in Seq(Item), stop \in BOOLEAN : Rollback(e, "shielded", todo, stop)
    BY <1>7, <2>1 DEF SetupCancelled, ClientItem
  <2>3. undo' \in [Entries -> [mode : {"none", "failure", "shielded"}, todo : Seq(Item),
                               stop : BOOLEAN, attempt : 0 .. MaxAttempts]]
    BY <2>2 DEF Rollback
  <2>4. UNCHANGED <<attempt, pos, unloadOk, overtaken>> /\ cleanup' \in [Entries -> Seq(Item)]
    BY <2>2 DEF Rollback
  <2>5. phase' = [phase EXCEPT ![e] = "undoing"]
    BY <2>2 DEF Rollback
  <2>6. /\ transport' \in [Entries -> {"closed", "open", "wedged"}]
        /\ dropped' \in [Entries -> BOOLEAN]
    BY <1>7 DEF SetupCancelled
  <2> QED
    BY <2>3, <2>4, <2>5, <2>6
<1>8. CASE CancelledAgain(e)
  BY <1>8 DEF CancelledAgain
<1>9. CASE RollbackCancelled(e)
  <2>1. Idle \in [mode : {"none", "failure", "shielded"}, todo : Seq(Item),
                  stop : BOOLEAN, attempt : 0 .. MaxAttempts]
    BY <1>d DEF Idle
  <2> QED
    BY <1>9, <2>1 DEF RollbackCancelled
<1>10. CASE Wedges(e)
  BY <1>10 DEF Wedges
<1> QED
  BY <1>1, <1>2, <1>3, <1>4, <1>5, <1>6, <1>7, <1>8, <1>9, <1>10 DEF EntryStep

\* The rollback's next item is a device's of the entry, or none's.
LEMMA NextItem ==
    ASSUME Bookkeeping, NEW e \in Entries, undo[e].todo # << >>
    PROVE  LET last == undo[e].todo[Len(undo[e].todo)]
               rest == SubSeq(undo[e].todo, 1, Len(undo[e].todo) - 1)
           IN  /\ last \in Item /\ rest \in Seq(Item) /\ ListOf(e, rest)
               /\ last = RefItem <=> rest = << >>
               /\ Elements(undo[e].todo) = Elements(rest) \cup {last}
               /\ last.what \in {"keepalive", "telemetry"} => last.device \in Mine(e)
<1>1. undo[e].todo \in Seq(Item) /\ ListOf(e, undo[e].todo)
  BY TypeParts DEF Bookkeeping, EntriesTypeOK
<1> QED
  BY <1>1, ListShrinks

\* The current attempt of an entry that is being set up has a number, and the
\* device it is at is one of its own.
LEMMA AtDevice ==
    ASSUME Bookkeeping, NEW e \in Entries, phase[e] \in {"prepare", "load", "optimizers"}
    PROVE  /\ Device(e) \in Mine(e) /\ Device(e) \in Devices /\ attempt[e] \in Attempts
           /\ pos[e] \in 1 .. Len(DevicesOf[e]) /\ Device(e) = DevicesOf[e][pos[e]]
<1>1. EntriesTypeOK /\ AttemptOf(e)
  BY TypeParts DEF Bookkeeping
<1>2. pos[e] \in 1 .. Len(DevicesOf[e])
  BY <1>1, DevicesAreMine DEF EntriesTypeOK, AttemptOf
<1>3. attempt[e] \in Attempts
  BY <1>1, UsersAre DEF EntriesTypeOK, AttemptOf
<1> QED
  BY <1>2, <1>3, DevicesAreMine DEF Device

\* The unload of an entry stops one of its own devices.
LEMMA UnloadsDevice ==
    ASSUME EntriesTypeOK, NEW e \in Entries, StopKeepAlive(e)
    PROVE  /\ Device(e) \in Mine(e) /\ Device(e) \in Devices
           /\ pos[e] \in 1 .. Len(DevicesOf[e]) /\ Device(e) = DevicesOf[e][pos[e]]
<1>1. pos[e] \in 1 .. Len(DevicesOf[e])
  BY DevicesAreMine DEF EntriesTypeOK, StopKeepAlive
<1> QED
  BY <1>1, DevicesAreMine DEF Device

\* Stopping a keep-alive object ends its task, and nothing else.
LEMMA StoppedDoes ==
    ASSUME ObjectsTypeOK, NEW d \in Devices, Stopped(d)
    PROVE  /\ keepalive' \in [Devices -> {NoKeepAlive} \cup KeepAlive]
           /\ dying' \in [Devices -> BOOLEAN]
           /\ \A c \in Devices : c # d => keepalive'[c] = keepalive[c] /\ dying'[c] = dying[c]
           /\ keepalive[d] = NoKeepAlive => keepalive'[d] = NoKeepAlive
           /\ keepalive[d] # NoKeepAlive =>
                 /\ keepalive'[d] # NoKeepAlive /\ keepalive'[d].task = "none"
                 /\ keepalive'[d].owner = keepalive[d].owner
                 /\ keepalive'[d].wired = keepalive[d].wired
                 /\ keepalive'[d].healthy = keepalive[d].healthy
           /\ dying'[d] <=> dying[d] \/ Probing(d)
<1>1. /\ keepalive' = [keepalive EXCEPT ![d] = IF @ = NoKeepAlive THEN @
                                               ELSE [@ EXCEPT !.task = "none"]]
      /\ dying' = [dying EXCEPT ![d] = @ \/ /\ keepalive[d] # NoKeepAlive
                                            /\ keepalive[d].task = "probing"]
  BY DEF Stopped
<1>2. CASE keepalive[d] = NoKeepAlive
  <2>1. dying' = [dying EXCEPT ![d] = dying[d] \/ Probing(d)]
    BY <1>1 DEF Probing
  <2>2. dying'[d] <=> dying[d] \/ Probing(d)
    BY <2>1, Zenon DEF ObjectsTypeOK
  <2> QED
    BY <1>1, <1>2, <2>2 DEF ObjectsTypeOK
<1>3. CASE keepalive[d] # NoKeepAlive
  <2>1. keepalive[d] \in KeepAlive
    BY <1>3 DEF ObjectsTypeOK
  <2>2. [keepalive[d] EXCEPT !.task = "none"] \in KeepAlive
    BY <2>1 DEF KeepAlive
  <2>3. [keepalive[d] EXCEPT !.task = "none"] # NoKeepAlive
    BY <2>2, LifecycleAssumption DEF LifecycleAssumption
  <2>4. keepalive'[d] = [keepalive[d] EXCEPT !.task = "none"]
    BY <1>1, <1>3 DEF ObjectsTypeOK
  <2>5. /\ keepalive' \in [Devices -> {NoKeepAlive} \cup KeepAlive]
        /\ dying' \in [Devices -> BOOLEAN]
        /\ \A c \in Devices : c # d => keepalive'[c] = keepalive[c] /\ dying'[c] = dying[c]
    BY <1>1, <1>3, <2>2 DEF ObjectsTypeOK
  <2>6. dying'[d] <=> dying[d] \/ Probing(d)
    <3>1. dying \in [Devices -> BOOLEAN]
      BY DEF ObjectsTypeOK
    <3>2. dying' = [dying EXCEPT ![d] = dying[d] \/ Probing(d)]
      BY <1>1 DEF Probing
    <3>3. dying'[d] <=> dying[d] \/ Probing(d)
      BY <3>1, <3>2, Zenon
    <3> QED
      BY <3>3
  <2>7. /\ keepalive'[d].task = "none" /\ keepalive'[d].owner = keepalive[d].owner
        /\ keepalive'[d].wired = keepalive[d].wired
        /\ keepalive'[d].healthy = keepalive[d].healthy
    BY <2>1, <2>4 DEF KeepAlive
  <2>8. keepalive'[d] # NoKeepAlive
    BY <2>3, <2>4
  <2> QED
    BY <1>3, <2>5, <2>6, <2>7, <2>8, Zenon
<1> QED
  BY <1>2, <1>3

LEMMA EntryStepObjects ==
    ASSUME Bookkeeping, NEW e \in Entries, EntryStep(e)
    PROVE  ObjectsTypeOK'
<1>a. ObjectsTypeOK
  BY TypeParts DEF Bookkeeping
<1> USE <1>a DEF ObjectsTypeOK, objects
<1>1. CASE StartSetup(e)
  BY <1>1 DEF StartSetup
<1>2. CASE StartUnload(e)
  BY <1>2 DEF StartUnload
<1>3. CASE SetupSteps(e)
  <2>1. CASE Identified(e)
    BY <2>1 DEF Identified
  <2>2. CASE IdentifyFails(e)
    BY <2>2 DEF IdentifyFails
  <2>3. CASE ClientClosed(e)
    BY <2>3 DEF ClientClosed, Rollback
  <2>4. CASE Prepared(e)
    BY <2>4 DEF Prepared
  <2>5. CASE KeepAliveStarted(e)
    <3>1. Device(e) \in Devices /\ attempt[e] \in Attempts
      BY <2>5, AtDevice DEF KeepAliveStarted
    <3>2. Running(Registered(Device(e), attempt[e])) \in KeepAlive
      BY <3>1 DEF Running, Registered, KeepAlive
    <3> QED
      BY <2>5, <3>1, <3>2 DEF KeepAliveStarted
  <2>6. CASE DeviceReady(e)
    <3>1. Device(e) \in Devices /\ attempt[e] \in Attempts
      BY <2>6, AtDevice DEF DeviceReady
    <3> QED
      BY <2>6, <3>1 DEF DeviceReady, KeepAlive
  <2>7. CASE SetupDone(e)
    BY <2>7 DEF SetupDone
  <2> QED
    BY <1>3, <2>1, <2>2, <2>3, <2>4, <2>5, <2>6, <2>7 DEF SetupSteps
<1>4. CASE UndoSteps(e)
  <2>1. CASE UndoOne(e)
    <3> DEFINE last == undo[e].todo[Len(undo[e].todo)]
    <3>1. undo[e].todo # << >>
      BY <2>1 DEF UndoOne
    <3>2. last \in Item
      BY <3>1, NextItem
    <3>3. CASE UNCHANGED objects
      BY <3>3
    <3>4. CASE /\ telemetry' = [telemetry EXCEPT ![last.device] = "none"]
               /\ UNCHANGED <<keepalive, dying, view>>
      BY <3>4
    <3>5. CASE last.what = "keepalive" /\ Stopped(last.device) /\ UNCHANGED <<telemetry, view>>
      <4> HIDE DEF last, ObjectsTypeOK
      <4>1. last.device \in Devices
        BY <3>2, <3>5, ItemKinds
      <4> QED
        BY <3>5, <4>1, StoppedDoes DEF ObjectsTypeOK
    <3> QED
      BY <2>1, <3>3, <3>4, <3>5 DEF UndoOne, AfterRollback
  <2>2. CASE UndoDone(e)
    BY <2>2 DEF UndoDone
  <2> QED
    BY <1>4, <2>1, <2>2 DEF UndoSteps
<1>5. CASE UnloadSteps(e)
  <2>1. CASE StopKeepAlive(e)
    <3>1. Device(e) \in Devices
      BY <2>1, TypeParts, UnloadsDevice DEF Bookkeeping
    <3> QED
      BY <2>1, <3>1, StoppedDoes DEF StopKeepAlive
  <2>2. CASE Disconnect(e)
    BY <2>2 DEF Disconnect
  <2>3. CASE Teardown(e)
    BY <2>3 DEF Teardown
  <2> QED
    BY <1>5, <2>1, <2>2, <2>3 DEF UnloadSteps
<1>6. CASE SetupFails(e)
  BY <1>6 DEF SetupFails, Rollback
<1>7. CASE SetupCancelled(e)
  BY <1>7 DEF SetupCancelled, Rollback
<1>8. CASE CancelledAgain(e)
  BY <1>8 DEF CancelledAgain
<1>9. CASE RollbackCancelled(e)
  BY <1>9 DEF RollbackCancelled
<1>10. CASE Wedges(e)
  BY <1>10 DEF Wedges
<1> QED
  BY <1>1, <1>2, <1>3, <1>4, <1>5, <1>6, <1>7, <1>8, <1>9, <1>10 DEF EntryStep

LEMMA DeviceStepObjects ==
    ASSUME ObjectsTypeOK, NEW d \in Devices, DeviceStep(d)
    PROVE  ObjectsTypeOK'
<1> USE DEF ObjectsTypeOK
<1>1. CASE ProbeStarts(d)
  BY <1>1 DEF ProbeStarts, KeepAlive
<1>2. CASE ProbeEnds(d)
  BY <1>2 DEF ProbeEnds, Told, Restored, KeepAlive
<1>3. CASE KeepAliveGone(d)
  BY <1>3 DEF KeepAliveGone
<1> QED
  BY <1>1, <1>2, <1>3 DEF DeviceStep

-----------------------------------------------------------------------------
(* What the steps of an entry do to it. *)

\* The device has answered: the connection is open.
LEMMA IdentifiedDoes ==
    ASSUME EntriesTypeOK, NEW e \in Entries, Identified(e)
    PROVE  /\ phase[e] = "identify"
           /\ phase'[e] = "prepare"
           /\ transport'[e] = "open"
           /\ attempt'[e] = attempt[e] /\ pos'[e] = pos[e] /\ cleanup'[e] = cleanup[e]
           /\ undo'[e] = undo[e] /\ dropped'[e] = dropped[e] /\ overtaken'[e] = overtaken[e]
           /\ UNCHANGED <<registry, leaked, objects>>
BY DEF EntriesTypeOK, history, Identified

\* No answer: the client is closed next.
LEMMA IdentifyFailsDoes ==
    ASSUME EntriesTypeOK, NEW e \in Entries, IdentifyFails(e)
    PROVE  /\ phase[e] = "identify"
           /\ transport'[e] \in {"closed", "open"}
           /\ phase'[e] = "closing"
           /\ attempt'[e] = attempt[e] /\ pos'[e] = pos[e] /\ cleanup'[e] = cleanup[e]
           /\ undo'[e] = undo[e] /\ dropped'[e] = dropped[e]
           /\ overtaken'[e] = overtaken[e]
           /\ UNCHANGED <<registry, leaked, objects>>
BY DEF EntriesTypeOK, history, IdentifyFails

\* The rollback of an attempt that never identified its device.
LEMMA ClientClosedDoes ==
    ASSUME EntriesTypeOK, NEW e \in Entries, ClientClosed(e)
    PROVE  /\ phase[e] = "closing" /\ ~Undoing(e)
           /\ phase'[e] = "undoing"
           /\ cleanup'[e] = << >>
           /\ undo'[e].mode = "failure" /\ undo'[e].todo = cleanup[e]
           /\ ~undo'[e].stop /\ undo'[e].attempt = attempt[e]
           /\ transport'[e] = "closed"
           /\ attempt'[e] = attempt[e] /\ pos'[e] = pos[e] /\ dropped'[e] = dropped[e]
           /\ overtaken'[e] = overtaken[e]
           /\ UNCHANGED <<registry, leaked, objects>>
BY DEF EntriesTypeOK, history, ClientClosed, Rollback, Undoing

\* The cleanups of a successful attempt are forgotten.
LEMMA SetupDoneDoes ==
    ASSUME EntriesTypeOK, NEW e \in Entries, SetupDone(e)
    PROVE  /\ phase[e] = "platforms"
           /\ phase'[e] = "loaded"
           /\ cleanup'[e] = << >>
           /\ attempt'[e] = attempt[e] /\ pos'[e] = pos[e] /\ undo'[e] = undo[e]
           /\ transport'[e] = transport[e] /\ dropped'[e] = dropped[e] /\ overtaken'[e] = overtaken[e]
           /\ UNCHANGED <<registry, leaked, objects>>
BY DEF EntriesTypeOK, history, SetupDone

\* The rollback of an attempt that failed.
LEMMA SetupFailsDoes ==
    ASSUME EntriesTypeOK, NEW e \in Entries, SetupFails(e)
    PROVE  /\ phase[e] \in {"prepare", "load", "platforms"} /\ ~Undoing(e)
           /\ phase'[e] = "undoing"
           /\ cleanup'[e] = << >>
           /\ undo'[e].mode = "failure" /\ undo'[e].todo = cleanup[e]
           /\ undo'[e].stop /\ undo'[e].attempt = attempt[e]
           /\ attempt'[e] = attempt[e] /\ pos'[e] = pos[e] /\ transport'[e] = transport[e]
           /\ dropped'[e] = dropped[e] /\ overtaken'[e] = overtaken[e]
           /\ UNCHANGED <<registry, leaked, objects>>
BY DEF EntriesTypeOK, history, SetupFails, Rollback, Undoing

\* The rollback goes on by itself.
LEMMA CancelledAgainDoes ==
    ASSUME EntriesTypeOK, NEW e \in Entries, CancelledAgain(e)
    PROVE  /\ phase[e] = "undoing"
           /\ phase'[e] = "off"
           /\ attempt'[e] = attempt[e] /\ pos'[e] = pos[e] /\ cleanup'[e] = cleanup[e]
           /\ undo'[e] = undo[e] /\ transport'[e] = transport[e] /\ dropped'[e] = dropped[e]
           /\ overtaken'[e] = overtaken[e]
           /\ UNCHANGED <<registry, leaked, objects>>
BY DEF EntriesTypeOK, history, CancelledAgain

\* An unload starts at the first device.
LEMMA StartUnloadDoes ==
    ASSUME EntriesTypeOK, NEW e \in Entries, StartUnload(e)
    PROVE  /\ phase[e] = "loaded"
           /\ phase'[e] = "unloading"
           /\ pos'[e] = 1
           /\ attempt'[e] = attempt[e] /\ cleanup'[e] = cleanup[e] /\ undo'[e] = undo[e]
           /\ transport'[e] = transport[e] /\ dropped'[e] = dropped[e] /\ overtaken'[e] = overtaken[e]
           /\ UNCHANGED <<registry, leaked, objects>>
BY DEF EntriesTypeOK, history, StartUnload

\* The unload closes the connection once every device was stopped.
LEMMA DisconnectDoes ==
    ASSUME EntriesTypeOK, NEW e \in Entries, Disconnect(e)
    PROVE  /\ phase[e] = "unloading" /\ pos[e] > Len(DevicesOf[e]) /\ Awaited(e)
           /\ phase'[e] = "teardown"
           /\ transport'[e] = "closed"
           /\ attempt'[e] = attempt[e] /\ pos'[e] = pos[e] /\ cleanup'[e] = cleanup[e]
           /\ undo'[e] = undo[e] /\ dropped'[e] = dropped[e] /\ overtaken'[e] = overtaken[e]
           /\ UNCHANGED <<registry, leaked, objects>>
BY DEF EntriesTypeOK, history, Disconnect

\* The connection stops answering.
LEMMA WedgesDoes ==
    ASSUME EntriesTypeOK, NEW e \in Entries, Wedges(e)
    PROVE  /\ transport[e] = "open"
           /\ transport'[e] = "wedged"
           /\ phase'[e] = phase[e] /\ attempt'[e] = attempt[e] /\ pos'[e] = pos[e]
           /\ cleanup'[e] = cleanup[e] /\ undo'[e] = undo[e] /\ dropped'[e] = dropped[e]
           /\ overtaken'[e] = overtaken[e]
           /\ UNCHANGED <<registry, leaked, objects>>
BY DEF EntriesTypeOK, history, Wedges

\* A device gets its telemetry and its coordinators.
LEMMA PreparedDoes ==
    ASSUME EntriesTypeOK, NEW e \in Entries, Prepared(e)
    PROVE  /\ phase[e] = "prepare"
           /\ telemetry' = [telemetry EXCEPT ![Device(e)] = IF @ = "none" THEN "armed" ELSE @]
           /\ view' = [view EXCEPT ![Device(e)] = "up"]
           /\ UNCHANGED <<keepalive, dying>>
           /\ phase'[e] = "load"
           /\ cleanup'[e] = Append(cleanup[e], TelemetryItem(Device(e)))
           /\ attempt'[e] = attempt[e] /\ pos'[e] = pos[e] /\ undo'[e] = undo[e]
           /\ transport'[e] = transport[e] /\ dropped'[e] = dropped[e] /\ overtaken'[e] = overtaken[e]
           /\ UNCHANGED <<registry, leaked>>
BY DEF EntriesTypeOK, history, Prepared, TelemetryItem

\* A device gets its keep-alive.
LEMMA KeepAliveStartedDoes ==
    ASSUME EntriesTypeOK, NEW e \in Entries, KeepAliveStarted(e)
    PROVE  /\ phase[e] = "load"
           /\ keepalive' = [keepalive EXCEPT ![Device(e)] =
                               Running(Registered(Device(e), attempt[e]))]
           /\ UNCHANGED <<telemetry, dying, view>>
           /\ phase'[e] = "optimizers"
           /\ cleanup'[e] = cleanup[e] \o <<TaskItem(Device(e))>>
           /\ attempt'[e] = attempt[e] /\ pos'[e] = pos[e] /\ undo'[e] = undo[e]
           /\ transport'[e] = transport[e] /\ dropped'[e] = dropped[e] /\ overtaken'[e] = overtaken[e]
           /\ UNCHANGED <<registry, leaked>>
BY DEF EntriesTypeOK, history, KeepAliveStarted, KeepAliveCleanup, TaskItem

\* The next device, or the platforms after the last one.
LEMMA DeviceReadyDoes ==
    ASSUME EntriesTypeOK, NEW e \in Entries, DeviceReady(e)
    PROVE  /\ phase[e] = "optimizers"
           /\ keepalive' = [keepalive EXCEPT ![Device(e)] =
                               IF @ = NoKeepAlive THEN @ ELSE [@ EXCEPT !.wired = attempt[e]]]
           /\ UNCHANGED <<telemetry, dying, view>>
           /\ phase'[e] = IF pos[e] < Len(DevicesOf[e]) THEN "prepare" ELSE "platforms"
           /\ pos'[e] = pos[e] + 1
           /\ attempt'[e] = attempt[e] /\ cleanup'[e] = cleanup[e] /\ undo'[e] = undo[e]
           /\ transport'[e] = transport[e] /\ dropped'[e] = dropped[e] /\ overtaken'[e] = overtaken[e]
           /\ UNCHANGED <<registry, leaked>>
BY DEF EntriesTypeOK, history, DeviceReady

\* The unload stops one device after the other.
LEMMA StopKeepAliveDoes ==
    ASSUME EntriesTypeOK, NEW e \in Entries, StopKeepAlive(e)
    PROVE  /\ phase[e] = "unloading" /\ pos[e] <= Len(DevicesOf[e])
           /\ Stopped(Device(e))
           /\ UNCHANGED <<telemetry, view>>
           /\ pos'[e] = pos[e] + 1
           /\ phase'[e] = phase[e] /\ attempt'[e] = attempt[e] /\ cleanup'[e] = cleanup[e]
           /\ undo'[e] = undo[e] /\ transport'[e] = transport[e] /\ dropped'[e] = dropped[e]
           /\ overtaken'[e] = overtaken[e]
           /\ UNCHANGED <<registry, leaked>>
BY DEF EntriesTypeOK, history, StopKeepAlive

\* The rollback of a failure is cut short, with the reference it still held.
LEMMA RollbackCancelledDoes ==
    ASSUME EntriesTypeOK, NEW e \in Entries, RollbackCancelled(e)
    PROVE  /\ phase[e] = "undoing"
           /\ dropped'[e]
           /\ UNCHANGED <<guard, made, refs>>
           /\ held' = [held EXCEPT ![Self(e)] = 0]
           /\ leaked' = IF held[Self(e)] # 0 THEN leaked + 1 ELSE leaked
           /\ phase'[e] = "off"
           /\ undo'[e] = Idle
           /\ attempt'[e] = attempt[e] /\ pos'[e] = pos[e] /\ cleanup'[e] = cleanup[e]
           /\ transport'[e] = transport[e] /\ overtaken'[e] = overtaken[e]
           /\ UNCHANGED <<objects>>
BY DEF EntriesTypeOK, history, RollbackCancelled

\* A rollback that is over closes the connection of its own attempt.
LEMMA UndoDoneDoes ==
    ASSUME EntriesTypeOK, NEW e \in Entries, UndoDone(e)
    PROVE  /\ Undoing(e) /\ undo[e].todo = << >> /\ Awaited(e)
           /\ phase'[e] = IF Latest(e) /\ phase[e] = "undoing" THEN "off" ELSE phase[e]
           /\ transport'[e] = IF Latest(e) /\ undo[e].stop THEN "closed" ELSE transport[e]
           /\ undo'[e] = Idle
           /\ attempt'[e] = attempt[e] /\ pos'[e] = pos[e]
           /\ cleanup'[e] = cleanup[e] /\ dropped'[e] = dropped[e]
           /\ overtaken'[e] = overtaken[e]
           /\ UNCHANGED <<registry, leaked, objects>>
BY DEF EntriesTypeOK, history, UndoDone, Undoing, Latest

\* An attempt starts with a reference of its own.
LEMMA StartSetupDoes ==
    ASSUME EntriesTypeOK, NEW e \in Entries, StartSetup(e)
    PROVE  /\ phase[e] = "off" /\ phase'[e] = "identify"
           /\ attempt'[e] = attempt[e] + 1 /\ attempt[e] + 1 \in Attempts
           /\ Acquire(<<e, attempt[e] + 1>>)
           /\ pos'[e] = 1 /\ cleanup'[e] = RefCleanup /\ transport'[e] = "closed"
           /\ overtaken'[e] <=> overtaken[e] \/ Undoing(e)
           /\ undo'[e] = undo[e] /\ dropped'[e] = dropped[e]
           /\ UNCHANGED <<leaked, objects>>
<1>1. overtaken'[e] <=> overtaken[e] \/ Undoing(e)
  BY Zenon DEF StartSetup, EntriesTypeOK, Undoing
<1>2. attempt[e] + 1 \in Attempts
  <2>1. attempt[e] \in 0 .. MaxAttempts /\ attempt[e] < MaxAttempts /\ MaxAttempts \in Nat
    BY UsersAre DEF StartSetup, EntriesTypeOK
  <2> QED
    BY <2>1 DEF Attempts
<1> QED
  BY <1>1, <1>2 DEF StartSetup, EntriesTypeOK

\* A cancelled attempt is rolled back; what is rolled back depends on where
\* it was.
LEMMA SetupCancelledDoes ==
    ASSUME EntriesTypeOK, NEW e \in Entries, SetupCancelled(e)
    PROVE  /\ phase[e] \in SettingUp /\ ~Undoing(e)
           /\ phase'[e] = "undoing" /\ cleanup'[e] = << >>
           /\ undo'[e] \in [mode : {"none", "failure", "shielded"}, todo : Seq(Item),
                            stop : BOOLEAN, attempt : 0 .. MaxAttempts]
           /\ undo'[e].mode = "shielded" /\ undo'[e].attempt = attempt[e]
           /\ \/ /\ phase[e] = "identify" /\ undo'[e].todo = Append(cleanup[e], ClientItem)
                 /\ ~undo'[e].stop /\ transport'[e] \in {"closed", "open"}
                 /\ dropped'[e] = dropped[e]
              \/ /\ phase[e] = "closing" /\ undo'[e].todo = cleanup[e]
                 /\ ~undo'[e].stop /\ transport'[e] = transport[e] /\ dropped'[e]
              \/ /\ phase[e] \in {"prepare", "load", "optimizers", "platforms"}
                 /\ undo'[e].todo = cleanup[e] /\ undo'[e].stop
                 /\ transport'[e] = transport[e] /\ dropped'[e] = dropped[e]
           /\ attempt'[e] = attempt[e] /\ pos'[e] = pos[e] /\ overtaken'[e] = overtaken[e]
           /\ UNCHANGED <<registry, leaked, objects>>
<1>1. PICK todo, stop :
         /\ Rollback(e, "shielded", todo, stop)
         /\ \/ /\ phase[e] = "identify" /\ todo = Append(cleanup[e], ClientItem)
               /\ stop = FALSE /\ transport'[e] \in {"closed", "open"} /\ dropped'[e] = dropped[e]
            \/ /\ phase[e] = "closing" /\ todo = cleanup[e]
               /\ stop = FALSE /\ transport'[e] = transport[e] /\ dropped'[e] = TRUE
            \/ /\ phase[e] \in {"prepare", "load", "optimizers", "platforms"}
               /\ todo = cleanup[e] /\ stop = TRUE
               /\ transport'[e] = transport[e] /\ dropped'[e] = dropped[e]
  BY DEF SetupCancelled, EntriesTypeOK, ClientItem
<1>2. /\ undo' = [undo EXCEPT ![e] = [mode |-> "shielded", todo |-> todo, stop |-> stop,
                                      attempt |-> attempt[e]]]
      /\ ~Undoing(e) /\ phase'[e] = "undoing" /\ cleanup'[e] = << >>
      /\ attempt'[e] = attempt[e] /\ pos'[e] = pos[e] /\ overtaken'[e] = overtaken[e]
      /\ UNCHANGED <<registry, leaked, objects>>
  BY <1>1 DEF Rollback, Undoing, EntriesTypeOK
<1>3. undo'[e] = [mode |-> "shielded", todo |-> todo, stop |-> stop, attempt |-> attempt[e]]
  BY <1>2 DEF EntriesTypeOK
<1>4. todo \in Seq(Item) /\ stop \in BOOLEAN /\ phase[e] \in SettingUp
  <2>1. cleanup[e] \in Seq(Item)
    BY DEF EntriesTypeOK
  <2>2. Append(cleanup[e], ClientItem) \in Seq(Item)
    BY <2>1, ItemsAreItems
  <2> QED
    BY <1>1, <2>1, <2>2 DEF SettingUp
<1>5. undo'[e] \in [mode : {"none", "failure", "shielded"}, todo : Seq(Item),
                    stop : BOOLEAN, attempt : 0 .. MaxAttempts]
  BY <1>3, <1>4 DEF EntriesTypeOK
<1>6. /\ undo'[e].mode = "shielded" /\ undo'[e].attempt = attempt[e] /\ undo'[e].todo = todo
      /\ undo'[e].stop = stop
  BY <1>3
<1> QED
  BY <1>1, <1>2, <1>4, <1>5, <1>6

\* One item of the rollback, by kind.
LEMMA UndoOneDoes ==
    ASSUME Bookkeeping, NEW e \in Entries, UndoOne(e)
    PROVE  LET last == undo[e].todo[Len(undo[e].todo)]
               rest == SubSeq(undo[e].todo, 1, Len(undo[e].todo) - 1)
           IN  /\ Undoing(e) /\ undo[e].todo # << >> /\ Awaited(e)
               /\ undo'[e].todo = rest /\ undo'[e].mode = undo[e].mode
               /\ undo'[e].stop = undo[e].stop /\ undo'[e].attempt = undo[e].attempt
               /\ phase'[e] = phase[e] /\ attempt'[e] = attempt[e] /\ pos'[e] = pos[e]
               /\ cleanup'[e] = cleanup[e] /\ dropped'[e] = dropped[e]
               /\ overtaken'[e] = overtaken[e]
               /\ UNCHANGED leaked
               /\ \/ /\ last = RefItem /\ Release(<<e, undo[e].attempt>>)
                     /\ transport'[e] = transport[e] /\ UNCHANGED objects
                  \/ /\ last = ClientItem
                     /\ transport'[e] = IF Latest(e) THEN "closed" ELSE transport[e]
                     /\ UNCHANGED <<registry, objects>>
                  \/ \E d \in Mine(e) :
                        /\ last = TelemetryItem(d)
                        /\ telemetry' = [telemetry EXCEPT ![d] = "none"]
                        /\ transport'[e] = transport[e]
                        /\ UNCHANGED <<registry, keepalive, dying, view>>
                  \/ \E d \in Mine(e) :
                        /\ last = TaskItem(d) /\ Stopped(d)
                        /\ transport'[e] = transport[e]
                        /\ UNCHANGED <<registry, telemetry, view>>
<1> DEFINE last == undo[e].todo[Len(undo[e].todo)]
           rest == SubSeq(undo[e].todo, 1, Len(undo[e].todo) - 1)
<1>a. EntriesTypeOK
  BY TypeParts DEF Bookkeeping
<1>1. /\ undo[e].mode # "none" /\ undo[e].todo # << >> /\ Awaited(e)
      /\ undo' = [undo EXCEPT ![e].todo = rest]
      /\ UNCHANGED <<phase, attempt, pos, cleanup, unloadOk, history>>
  BY DEF UndoOne
<1>2. /\ last \in Item /\ rest \in Seq(Item)
      /\ last.what \in {"keepalive", "telemetry"} => last.device \in Mine(e)
  BY <1>1, NextItem
<1>3. /\ last.what = "ref" => last = RefItem
      /\ last.what = "client" => last = ClientItem
      /\ last.what = "telemetry" => last = TelemetryItem(last.device) /\ last.device \in Mine(e)
      /\ last.what = "keepalive" => last = TaskItem(last.device) /\ last.device \in Mine(e)
  <2> HIDE DEF last
  <2> QED
    BY <1>2, ItemKinds
<1>4. \/ /\ last.what = "ref" /\ Release(<<e, undo[e].attempt>>)
         /\ UNCHANGED <<transport, objects>>
      \/ /\ last.what = "client"
         /\ transport' = IF attempt[e] = undo[e].attempt
                         THEN [transport EXCEPT ![e] = "closed"] ELSE transport
         /\ UNCHANGED <<registry, objects>>
      \/ /\ last.what = "telemetry"
         /\ telemetry' = [telemetry EXCEPT ![last.device] = "none"]
         /\ UNCHANGED <<registry, transport, keepalive, dying, view>>
      \/ /\ last.what = "keepalive" /\ Stopped(last.device)
         /\ UNCHANGED <<registry, transport, telemetry, view>>
  BY DEF UndoOne, AfterRollback
<1>5. /\ undo'[e].todo = rest /\ undo'[e].mode = undo[e].mode
      /\ undo'[e].stop = undo[e].stop /\ undo'[e].attempt = undo[e].attempt
  <2> HIDE DEF rest
  <2> QED
    BY <1>a, <1>1, <1>2, TodoChanges
<1>6. Latest(e) <=> undo[e].attempt = attempt[e]
  BY <1>1 DEF Latest, Undoing
<1>7. transport' = [transport EXCEPT ![e] = "closed"] => transport'[e] = "closed"
  BY <1>a DEF EntriesTypeOK
<1> HIDE DEF last, rest
<1>8. \/ /\ last = RefItem /\ Release(<<e, undo[e].attempt>>)
         /\ transport'[e] = transport[e] /\ UNCHANGED objects
      \/ /\ last = ClientItem
         /\ transport'[e] = IF Latest(e) THEN "closed" ELSE transport[e]
         /\ UNCHANGED <<registry, objects>>
      \/ \E d \in Mine(e) :
            /\ last = TelemetryItem(d)
            /\ telemetry' = [telemetry EXCEPT ![d] = "none"]
            /\ transport'[e] = transport[e]
            /\ UNCHANGED <<registry, keepalive, dying, view>>
      \/ \E d \in Mine(e) :
            /\ last = TaskItem(d) /\ Stopped(d)
            /\ transport'[e] = transport[e]
            /\ UNCHANGED <<registry, telemetry, view>>
  BY <1>3, <1>4, <1>6, <1>7
<1> QED
  BY <1>1, <1>5, <1>8 DEF last, rest, Undoing, history

\* The unload forgets every object of the entry and gives its reference back.
LEMMA TeardownDoes ==
    ASSUME EntriesTypeOK, ObjectsTypeOK, NEW e \in Entries, Teardown(e)
    PROVE  /\ phase[e] = "teardown" /\ phase'[e] \in {"off", "failed"}
           /\ Release(Self(e))
           /\ \A d \in Mine(e) : telemetry'[d] = "none" /\ keepalive'[d] = NoKeepAlive
           /\ \A d \in Devices \ Mine(e) : /\ telemetry'[d] = telemetry[d]
                                           /\ keepalive'[d] = keepalive[d]
           /\ ~dropped'[e] /\ (overtaken'[e] <=> Undoing(e))
           /\ attempt'[e] = attempt[e] /\ pos'[e] = pos[e] /\ cleanup'[e] = cleanup[e]
           /\ undo'[e] = undo[e] /\ transport'[e] = transport[e]
           /\ UNCHANGED <<leaked, dying, view>>
<1>1. overtaken'[e] <=> Undoing(e)
  BY Zenon DEF Teardown, EntriesTypeOK, Undoing
<1>2. /\ \A d \in Mine(e) : telemetry'[d] = "none" /\ keepalive'[d] = NoKeepAlive
      /\ \A d \in Devices \ Mine(e) : /\ telemetry'[d] = telemetry[d]
                                      /\ keepalive'[d] = keepalive[d]
  BY DevicesAreMine DEF Teardown, Mine
<1> QED
  BY <1>1, <1>2 DEF Teardown, EntriesTypeOK

\* A step of an entry keeps its own books.
LEMMA EntryStepBooks ==
    ASSUME Bookkeeping, NEW e \in Entries, EntryStep(e)
    PROVE  ListOf(e, cleanup'[e]) /\ ListOf(e, undo'[e].todo) /\ RollbackOf(e)' /\ AttemptOf(e)'
<1>a. EntriesTypeOK
  BY TypeParts DEF Bookkeeping
<1>b. AttemptOf(e) /\ RollbackOf(e) /\ ListOf(e, cleanup[e]) /\ ListOf(e, undo[e].todo)
  BY DEF Bookkeeping
<1>c. /\ attempt[e] \in Nat /\ undo[e].attempt \in Nat /\ pos[e] \in 1 .. Len(DevicesOf[e]) + 1
      /\ Len(DevicesOf[e]) \in Nat \ {0} /\ cleanup[e] \in Seq(Item)
  BY <1>a, UsersAre, DevicesAreMine DEF EntriesTypeOK
<1>d. ListOf(e, << >>) /\ Idle.mode = "none" /\ Idle.todo = << >>
  BY DEF ListOf, Idle
<1>f. SettingUp = {"identify", "closing", "prepare", "load", "optimizers", "platforms"}
  BY DEF SettingUp
<1>g. ListOf(e, RefCleanup) /\ RefCleanup # << >> /\ RefCleanup \in Seq(Item)
  BY ItemsAreItems DEF ListOf, RefCleanup, RefItem
<1>h. phase[e] \in {"prepare", "load", "optimizers"} =>
        /\ Device(e) \in Mine(e) /\ Device(e) \in Devices
        /\ pos[e] \in 1 .. Len(DevicesOf[e])
  BY AtDevice
<1> USE DEF AttemptOf, RollbackOf, Undoing, Latest
<1>1. CASE StartSetup(e)
  <2>1. /\ phase'[e] = "identify" /\ attempt'[e] = attempt[e] + 1 /\ pos'[e] = 1
        /\ cleanup'[e] = RefCleanup /\ undo'[e] = undo[e]
        /\ overtaken'[e] <=> overtaken[e] \/ Undoing(e)
    BY <1>1, <1>a, StartSetupDoes
  <2>2. attempt'[e] >= 1 /\ \A n \in 1 .. attempt[e] : n \in 1 .. attempt'[e] /\ n # attempt'[e]
    BY <2>1, <1>c
  <2>3. RollbackOf(e)'
    BY <2>1, <2>2, <1>b
  <2>4. AttemptOf(e)'
    BY <2>1, <2>2, <1>f, <1>g
  <2> QED
    BY <2>1, <2>3, <2>4, <1>b, <1>g
<1>2. CASE StartUnload(e)
  BY <1>2, <1>a, <1>b, <1>c, <1>d, <1>f, StartUnloadDoes
<1>3. CASE SetupSteps(e)
  <2>1. CASE Identified(e)
    BY <2>1, <1>a, <1>b, <1>c, <1>f, IdentifiedDoes
  <2>2. CASE IdentifyFails(e)
    BY <2>2, <1>a, <1>b, <1>c, <1>f, IdentifyFailsDoes
  <2>3. CASE ClientClosed(e)
    BY <2>3, <1>a, <1>b, <1>c, <1>d, <1>f, ClientClosedDoes
  <2>4. CASE Prepared(e)
    <3>1. /\ ListOf(e, Append(cleanup[e], TelemetryItem(Device(e))))
          /\ Append(cleanup[e], TelemetryItem(Device(e))) # << >>
      <4>1. phase[e] = "prepare" /\ cleanup[e] # << >>
        BY <2>4, <1>a, <1>b, <1>f, PreparedDoes
      <4>2. /\ TelemetryItem(Device(e)) \in Item /\ TelemetryItem(Device(e)) # RefItem
            /\ TelemetryItem(Device(e)).device \in Mine(e)
        BY <4>1, <1>h, ItemsAreItems
      <4> QED
        BY <4>1, <4>2, <1>b, <1>c, ListGrows
    <3> QED
      BY <2>4, <3>1, <1>a, <1>b, <1>c, <1>f, <1>h, PreparedDoes
  <2>5. CASE KeepAliveStarted(e)
    <3>1. /\ ListOf(e, cleanup[e] \o <<TaskItem(Device(e))>>)
          /\ cleanup[e] \o <<TaskItem(Device(e))>> # << >>
      <4>1. phase[e] = "load" /\ cleanup[e] # << >>
        BY <2>5, <1>a, <1>b, <1>f, KeepAliveStartedDoes
      <4>2. /\ TaskItem(Device(e)) \in Item /\ TaskItem(Device(e)) # RefItem
            /\ TaskItem(Device(e)).device \in Mine(e)
        BY <4>1, <1>h, ItemsAreItems
      <4> DEFINE x == TaskItem(Device(e))
      <4> HIDE DEF x
      <4>3. /\ cleanup[e] \o <<x>> = Append(cleanup[e], x)
            /\ ListOf(e, Append(cleanup[e], x)) /\ Append(cleanup[e], x) # << >>
        BY <4>1, <4>2, <1>b, <1>c, ListGrows DEF x
      <4> QED
        BY <4>3 DEF x
    <3> QED
      BY <2>5, <3>1, <1>a, <1>b, <1>c, <1>f, <1>h, KeepAliveStartedDoes
  <2>6. CASE DeviceReady(e)
    BY <2>6, <1>a, <1>b, <1>c, <1>f, <1>h, DeviceReadyDoes
  <2>7. CASE SetupDone(e)
    BY <2>7, <1>a, <1>b, <1>c, <1>d, <1>f, SetupDoneDoes
  <2> QED
    BY <1>3, <2>1, <2>2, <2>3, <2>4, <2>5, <2>6, <2>7 DEF SetupSteps
<1>4. CASE UndoSteps(e)
  <2>1. CASE UndoOne(e)
    <3> DEFINE rest == SubSeq(undo[e].todo, 1, Len(undo[e].todo) - 1)
    <3>1. /\ undo'[e].todo = rest /\ undo'[e].mode = undo[e].mode
          /\ undo'[e].stop = undo[e].stop /\ undo'[e].attempt = undo[e].attempt
          /\ phase'[e] = phase[e] /\ attempt'[e] = attempt[e] /\ pos'[e] = pos[e]
          /\ cleanup'[e] = cleanup[e] /\ overtaken'[e] = overtaken[e]
          /\ Undoing(e) /\ undo[e].todo # << >>
      BY <2>1, UndoOneDoes
    <3>2. ListOf(e, rest)
      BY <3>1, NextItem
    <3> HIDE DEF rest
    <3> QED
      BY <3>1, <3>2, <1>b, <1>c, <1>f
  <2>2. CASE UndoDone(e)
    BY <2>2, <1>a, <1>b, <1>c, <1>d, <1>f, UndoDoneDoes
  <2> QED
    BY <1>4, <2>1, <2>2 DEF UndoSteps
<1>5. CASE UnloadSteps(e)
  <2>1. CASE StopKeepAlive(e)
    BY <2>1, <1>a, <1>b, <1>c, <1>f, StopKeepAliveDoes
  <2>2. CASE Disconnect(e)
    BY <2>2, <1>a, <1>b, <1>c, <1>f, DisconnectDoes
  <2>3. CASE Teardown(e)
    <3>1. ObjectsTypeOK
      BY TypeParts DEF Bookkeeping
    <3> QED
      BY <2>3, <3>1, <1>a, <1>b, <1>c, <1>f, TeardownDoes
  <2> QED
    BY <1>5, <2>1, <2>2, <2>3 DEF UnloadSteps
<1>6. CASE SetupFails(e)
  BY <1>6, <1>a, <1>b, <1>c, <1>d, <1>f, SetupFailsDoes
<1>7. CASE SetupCancelled(e)
  <2>1. ListOf(e, undo'[e].todo)
    <3>1. cleanup[e] # << >>
      BY <1>7, <1>a, <1>b, SetupCancelledDoes
    <3>2. ClientItem \in Item /\ ClientItem # RefItem /\ ClientItem.what = "client"
      BY ItemsAreItems
    <3>3. ListOf(e, Append(cleanup[e], ClientItem))
      BY <3>1, <3>2, <1>b, <1>c, ListGrows
    <3> QED
      BY <1>7, <3>3, <1>a, <1>b, SetupCancelledDoes
  <2> QED
    BY <1>7, <2>1, <1>a, <1>b, <1>c, <1>d, <1>f, SetupCancelledDoes
<1>8. CASE CancelledAgain(e)
  BY <1>8, <1>a, <1>b, <1>c, <1>f, CancelledAgainDoes
<1>9. CASE RollbackCancelled(e)
  BY <1>9, <1>a, <1>b, <1>c, <1>d, <1>f, RollbackCancelledDoes
<1>10. CASE Wedges(e)
  BY <1>10, <1>a, <1>b, <1>c, <1>f, WedgesDoes
<1> QED
  BY <1>1, <1>2, <1>3, <1>4, <1>5, <1>6, <1>7, <1>8, <1>9, <1>10 DEF EntryStep

LEMMA SelfIsUser ==
    ASSUME Bookkeeping, NEW e \in Entries
    PROVE  /\ phase[e] # "off" => attempt[e] \in Attempts /\ Self(e) \in Users
           /\ Undoing(e) => undo[e].attempt \in Attempts /\ <<e, undo[e].attempt>> \in Users
<1>1. EntriesTypeOK /\ AttemptOf(e) /\ RollbackOf(e)
  BY TypeParts DEF Bookkeeping
<1>2. attempt[e] \in 0 .. MaxAttempts /\ undo[e].attempt \in 0 .. MaxAttempts /\ MaxAttempts \in Nat
  BY <1>1, UsersAre DEF EntriesTypeOK
<1>3. phase[e] # "off" => attempt[e] \in Attempts
  BY <1>1, <1>2 DEF AttemptOf, Attempts
<1>4. Undoing(e) => undo[e].attempt \in Attempts
  BY <1>1, <1>2 DEF RollbackOf, Attempts
<1> QED
  BY <1>3, <1>4, UsersAre DEF Self

\* The steps of an entry that leave the registry alone.
Quiet(e) ==
    \/ StartUnload(e) \/ SetupSteps(e) \/ UndoDone(e) \/ StopKeepAlive(e) \/ Disconnect(e)
    \/ SetupFails(e) \/ SetupCancelled(e) \/ CancelledAgain(e) \/ Wedges(e)

LEMMA QuietDoes ==
    ASSUME EntriesTypeOK, NEW e \in Entries, Quiet(e)
    PROVE  UNCHANGED <<registry, leaked>>
<1>1. CASE SetupSteps(e)
  BY <1>1, IdentifiedDoes, IdentifyFailsDoes, ClientClosedDoes, PreparedDoes, KeepAliveStartedDoes,
     DeviceReadyDoes, SetupDoneDoes DEF SetupSteps
<1>2. CASE ~SetupSteps(e)
  BY <1>2, StartUnloadDoes, UndoDoneDoes, StopKeepAliveDoes, DisconnectDoes, SetupFailsDoes,
     SetupCancelledDoes, CancelledAgainDoes, WedgesDoes DEF Quiet
<1> QED
  BY <1>1, <1>2

LEMMA EntryStepKinds ==
    ASSUME NEW e, EntryStep(e)
    PROVE  StartSetup(e) \/ UndoOne(e) \/ Teardown(e) \/ RollbackCancelled(e) \/ Quiet(e)
BY DEF EntryStep, Quiet, UndoSteps, UnloadSteps

LEMMA EntryStepRegistry ==
    ASSUME Bookkeeping, NEW e \in Entries, EntryStep(e)
    PROVE  RegistryTypeOK'
<1>a. EntriesTypeOK /\ RegistryTypeOK /\ ObjectsTypeOK
  BY TypeParts DEF Bookkeeping
<1>1. CASE StartSetup(e)
  BY <1>1, <1>a, StartSetupDoes, AcquireTypes, UsersAre
<1>2. CASE UndoOne(e)
  <2>1. UNCHANGED leaked /\ Undoing(e)
    BY <1>2, UndoOneDoes
  <2>2. <<e, undo[e].attempt>> \in Users
    BY <2>1, SelfIsUser
  <2>3. Release(<<e, undo[e].attempt>>) \/ UNCHANGED registry
    BY <1>2 DEF UndoOne
  <2>4. CASE UNCHANGED registry
    BY <2>1, <2>4, <1>a DEF RegistryTypeOK, registry
  <2> QED
    BY <2>1, <2>2, <2>3, <2>4, <1>a, ReleaseTypes
<1>3. CASE Teardown(e)
  <2>1. UNCHANGED leaked /\ phase[e] = "teardown" /\ Release(Self(e))
    BY <1>3, <1>a, TeardownDoes
  <2> QED
    BY <2>1, <1>a, SelfIsUser, ReleaseTypes
<1>4. CASE RollbackCancelled(e)
  <2>1. /\ phase[e] = "undoing" /\ UNCHANGED <<guard, made, refs>>
        /\ held' = [held EXCEPT ![Self(e)] = 0]
        /\ leaked' = IF held[Self(e)] # 0 THEN leaked + 1 ELSE leaked
    BY <1>4, <1>a, RollbackCancelledDoes
  <2>2. leaked' \in Nat
    BY <2>1, <1>a DEF RegistryTypeOK
  <2>3. held' \in [Users -> 0 .. made']
    <3>1. 0 \in 0 .. made /\ held \in [Users -> 0 .. made] /\ made' = made
      BY <2>1, <1>a, UsersAre DEF RegistryTypeOK
    <3>2. [held EXCEPT ![Self(e)] = 0] \in [Users -> 0 .. made]
      BY <3>1
    <3> QED
      BY <2>1, <3>1, <3>2
  <2> QED
    BY <2>1, <2>2, <2>3, <1>a DEF RegistryTypeOK
<1>5. CASE Quiet(e)
  BY <1>5, <1>a, QuietDoes DEF RegistryTypeOK, registry
<1> QED
  BY <1>1, <1>2, <1>3, <1>4, <1>5, EntryStepKinds

\* Whoever moves, the books stay right.
LEMMA BookkeepingStep == Bookkeeping /\ [Next]_vars => Bookkeeping'
<1> SUFFICES ASSUME Bookkeeping, [Next]_vars PROVE Bookkeeping'
  OBVIOUS
<1>a. LifecycleTypeOK /\ EntriesTypeOK /\ RegistryTypeOK /\ ObjectsTypeOK
  BY TypeParts DEF Bookkeeping
<1>b. \A f \in Entries : /\ ListOf(f, cleanup[f]) /\ ListOf(f, undo[f].todo)
                         /\ RollbackOf(f) /\ AttemptOf(f)
  BY DEF Bookkeeping
<1>c. ASSUME NEW f \in Entries, Untouched(f)
      PROVE  ListOf(f, cleanup'[f]) /\ ListOf(f, undo'[f].todo) /\ RollbackOf(f)' /\ AttemptOf(f)'
  BY <1>b, <1>c DEF Untouched, RollbackOf, AttemptOf, Undoing, Latest
<1>1. ASSUME NEW e \in Entries, EntryStep(e) PROVE Bookkeeping'
  <2>1. LifecycleTypeOK'
    BY <1>1, EntryStepTypes, EntryStepObjects, EntryStepRegistry, TypePartsPrime
  <2>2. ASSUME NEW f \in Entries
        PROVE  ListOf(f, cleanup'[f]) /\ ListOf(f, undo'[f].todo) /\ RollbackOf(f)' /\ AttemptOf(f)'
    <3>1. CASE f = e
      BY <1>1, <3>1, EntryStepBooks
    <3>2. CASE f # e
      BY <1>1, <3>2, <1>a, <1>c, OthersUntouched
    <3> QED
      BY <3>1, <3>2
  <2> QED
    BY <2>1, <2>2 DEF Bookkeeping, ListOf
<1>2. ASSUME NEW d, DeviceStep(d) \/ FlowStep(d), RegistryTypeOK', ObjectsTypeOK'
      PROVE  Bookkeeping'
  <2>1. EntriesTypeOK'
    BY <1>2, <1>a, TasksTouchNoEntry DEF EntriesTypeOK
  <2>2. \A f \in Entries : /\ ListOf(f, cleanup'[f]) /\ ListOf(f, undo'[f].todo)
                           /\ RollbackOf(f)' /\ AttemptOf(f)'
    BY <1>2, <1>c, TasksTouchNoEntry
  <2> QED
    BY <1>2, <2>1, <2>2, TypePartsPrime DEF Bookkeeping, ListOf
<1>3. ASSUME NEW d \in Devices, DeviceStep(d) PROVE Bookkeeping'
  <2>1. UNCHANGED <<registry, history>>
    BY <1>3 DEF DeviceStep, ProbeStarts, ProbeEnds, KeepAliveGone
  <2>2. RegistryTypeOK'
    BY <1>a, <2>1 DEF RegistryTypeOK, registry, history
  <2> QED
    BY <1>2, <1>3, <2>2, <1>a, DeviceStepObjects
<1>4. ASSUME NEW f \in Flows, FlowStep(f) PROVE Bookkeeping'
  <2>1. UNCHANGED <<objects, history>>
    BY <1>4 DEF FlowStep, FlowStarts, FlowEnds
  <2>2. ObjectsTypeOK'
    BY <1>a, <2>1 DEF ObjectsTypeOK, objects
  <2>3. Acquire(f) \/ Release(f)
    BY <1>4 DEF FlowStep, FlowStarts, FlowEnds
  <2>4. RegistryTypeOK'
    BY <2>1, <2>3, <1>a, UsersAre, AcquireTypes, ReleaseTypes DEF history
  <2> QED
    BY <1>2, <1>4, <2>2, <2>4
<1>5. CASE UNCHANGED vars
  BY <1>5, <1>a, <1>b DEF vars, registry, objects, history, Bookkeeping, LifecycleTypeOK, ListOf,
     RollbackOf, AttemptOf, Undoing, Latest
<1> QED
  BY <1>1, <1>3, <1>4, <1>5 DEF Next, EntryStep, DeviceStep, FlowStep

-----------------------------------------------------------------------------
(* Layer 2: references. *)

RefsCounted ==
    /\ IsFiniteSet(Holders)
    /\ refs = Cardinality(Holders) + leaked
    /\ OneGuardPerBus

\* The registered guard is the one everybody holds, and there is one as long
\* as somebody holds it.
LEMMA NobodyWithoutGuard ==
    ASSUME RegistryTypeOK, RefsCounted
    PROVE  /\ Cardinality(Holders) \in Nat /\ leaked \in Nat /\ refs \in Nat
           /\ refs = 0 => Holders = {}
           /\ Holders # {} => refs # 0
<1>1. Cardinality(Holders) \in Nat /\ refs = Cardinality(Holders) + leaked /\ leaked \in Nat
      /\ refs \in Nat
  BY FS_CardinalityType DEF RefsCounted, RegistryTypeOK
<1>2. Cardinality(Holders) = 0 => Holders = {}
  BY FS_EmptySet DEF RefsCounted
<1>3. refs = 0 => Cardinality(Holders) = 0
  BY <1>1
<1> QED
  BY <1>1, <1>2, <1>3

\* A reference taken is one more holder of the one guard.
LEMMA AcquireCounts ==
    ASSUME RegistryTypeOK, RefsCounted, NEW u \in Users, held[u] = 0, Acquire(u), leaked' = leaked
    PROVE  /\ RefsCounted' /\ held'[u] # 0
           /\ \A v \in Users : v # u => held'[v] = held[v]
<1>1. /\ guard' = IF guard = 0 THEN made' ELSE guard
      /\ refs' = refs + 1 /\ held' = [held EXCEPT ![u] = guard'] /\ guard' # 0
  BY AcquireTypes DEF Acquire
<1>2. /\ held'[u] = guard' /\ \A v \in Users : v # u => held'[v] = held[v]
  BY <1>1 DEF RegistryTypeOK
<1>3. Holders' = Holders \cup {u} /\ u \notin Holders
  BY <1>1, <1>2 DEF Holders
<1>4. /\ IsFiniteSet(Holders') /\ Cardinality(Holders') = Cardinality(Holders) + 1
  BY <1>3, FS_AddElement DEF RefsCounted
<1>5. refs' = Cardinality(Holders') + leaked'
  <2>1. /\ Cardinality(Holders) \in Nat /\ leaked \in Nat /\ leaked' = leaked
        /\ refs = Cardinality(Holders) + leaked
    BY NobodyWithoutGuard DEF RefsCounted
  <2> QED
    BY <1>1, <1>4, <2>1
<1>6. OneGuardPerBus'
  <2>1. ASSUME NEW v \in Users, held'[v] # 0 PROVE held'[v] = guard'
    <3>1. CASE v = u
      BY <1>2, <3>1
    <3>2. CASE v # u
      <4>1. held[v] # 0 /\ held'[v] = held[v] /\ held[v] = guard
        BY <1>2, <2>1, <3>2 DEF RefsCounted, OneGuardPerBus
      <4> QED
        BY <1>1, <4>1
    <3> QED
      BY <3>1, <3>2
  <2> QED
    BY <2>1 DEF OneGuardPerBus
<1> QED
  BY <1>1, <1>2, <1>4, <1>5, <1>6 DEF RefsCounted

\* A reference given back is one holder less.
LEMMA ReleaseCounts ==
    ASSUME RegistryTypeOK, RefsCounted, NEW u \in Users, held[u] # 0, Release(u), leaked' = leaked
    PROVE  /\ RefsCounted' /\ held'[u] = 0
           /\ \A v \in Users : v # u => held'[v] = held[v]
<1>1. u \in Holders
  BY DEF Holders
<1>2. refs # 0 /\ refs \in Nat /\ leaked \in Nat /\ Cardinality(Holders) \in Nat
      /\ refs = Cardinality(Holders) + leaked
  BY <1>1, NobodyWithoutGuard DEF RefsCounted
<1>3. /\ held' = [held EXCEPT ![u] = 0]
      /\ refs' = IF refs - 1 = 0 THEN 0 ELSE refs - 1
      /\ guard' = IF refs - 1 = 0 THEN 0 ELSE guard
  BY <1>2 DEF Release, LastRelease
<1>4. /\ held'[u] = 0 /\ \A v \in Users : v # u => held'[v] = held[v]
  BY <1>3 DEF RegistryTypeOK
<1>5. Holders' = Holders \ {u}
  BY <1>4 DEF Holders
<1>6. IsFiniteSet(Holders') /\ Cardinality(Holders') = Cardinality(Holders) - 1
  BY <1>1, <1>5, FS_RemoveElement DEF RefsCounted
<1>7. refs' = refs - 1 /\ refs' = Cardinality(Holders') + leaked'
  <2>1. leaked' = leaked
    OBVIOUS
  <2> QED
    BY <1>2, <1>3, <1>6, <2>1
<1>8. refs' = 0 => Holders' = {}
  <2>1. refs' = 0 => Cardinality(Holders') = 0
    <3>1. Cardinality(Holders') \in Nat
      BY <1>6, FS_CardinalityType
    <3>2. leaked' \in Nat
      BY <1>2
    <3> QED
      BY <1>7, <3>1, <3>2
  <2> QED
    BY <1>6, <2>1, FS_EmptySet
<1>9. OneGuardPerBus'
  <2>1. ASSUME NEW v \in Users, held'[v] # 0 PROVE held'[v] = guard'
    <3>1. v # u /\ held[v] # 0 /\ held'[v] = held[v] /\ held[v] = guard
      BY <1>4, <2>1 DEF RefsCounted, OneGuardPerBus
    <3>2. v \in Holders'
      BY <2>1 DEF Holders
    <3>3. refs - 1 # 0
      BY <1>7, <1>8, <3>2
    <3> QED
      BY <1>3, <3>1, <3>3
  <2> QED
    BY <2>1 DEF OneGuardPerBus
<1> QED
  BY <1>4, <1>6, <1>7, <1>9 DEF RefsCounted

\* What the users hold changes only for one of them: the need of every other
\* attempt is as it was.
LEMMA OthersHold ==
    ASSUME Bookkeeping, HeldWhileNeeded, NEW e \in Entries, EntryStep(e),
           \A n \in Attempts : held'[<<e, n>>] # 0 <=> Needs(e, n)',
           \A f \in Entries, n \in Attempts : f # e => held'[<<f, n>>] = held[<<f, n>>]
    PROVE  HeldWhileNeeded'
<1>1. ASSUME NEW f \in Entries, NEW n \in Attempts PROVE held'[<<f, n>>] # 0 <=> Needs(f, n)'
  <2>1. CASE f = e
    BY <2>1
  <2>2. CASE f # e
    <3>1. Untouched(f)
      BY <2>2, OthersUntouched DEF Bookkeeping
    <3> QED
      BY <2>2, <3>1 DEF Untouched, HeldWhileNeeded, Needs
  <2> QED
    BY <2>1, <2>2
<1> QED
  BY <1>1 DEF HeldWhileNeeded

\* A step that leaves the registry alone changes nobody's need of it.
LEMMA QuietNeeds ==
    ASSUME Bookkeeping, NEW e \in Entries, Quiet(e)
    PROVE  \A n : Needs(e, n)' <=> Needs(e, n)
<1>a. EntriesTypeOK /\ AttemptOf(e) /\ RollbackOf(e)
  BY TypeParts DEF Bookkeeping
<1>b. SettingUp = {"identify", "closing", "prepare", "load", "optimizers", "platforms"}
  BY DEF SettingUp
<1>c. cleanup[e] # << >> => Append(cleanup[e], ClientItem) # << >>
  <2>1. cleanup[e] \in Seq(Item)
    BY <1>a DEF EntriesTypeOK
  <2> QED
    BY <2>1, ItemsAreItems
<1>d. Idle.todo = << >> /\ Idle.mode = "none"
  BY DEF Idle
<1> USE DEF AttemptOf, RollbackOf, Needs, Active
<1>1. CASE SetupSteps(e)
  <2>1. CASE Identified(e)
    BY <2>1, <1>a, <1>b, IdentifiedDoes
  <2>2. CASE IdentifyFails(e)
    BY <2>2, <1>a, <1>b, IdentifyFailsDoes
  <2>3. CASE ClientClosed(e)
    BY <2>3, <1>a, <1>b, ClientClosedDoes
  <2>4. CASE Prepared(e)
    BY <2>4, <1>a, <1>b, PreparedDoes
  <2>5. CASE KeepAliveStarted(e)
    BY <2>5, <1>a, <1>b, KeepAliveStartedDoes
  <2>6. CASE DeviceReady(e)
    BY <2>6, <1>a, <1>b, DeviceReadyDoes
  <2>7. CASE SetupDone(e)
    BY <2>7, <1>a, <1>b, SetupDoneDoes
  <2> QED
    BY <1>1, <2>1, <2>2, <2>3, <2>4, <2>5, <2>6, <2>7 DEF SetupSteps
<1>2. CASE StartUnload(e)
  BY <1>2, <1>a, <1>b, StartUnloadDoes
<1>3. CASE UndoDone(e)
  BY <1>3, <1>a, <1>b, <1>d, UndoDoneDoes DEF Latest
<1>4. CASE StopKeepAlive(e)
  BY <1>4, <1>a, <1>b, StopKeepAliveDoes
<1>5. CASE Disconnect(e)
  BY <1>5, <1>a, <1>b, DisconnectDoes
<1>6. CASE SetupFails(e)
  BY <1>6, <1>a, <1>b, SetupFailsDoes
<1>7. CASE SetupCancelled(e)
  BY <1>7, <1>a, <1>b, <1>c, SetupCancelledDoes
<1>8. CASE CancelledAgain(e)
  BY <1>8, <1>a, <1>b, CancelledAgainDoes
<1>9. CASE Wedges(e)
  BY <1>9, <1>a, <1>b, WedgesDoes
<1> QED
  BY <1>1, <1>2, <1>3, <1>4, <1>5, <1>6, <1>7, <1>8, <1>9 DEF Quiet

\* A step of an entry keeps the count of the references and their owners.
LEMMA EntryStepRefs ==
    ASSUME Bookkeeping, References, NEW e \in Entries, EntryStep(e)
    PROVE  References'
<1>a. EntriesTypeOK /\ RegistryTypeOK /\ ObjectsTypeOK /\ AttemptOf(e) /\ RollbackOf(e)
  BY TypeParts DEF Bookkeeping
<1>b. RefsCounted /\ HeldWhileNeeded
  BY DEF References, RefsCounted
<1>c. SettingUp = {"identify", "closing", "prepare", "load", "optimizers", "platforms"}
  BY DEF SettingUp
<1>d. \A f \in Entries, n \in Attempts, m \in Attempts :
         /\ f # e => <<f, n>> # <<e, m>>
         /\ n # m => <<e, n>> # <<e, m>>
  OBVIOUS
<1>e. attempt[e] \in Nat /\ undo[e].attempt \in Nat
  BY <1>a, UsersAre DEF EntriesTypeOK
<1>f. undo[e].todo # << >> => Undoing(e)
  BY <1>a DEF RollbackOf
<1>g. ASSUME RefsCounted', HeldWhileNeeded' PROVE References'
  BY <1>g DEF References, RefsCounted
<1>1. CASE StartSetup(e)
  <2> DEFINE next == attempt[e] + 1
             u == <<e, next>>
  <2>1. /\ phase[e] = "off" /\ phase'[e] = "identify" /\ attempt'[e] = next /\ next \in Attempts
        /\ Acquire(u) /\ undo'[e] = undo[e] /\ leaked' = leaked
    BY <1>1, <1>a, StartSetupDoes
  <2>2. u \in Users
    BY <2>1, UsersAre
  <2>3. next # attempt[e] /\ (next # undo[e].attempt \/ undo[e].todo = << >>)
    BY <1>a, <1>e, <1>f DEF RollbackOf
  <2>4. held[u] = 0
    BY <1>b, <2>1, <2>3, <1>c DEF HeldWhileNeeded, Needs, Active
  <2>5. RefsCounted' /\ held'[u] # 0 /\ \A v \in Users : v # u => held'[v] = held[v]
    <3> HIDE DEF u
    <3> QED
      BY <2>1, <2>2, <2>4, <1>a, <1>b, AcquireCounts
  <2>6. ASSUME NEW n \in Attempts PROVE held'[<<e, n>>] # 0 <=> Needs(e, n)'
    <3>1. Needs(e, n)' <=> n = next \/ (n = undo[e].attempt /\ undo[e].todo # << >>)
      BY <2>1, <1>c DEF Needs, Active
    <3>2. CASE n = next
      BY <2>5, <3>1, <3>2
    <3>3. CASE n # next
      <4>1. held'[<<e, n>>] = held[<<e, n>>]
        BY <2>1, <2>5, <3>3, <1>d, UsersAre
      <4>2. Needs(e, n) <=> (n = undo[e].attempt /\ undo[e].todo # << >>)
        BY <2>1, <1>c DEF Needs, Active
      <4> QED
        BY <3>1, <3>3, <4>1, <4>2, <1>b DEF HeldWhileNeeded
    <3> QED
      BY <3>2, <3>3
  <2>7. \A f \in Entries, n \in Attempts : f # e => held'[<<f, n>>] = held[<<f, n>>]
    BY <2>1, <2>5, <1>d, UsersAre
  <2> QED
    BY <2>5, <2>6, <2>7, <1>b, <1>g, OthersHold
<1>2. CASE UndoOne(e)
  <2> DEFINE last == undo[e].todo[Len(undo[e].todo)]
             rest == SubSeq(undo[e].todo, 1, Len(undo[e].todo) - 1)
             u == <<e, undo[e].attempt>>
  <2>1. /\ Undoing(e) /\ undo[e].todo # << >>
        /\ undo'[e].todo = rest /\ undo'[e].attempt = undo[e].attempt
        /\ phase'[e] = phase[e] /\ attempt'[e] = attempt[e] /\ leaked' = leaked
        /\ (last = RefItem /\ Release(u)) \/ (last # RefItem /\ UNCHANGED registry)
    <3>2. /\ Undoing(e) /\ undo[e].todo # << >>
          /\ undo'[e].todo = rest /\ undo'[e].attempt = undo[e].attempt
          /\ phase'[e] = phase[e] /\ attempt'[e] = attempt[e] /\ leaked' = leaked
      BY <1>2, UndoOneDoes
    <3>3. (last = RefItem /\ Release(u)) \/ (last # RefItem /\ UNCHANGED registry)
      <4>1. \/ last.what = "ref" /\ Release(u)
            \/ last.what # "ref" /\ UNCHANGED registry
        BY <1>2 DEF UndoOne
      <4>2. last \in Item
        BY <3>2, NextItem
      <4> HIDE DEF last, u
      <4>3. last.what = "ref" <=> last = RefItem
        BY <4>2, ItemKinds, ItemsAreItems
      <4> QED
        BY <4>1, <4>3
    <3> QED
      BY <3>2, <3>3
  <2>2. last = RefItem <=> rest = << >>
    BY <2>1, NextItem
  <2>3. undo[e].attempt \in Attempts /\ u \in Users
    BY <2>1, SelfIsUser
  <2>4. Latest(e) <=> undo[e].attempt = attempt[e]
    BY <2>1 DEF Latest
  <2> HIDE DEF last, rest
  <2>5. CASE last = RefItem /\ Release(u)
    <3>1. held[u] # 0
      BY <1>b, <2>1, <2>3 DEF HeldWhileNeeded, Needs
    <3>2. RefsCounted' /\ held'[u] = 0 /\ \A v \in Users : v # u => held'[v] = held[v]
      <4> HIDE DEF u
      <4> QED
        BY <2>1, <2>3, <2>5, <3>1, <1>a, <1>b, ReleaseCounts
    <3>3. ASSUME NEW n \in Attempts PROVE held'[<<e, n>>] # 0 <=> Needs(e, n)'
      <4>1. Needs(e, n)' <=> n = attempt[e] /\ phase[e] \in Active
        BY <2>1, <2>2, <2>5 DEF Needs, Active
      <4>2. CASE n = undo[e].attempt
        <5>1. ~(n = attempt[e] /\ phase[e] \in Active)
          BY <4>2, <2>4, <1>a, <1>c DEF RollbackOf, Active
        <5> QED
          BY <3>2, <4>1, <4>2, <5>1
      <4>3. CASE n # undo[e].attempt
        <5>1. held'[<<e, n>>] = held[<<e, n>>]
          BY <2>3, <3>2, <4>3, <1>d, UsersAre
        <5> QED
          BY <4>1, <4>3, <5>1, <1>b DEF HeldWhileNeeded, Needs
      <4> QED
        BY <4>2, <4>3
    <3>4. \A f \in Entries, n \in Attempts : f # e => held'[<<f, n>>] = held[<<f, n>>]
      BY <2>3, <3>2, <1>d, UsersAre
    <3> QED
      BY <3>2, <3>3, <3>4, <1>b, <1>g, OthersHold
  <2>6. CASE last # RefItem /\ UNCHANGED registry
    <3>1. \A n : Needs(e, n)' <=> Needs(e, n)
      BY <2>1, <2>2, <2>6 DEF Needs, Active
    <3>2. RefsCounted'
      BY <2>1, <2>6, <1>b DEF RefsCounted, Holders, OneGuardPerBus, registry
    <3> QED
      BY <2>6, <3>1, <3>2, <1>b, <1>g, OthersHold DEF HeldWhileNeeded, registry
  <2> QED
    BY <2>1, <2>5, <2>6
<1>3. CASE Teardown(e)
  <2> DEFINE u == <<e, attempt[e]>>
  <2>1. /\ phase[e] = "teardown" /\ phase'[e] \in {"off", "failed"} /\ Release(u)
        /\ attempt'[e] = attempt[e] /\ undo'[e] = undo[e] /\ leaked' = leaked
    BY <1>3, <1>a, TeardownDoes DEF Self
  <2>2. attempt[e] \in Attempts /\ u \in Users
    BY <2>1, SelfIsUser DEF Self
  <2>3. held[u] # 0
    BY <1>b, <2>1, <2>2 DEF HeldWhileNeeded, Needs, Active
  <2>4. RefsCounted' /\ held'[u] = 0 /\ \A v \in Users : v # u => held'[v] = held[v]
    <3> HIDE DEF u
    <3> QED
      BY <2>1, <2>2, <2>3, <1>a, <1>b, ReleaseCounts
  <2>5. ASSUME NEW n \in Attempts PROVE held'[<<e, n>>] # 0 <=> Needs(e, n)'
    <3>1. Needs(e, n)' <=> n = undo[e].attempt /\ undo[e].todo # << >>
      BY <2>1, <1>c DEF Needs, Active
    <3>2. CASE n = attempt[e]
      <4>1. ~(n = undo[e].attempt /\ undo[e].todo # << >>)
        BY <2>1, <3>2, <1>a, <1>f DEF RollbackOf, Latest
      <4> QED
        BY <2>4, <3>1, <3>2, <4>1
    <3>3. CASE n # attempt[e]
      <4>1. held'[<<e, n>>] = held[<<e, n>>]
        BY <2>2, <2>4, <3>3, <1>d, UsersAre
      <4> QED
        BY <3>1, <3>3, <4>1, <1>b DEF HeldWhileNeeded, Needs
    <3> QED
      BY <3>2, <3>3
  <2>6. \A f \in Entries, n \in Attempts : f # e => held'[<<f, n>>] = held[<<f, n>>]
    BY <2>2, <2>4, <1>d, UsersAre
  <2> QED
    BY <2>4, <2>5, <2>6, <1>b, <1>g, OthersHold
<1>4. CASE RollbackCancelled(e)
  <2> DEFINE u == <<e, attempt[e]>>
  <2>1. /\ phase[e] = "undoing" /\ phase'[e] = "off" /\ undo'[e] = Idle
        /\ attempt'[e] = attempt[e] /\ guard' = guard /\ refs' = refs
        /\ held' = [held EXCEPT ![u] = 0]
        /\ leaked' = IF held[u] # 0 THEN leaked + 1 ELSE leaked
    BY <1>4, <1>a, RollbackCancelledDoes DEF Self
  <2>2. attempt[e] \in Attempts /\ u \in Users /\ undo[e].attempt = attempt[e]
    BY <2>1, <1>a, SelfIsUser DEF Self, RollbackOf, Latest
  <2>3. held'[u] = 0 /\ \A v \in Users : v # u => held'[v] = held[v]
    <3> HIDE DEF u
    <3> QED
      BY <2>1, <2>2, <1>a DEF RegistryTypeOK
  <2>4. RefsCounted'
    <3> HIDE DEF u
    <3>1. OneGuardPerBus'
      BY <2>1, <2>3, <1>b DEF RefsCounted, OneGuardPerBus
    <3>2. CASE held[u] # 0
      <4>1. Holders' = Holders \ {u} /\ u \in Holders
        BY <2>2, <2>3, <3>2 DEF Holders
      <4>2. IsFiniteSet(Holders') /\ Cardinality(Holders') = Cardinality(Holders) - 1
        BY <4>1, <1>b, FS_RemoveElement DEF RefsCounted
      <4>3. leaked' = leaked + 1 /\ refs = Cardinality(Holders) + leaked
            /\ Cardinality(Holders) \in Nat /\ leaked \in Nat
        BY <2>1, <3>2, <1>a, <1>b, NobodyWithoutGuard DEF RefsCounted
      <4>4. refs' = Cardinality(Holders') + leaked'
        BY <2>1, <4>2, <4>3
      <4> QED
        BY <3>1, <4>2, <4>4 DEF RefsCounted
    <3>3. CASE held[u] = 0
      <4>1. Holders' = Holders
        BY <2>2, <2>3, <3>3 DEF Holders
      <4> QED
        BY <2>1, <3>1, <3>3, <4>1, <1>b DEF RefsCounted
    <3> QED
      BY <3>2, <3>3
  <2>5. ASSUME NEW n \in Attempts PROVE held'[<<e, n>>] # 0 <=> Needs(e, n)'
    <3>1. ~Needs(e, n)'
      BY <2>1, <1>c DEF Needs, Active, Idle
    <3>2. CASE n = attempt[e]
      BY <2>3, <3>1, <3>2
    <3>3. CASE n # attempt[e]
      <4>1. held'[<<e, n>>] = held[<<e, n>>]
        BY <2>2, <2>3, <3>3, <1>d, UsersAre
      <4> QED
        BY <2>2, <3>1, <3>3, <4>1, <1>b DEF HeldWhileNeeded, Needs
    <3> QED
      BY <3>2, <3>3
  <2>6. \A f \in Entries, n \in Attempts : f # e => held'[<<f, n>>] = held[<<f, n>>]
    BY <2>2, <2>3, <1>d, UsersAre
  <2> QED
    BY <2>4, <2>5, <2>6, <1>b, <1>g, OthersHold
<1>5. CASE Quiet(e)
  <2>1. UNCHANGED <<registry, leaked>>
    BY <1>5, <1>a, QuietDoes
  <2>2. \A n : Needs(e, n)' <=> Needs(e, n)
    BY <1>5, QuietNeeds
  <2>3. RefsCounted'
    BY <2>1, <1>b DEF RefsCounted, Holders, OneGuardPerBus, registry
  <2> QED
    BY <2>1, <2>2, <2>3, <1>b, <1>g, OthersHold DEF HeldWhileNeeded, registry
<1> QED
  BY <1>1, <1>2, <1>3, <1>4, <1>5, EntryStepKinds

\* References stay exact whoever moves.
LEMMA ReferencesStep == Bookkeeping /\ References /\ [Next]_vars => References'
<1> SUFFICES ASSUME Bookkeeping, References, [Next]_vars PROVE References'
  OBVIOUS
<1>a. RegistryTypeOK /\ RefsCounted /\ HeldWhileNeeded
  BY TypeParts DEF Bookkeeping, References, RefsCounted
<1>b. ASSUME RefsCounted', HeldWhileNeeded' PROVE References'
  BY <1>b DEF References, RefsCounted
<1>1. ASSUME NEW e \in Entries, EntryStep(e) PROVE References'
  BY <1>1, EntryStepRefs
<1>2. ASSUME NEW d \in Devices, DeviceStep(d) PROVE References'
  <2>1. UNCHANGED <<registry, history, phase, attempt, undo>>
    BY <1>2 DEF DeviceStep, ProbeStarts, ProbeEnds, KeepAliveGone
  <2> QED
    BY <2>1, <1>a, <1>b DEF registry, history, RefsCounted, Holders, OneGuardPerBus,
       HeldWhileNeeded, Needs
<1>3. ASSUME NEW f \in Flows, FlowStep(f) PROVE References'
  <2>1. UNCHANGED <<history, phase, attempt, undo>> /\ f \in Users
    BY <1>3, UsersAre DEF FlowStep, FlowStarts, FlowEnds
  <2>2. (Acquire(f) /\ held[f] = 0) \/ (Release(f) /\ held[f] # 0)
    BY <1>3 DEF FlowStep, FlowStarts, FlowEnds
  <2>3. RefsCounted' /\ \A v \in Users : v # f => held'[v] = held[v]
    BY <2>1, <2>2, <1>a, AcquireCounts, ReleaseCounts DEF history
  <2>4. HeldWhileNeeded'
    <3>1. \A e \in Entries, n \in Attempts : held'[<<e, n>>] = held[<<e, n>>]
      BY <1>3, <2>3, UsersAre
    <3> QED
      BY <2>1, <3>1, <1>a, ZenonT(40) DEF HeldWhileNeeded, Needs
  <2> QED
    BY <2>3, <2>4, <1>b
<1>4. CASE UNCHANGED vars
  BY <1>4, <1>a, <1>b DEF vars, registry, history, RefsCounted, Holders, OneGuardPerBus,
     HeldWhileNeeded, Needs
<1> QED
  BY <1>1, <1>2, <1>3, <1>4 DEF Next, EntryStep, DeviceStep, FlowStep

-----------------------------------------------------------------------------
(* Layer 3: keep-alive objects and what the coordinators were told. *)

SameDevice(d) ==
    /\ telemetry'[d] = telemetry[d] /\ keepalive'[d] = keepalive[d]
    /\ dying'[d] = dying[d] /\ view'[d] = view[d]

\* A step of an entry does nothing to the devices of the others.
LEMMA OtherDevices ==
    ASSUME Bookkeeping, NEW e \in Entries, EntryStep(e), NEW c \in Devices, c \notin Mine(e)
    PROVE  SameDevice(c)
<1>a. EntriesTypeOK /\ ObjectsTypeOK
  BY TypeParts DEF Bookkeeping
<1> USE DEF SameDevice
<1>1. CASE UNCHANGED objects
  BY <1>1 DEF objects
<1>2. CASE Prepared(e)
  <2>1. Device(e) \in Mine(e)
    BY <1>2, AtDevice DEF Prepared
  <2> QED
    BY <1>2, <1>a, <2>1, PreparedDoes DEF ObjectsTypeOK
<1>3. CASE KeepAliveStarted(e)
  <2>1. Device(e) \in Mine(e)
    BY <1>3, AtDevice DEF KeepAliveStarted
  <2> QED
    BY <1>3, <1>a, <2>1, KeepAliveStartedDoes DEF ObjectsTypeOK
<1>4. CASE DeviceReady(e)
  <2>1. Device(e) \in Mine(e)
    BY <1>4, AtDevice DEF DeviceReady
  <2> QED
    BY <1>4, <1>a, <2>1, DeviceReadyDoes DEF ObjectsTypeOK
<1>5. CASE UndoOne(e)
  <2>1. \/ UNCHANGED objects
        \/ \E d \in Mine(e) : /\ telemetry' = [telemetry EXCEPT ![d] = "none"]
                              /\ UNCHANGED <<keepalive, dying, view>>
        \/ \E d \in Mine(e) : Stopped(d) /\ UNCHANGED <<telemetry, view>>
    BY <1>5, UndoOneDoes
  <2>2. CASE \E d \in Mine(e) : /\ telemetry' = [telemetry EXCEPT ![d] = "none"]
                                /\ UNCHANGED <<keepalive, dying, view>>
    BY <2>2, <1>a DEF ObjectsTypeOK
  <2>3. ASSUME NEW d \in Mine(e), Stopped(d), UNCHANGED <<telemetry, view>> PROVE SameDevice(c)
    BY <2>3, <1>a, StoppedDoes, DevicesAreMine
  <2> QED
    BY <1>1, <2>1, <2>2, <2>3
<1>6. CASE StopKeepAlive(e)
  <2>1. Device(e) \in Mine(e) /\ Device(e) \in Devices
    BY <1>6, <1>a, UnloadsDevice
  <2> QED
    BY <1>6, <1>a, <2>1, StopKeepAliveDoes, StoppedDoes
<1>7. CASE Teardown(e)
  BY <1>7, <1>a, TeardownDoes
<1>8. CASE StartSetup(e)
  BY <1>1, <1>8, <1>a, StartSetupDoes
<1>9. CASE RollbackCancelled(e)
  BY <1>1, <1>9, <1>a, RollbackCancelledDoes
<1>10. CASE Identified(e) \/ IdentifyFails(e) \/ ClientClosed(e) \/ SetupDone(e)
  BY <1>1, <1>10, <1>a, IdentifiedDoes, IdentifyFailsDoes, ClientClosedDoes, SetupDoneDoes
<1>11. CASE StartUnload(e) \/ UndoDone(e) \/ Disconnect(e) \/ Wedges(e)
  BY <1>1, <1>11, <1>a, StartUnloadDoes, UndoDoneDoes, DisconnectDoes, WedgesDoes
<1>12. CASE SetupFails(e) \/ SetupCancelled(e) \/ CancelledAgain(e)
  BY <1>1, <1>12, <1>a, SetupFailsDoes, SetupCancelledDoes, CancelledAgainDoes
<1> QED
  BY <1>2, <1>3, <1>4, <1>5, <1>6, <1>7, <1>8, <1>9, <1>10, <1>11, <1>12
     DEF EntryStep, SetupSteps, UndoSteps, UnloadSteps

\* The object of a device is the same one, whatever its task does.
SameObject(d) ==
    /\ keepalive'[d] = NoKeepAlive <=> keepalive[d] = NoKeepAlive
    /\ keepalive[d] # NoKeepAlive => /\ keepalive'[d].owner = keepalive[d].owner
                                     /\ keepalive'[d].wired = keepalive[d].wired
                                     /\ keepalive'[d].healthy = keepalive[d].healthy

\* Nothing is disturbed by a step that keeps the objects and what was told of
\* them, and gets no device nearer to its keep-alive.
LEMMA HealthStays ==
    ASSUME NEW e \in Entries, HealthFor(e), attempt'[e] = attempt[e],
           \A d \in Mine(e) : SameObject(d) /\ view'[d] = view[d],
           \A i \in 1 .. Len(DevicesOf[e]) : /\ Ahead(e, i)' => Ahead(e, i)
                                             /\ Passed(e, i)' => Passed(e, i),
           phase'[e] = "load" => phase[e] = "load" /\ pos'[e] = pos[e] /\ Device(e) \in Mine(e)
    PROVE  HealthFor(e)'
<1>1. \A d \in Mine(e) : HealthOf(e, d)'
  BY DEF HealthFor, HealthOf, SameObject
<1>2. ASSUME NEW i \in 1 .. Len(DevicesOf[e]) PROVE ObjectAt(e, i)'
  <2>1. DevicesOf[e][i] \in Mine(e)
    BY DevicesAreMine
  <2> QED
    BY <2>1 DEF HealthFor, ObjectAt, SameObject
<1>3. phase'[e] = "load" => view'[Device(e)'] = "up"
  BY DEF HealthFor, Device
<1> QED
  BY <1>1, <1>2, <1>3 DEF HealthFor

\* The steps after which HealthStays applies.
Plain(e) ==
    \/ Identified(e) \/ IdentifyFails(e) \/ ClientClosed(e) \/ SetupDone(e) \/ StartUnload(e)
    \/ UndoSteps(e) \/ StopKeepAlive(e) \/ Disconnect(e) \/ SetupFails(e) \/ SetupCancelled(e)
    \/ CancelledAgain(e) \/ RollbackCancelled(e) \/ Wedges(e)

LEMMA PlainObjects ==
    ASSUME Bookkeeping, NEW e \in Entries, Plain(e), NEW d \in Mine(e)
    PROVE  SameObject(d) /\ view'[d] = view[d]
<1>a. EntriesTypeOK /\ ObjectsTypeOK /\ d \in Devices
  BY TypeParts, DevicesAreMine DEF Bookkeeping
<1>1. CASE UNCHANGED objects
  BY <1>1 DEF objects, SameObject
<1>2. ASSUME NEW c \in Devices, Stopped(c), UNCHANGED view PROVE SameObject(d) /\ view'[d] = view[d]
  <2>1. CASE c = d
    BY <1>2, <1>a, <2>1, StoppedDoes DEF SameObject
  <2>2. CASE c # d
    <3>1. keepalive'[d] = keepalive[d]
      BY <1>2, <1>a, <2>2, StoppedDoes
    <3> QED
      BY <1>2, <3>1 DEF SameObject
  <2> QED
    BY <2>1, <2>2
<1>3. CASE UndoOne(e)
  <2>1. \/ UNCHANGED <<keepalive, view>>
        \/ \E c \in Mine(e) : Stopped(c) /\ UNCHANGED <<telemetry, view>>
    BY <1>3, UndoOneDoes DEF objects
  <2>2. CASE UNCHANGED <<keepalive, view>>
    BY <2>2 DEF SameObject
  <2> QED
    BY <1>2, <2>1, <2>2, DevicesAreMine
<1>4. CASE StopKeepAlive(e)
  BY <1>2, <1>4, <1>a, StopKeepAliveDoes, UnloadsDevice
<1>5. CASE Identified(e) \/ IdentifyFails(e) \/ ClientClosed(e) \/ SetupDone(e)
  BY <1>1, <1>5, <1>a, IdentifiedDoes, IdentifyFailsDoes, ClientClosedDoes, SetupDoneDoes
<1>6. CASE StartUnload(e) \/ UndoDone(e) \/ Disconnect(e) \/ Wedges(e) \/ RollbackCancelled(e)
  BY <1>1, <1>6, <1>a, StartUnloadDoes, UndoDoneDoes, DisconnectDoes, WedgesDoes,
     RollbackCancelledDoes
<1>7. CASE SetupFails(e) \/ SetupCancelled(e) \/ CancelledAgain(e)
  BY <1>1, <1>7, <1>a, SetupFailsDoes, SetupCancelledDoes, CancelledAgainDoes
<1> QED
  BY <1>3, <1>4, <1>5, <1>6, <1>7 DEF Plain, UndoSteps

LEMMA PlainPhases ==
    ASSUME Bookkeeping, NEW e \in Entries, Plain(e)
    PROVE  /\ attempt'[e] = attempt[e]
           /\ \A i \in 1 .. Len(DevicesOf[e]) : /\ Ahead(e, i)' => Ahead(e, i)
                                                /\ Passed(e, i)' => Passed(e, i)
           /\ phase'[e] = "load" => phase[e] = "load" /\ pos'[e] = pos[e] /\ Device(e) \in Mine(e)
<1>a. EntriesTypeOK /\ AttemptOf(e) /\ Len(DevicesOf[e]) \in Nat
  BY TypeParts, DevicesAreMine DEF Bookkeeping
<1>b. phase[e] = "load" => Device(e) \in Mine(e)
  BY AtDevice
<1> USE DEF Ahead, Passed
<1>1. CASE Identified(e)
  <2>1. /\ phase[e] = "identify" /\ phase'[e] = "prepare" /\ pos[e] = 1 /\ pos'[e] = 1
        /\ attempt'[e] = attempt[e]
    BY <1>1, <1>a, IdentifiedDoes DEF AttemptOf
  <2> QED
    BY <1>a, <2>1
<1>2. CASE IdentifyFails(e)
  BY <1>2, <1>a, IdentifyFailsDoes
<1>3. CASE ClientClosed(e)
  BY <1>3, <1>a, ClientClosedDoes
<1>4. CASE SetupDone(e)
  BY <1>4, <1>a, SetupDoneDoes
<1>5. CASE StartUnload(e)
  BY <1>5, <1>a, StartUnloadDoes
<1>6. CASE UndoOne(e)
  <2>1. phase'[e] = phase[e] /\ attempt'[e] = attempt[e] /\ pos'[e] = pos[e]
    BY <1>6, UndoOneDoes
  <2> QED
    BY <1>b, <2>1
<1>7. CASE UndoDone(e)
  BY <1>7, <1>a, <1>b, UndoDoneDoes
<1>8. CASE StopKeepAlive(e)
  BY <1>8, <1>a, StopKeepAliveDoes
<1>9. CASE Disconnect(e)
  BY <1>9, <1>a, DisconnectDoes
<1>10. CASE SetupFails(e)
  BY <1>10, <1>a, SetupFailsDoes
<1>11. CASE SetupCancelled(e)
  BY <1>11, <1>a, SetupCancelledDoes
<1>12. CASE CancelledAgain(e)
  BY <1>12, <1>a, CancelledAgainDoes
<1>13. CASE RollbackCancelled(e)
  BY <1>13, <1>a, RollbackCancelledDoes
<1>14. CASE Wedges(e)
  BY <1>14, <1>a, <1>b, WedgesDoes
<1> QED
  BY <1>1, <1>2, <1>3, <1>4, <1>5, <1>6, <1>7, <1>8, <1>9, <1>10, <1>11, <1>12, <1>13, <1>14
     DEF Plain, UndoSteps

\* A step of an entry keeps what is known of its devices.
LEMMA EntryStepHealth ==
    ASSUME Bookkeeping, NEW e \in Entries, HealthFor(e), EntryStep(e)
    PROVE  HealthFor(e)'
<1> DEFINE N == Len(DevicesOf[e])
           At(i) == DevicesOf[e][i]
<1>a. EntriesTypeOK /\ ObjectsTypeOK /\ AttemptOf(e)
  BY TypeParts DEF Bookkeeping
<1>b. attempt[e] \in Nat /\ pos[e] \in Nat /\ pos[e] >= 1
  BY <1>a, UsersAre DEF EntriesTypeOK
<1>c. /\ N \in Nat \ {0} /\ Mine(e) \subseteq Devices
      /\ \A i \in 1 .. N : At(i) \in Mine(e)
      /\ \A i, j \in 1 .. N : At(i) = At(j) => i = j
  BY DevicesAreMine
<1>d. \A d \in Mine(e) : keepalive[d] # NoKeepAlive =>
         /\ keepalive[d] \in KeepAlive /\ keepalive[d].owner \in Nat /\ keepalive[d].wired \in Nat
  BY <1>a, <1>c, UsersAre DEF ObjectsTypeOK, KeepAlive
<1>e. NoKeepAlive \notin KeepAlive
  BY LifecycleAssumption DEF LifecycleAssumption
<1>1. CASE StartSetup(e)
  <2>1. /\ phase'[e] = "identify" /\ attempt'[e] = attempt[e] + 1 /\ pos'[e] = 1
        /\ keepalive' = keepalive /\ view' = view
    BY <1>1, <1>a, StartSetupDoes DEF objects
  <2>2. ASSUME NEW d \in Mine(e), keepalive[d] # NoKeepAlive
        PROVE  /\ keepalive[d].owner < attempt'[e] /\ keepalive[d].wired < attempt'[e]
    <3>1. keepalive[d].owner <= attempt[e] /\ keepalive[d].wired <= attempt[e]
      BY <2>2 DEF HealthFor, HealthOf
    <3> QED
      BY <2>1, <2>2, <3>1, <1>b, <1>d
  <2>3. ASSUME NEW d \in Mine(e) PROVE HealthOf(e, d)'
    <3>1. CASE keepalive[d] # NoKeepAlive
      <4>1. /\ keepalive[d].owner <= attempt'[e] /\ keepalive[d].wired <= attempt'[e]
            /\ keepalive[d].owner # attempt'[e]
        BY <2>1, <2>2, <3>1, <1>b, <1>d
      <4> QED
        BY <2>1, <4>1 DEF HealthOf
    <3> QED
      BY <2>1, <3>1 DEF HealthOf
  <2>4. \A i \in 1 .. N : ObjectAt(e, i)'
    BY <2>1, <2>2, <1>c DEF ObjectAt, Passed
  <2> QED
    BY <2>1, <2>3, <2>4 DEF HealthFor
<1>2. CASE Prepared(e)
  <2> DEFINE d0 == Device(e)
  <2>1. /\ phase[e] = "prepare" /\ phase'[e] = "load" /\ attempt'[e] = attempt[e] /\ pos'[e] = pos[e]
        /\ keepalive' = keepalive /\ view' = [view EXCEPT ![d0] = "up"]
    BY <1>2, <1>a, PreparedDoes
  <2>2. d0 \in Mine(e) /\ d0 = At(pos[e]) /\ pos[e] \in 1 .. N /\ Device(e)' = d0
    BY <2>1, AtDevice DEF Device
  <2>3. keepalive[d0] # NoKeepAlive => keepalive[d0].owner < attempt[e]
    BY <2>1, <2>2, <1>b DEF HealthFor, ObjectAt, Ahead
  <2>4. view'[d0] = "up" /\ \A d \in Mine(e) : d # d0 => view'[d] = view[d]
    BY <2>1, <2>2, <1>a, <1>c DEF ObjectsTypeOK
  <2>5. ASSUME NEW d \in Mine(e) PROVE HealthOf(e, d)'
    <3>1. CASE d = d0
      BY <2>1, <2>3, <3>1, <1>b, <1>d DEF HealthFor, HealthOf
    <3>2. CASE d # d0
      BY <2>1, <2>4, <3>2 DEF HealthFor, HealthOf
    <3> QED
      BY <3>1, <3>2
  <2>6. \A i \in 1 .. N : ObjectAt(e, i)'
    BY <2>1 DEF HealthFor, ObjectAt, Ahead, Passed
  <2> QED
    BY <2>2, <2>4, <2>5, <2>6 DEF HealthFor
<1>f. ASSUME NEW d \in Mine(e), \A c \in Mine(e) : c # d => SameObject(c) /\ view'[c] = view[c],
             attempt'[e] = attempt[e], HealthOf(e, d)'
      PROVE  \A c \in Mine(e) : HealthOf(e, c)'
  BY <1>f DEF HealthFor, HealthOf, SameObject
<1>3. CASE KeepAliveStarted(e)
  <2>1. /\ phase[e] = "load" /\ phase'[e] = "optimizers" /\ attempt'[e] = attempt[e]
        /\ pos'[e] = pos[e] /\ view' = view
        /\ keepalive' = [keepalive EXCEPT ![Device(e)] = Running(Registered(Device(e), attempt[e]))]
    BY <1>3, <1>a, KeepAliveStartedDoes
  <2>2. PICK d0 \in Mine(e) : d0 = Device(e) /\ d0 = At(pos[e])
    BY <2>1, AtDevice
  <2> DEFINE k == keepalive'[d0]
  <2>3. pos[e] \in 1 .. N /\ attempt[e] \in Attempts
    BY <2>1, AtDevice
  <2>4. keepalive[d0] # NoKeepAlive => keepalive[d0].owner < attempt[e]
    BY <2>1, <2>2, <2>3, <1>b DEF HealthFor, ObjectAt, Ahead
  <2>5. k = Running(Registered(d0, attempt[e])) /\ \A d \in Mine(e) : d # d0 => keepalive'[d] = keepalive[d]
    BY <2>1, <2>2, <1>a, <1>c DEF ObjectsTypeOK
  <2> HIDE DEF k
  <2>6. k # NoKeepAlive /\ HealthOf(e, d0)'
    <3>1. CASE keepalive[d0] = NoKeepAlive
      <4>1. k = [owner |-> attempt[e], wired |-> attempt[e], healthy |-> TRUE, task |-> "sleeping"]
        BY <2>5, <3>1 DEF Running, Registered
      <4>2. k # NoKeepAlive
        <5>1. k \in KeepAlive
          BY <2>3, <4>1 DEF KeepAlive
        <5> QED
          BY <5>1, <1>e
      <4>3. k.owner = attempt[e] /\ k.wired = attempt[e] /\ k.healthy = TRUE
        BY <4>1
      <4>4. view'[d0] = "up"
        BY <2>1, <2>2 DEF HealthFor
      <4> QED
        BY <2>1, <4>2, <4>3, <4>4, <1>b DEF HealthOf, k
    <3>2. CASE keepalive[d0] # NoKeepAlive
      <4>1. keepalive[d0] \in KeepAlive
        BY <3>2, <1>d
      <4>2. /\ k \in KeepAlive /\ k.owner = keepalive[d0].owner /\ k.wired = keepalive[d0].wired
            /\ k.healthy = keepalive[d0].healthy
        BY <2>5, <3>2, <4>1 DEF Running, Registered, KeepAlive
      <4>3. k # NoKeepAlive
        BY <4>2, <1>e
      <4> QED
        BY <2>1, <3>2, <4>2, <4>3 DEF HealthFor, HealthOf, k
    <3> QED
      BY <3>1, <3>2
  <2>7. \A d \in Mine(e) : HealthOf(e, d)'
    BY <2>1, <2>5, <2>6, <1>f DEF SameObject
  <2>8. ASSUME NEW i \in 1 .. N PROVE ObjectAt(e, i)'
    <3>1. CASE i = pos[e]
      BY <2>1, <2>2, <2>6, <3>1, <1>b DEF ObjectAt, Ahead, k
    <3>2. CASE i # pos[e]
      <4>1. At(i) # d0 /\ At(i) \in Mine(e)
        BY <2>2, <2>3, <3>2, <1>c
      <4>2. keepalive'[At(i)] = keepalive[At(i)]
        BY <2>5, <4>1
      <4>3. (Ahead(e, i)' => Ahead(e, i)) /\ (Passed(e, i)' => Passed(e, i))
        BY <2>1, <3>2, <1>b DEF Ahead, Passed
      <4> QED
        BY <2>1, <4>2, <4>3 DEF HealthFor, ObjectAt
    <3> QED
      BY <3>1, <3>2
  <2> QED
    BY <2>1, <2>7, <2>8 DEF HealthFor
<1>4. CASE DeviceReady(e)
  <2>1. /\ phase[e] = "optimizers" /\ attempt'[e] = attempt[e] /\ pos'[e] = pos[e] + 1 /\ view' = view
        /\ phase'[e] = IF pos[e] < N THEN "prepare" ELSE "platforms"
        /\ keepalive' = [keepalive EXCEPT ![Device(e)] =
                            IF @ = NoKeepAlive THEN @ ELSE [@ EXCEPT !.wired = attempt[e]]]
    BY <1>4, <1>a, DeviceReadyDoes
  <2>2. PICK d0 \in Mine(e) : d0 = Device(e) /\ d0 = At(pos[e])
    BY <2>1, AtDevice
  <2> DEFINE k == keepalive'[d0]
  <2>3. pos[e] \in 1 .. N /\ attempt[e] \in Attempts
    BY <2>1, AtDevice
  <2>4. keepalive[d0] # NoKeepAlive /\ keepalive[d0] \in KeepAlive
    BY <2>1, <2>2, <2>3, <1>b, <1>d DEF HealthFor, ObjectAt, Passed
  <2>5. k = [keepalive[d0] EXCEPT !.wired = attempt[e]]
        /\ \A d \in Mine(e) : d # d0 => keepalive'[d] = keepalive[d]
    BY <2>1, <2>2, <2>4, <1>a, <1>c DEF ObjectsTypeOK
  <2> HIDE DEF k
  <2>6. k # NoKeepAlive /\ HealthOf(e, d0)'
    <3>1. /\ k \in KeepAlive /\ k.owner = keepalive[d0].owner /\ k.wired = attempt[e]
          /\ k.healthy = keepalive[d0].healthy
      BY <2>3, <2>4, <2>5 DEF KeepAlive
    <3>2. k # NoKeepAlive
      BY <3>1, <1>e
    <3> QED
      BY <2>1, <2>4, <3>1, <3>2, <1>b DEF HealthFor, HealthOf, k
  <2>7. \A d \in Mine(e) : HealthOf(e, d)'
    BY <2>1, <2>5, <2>6, <1>f DEF SameObject
  <2>8. ASSUME NEW i \in 1 .. N PROVE ObjectAt(e, i)'
    <3>1. CASE i = pos[e]
      <4>1. ~Ahead(e, i)' /\ keepalive'[At(i)] # NoKeepAlive
        BY <2>1, <2>2, <2>6, <3>1, <1>b DEF Ahead, k
      <4> QED
        BY <4>1 DEF ObjectAt
    <3>2. CASE i # pos[e]
      <4>1. At(i) # d0 /\ At(i) \in Mine(e)
        BY <2>2, <2>3, <3>2, <1>c
      <4>2. keepalive'[At(i)] = keepalive[At(i)]
        BY <2>5, <4>1
      <4>3. (Ahead(e, i)' => Ahead(e, i)) /\ (Passed(e, i)' => Passed(e, i))
        BY <2>1, <2>3, <3>2, <1>b, <1>c DEF Ahead, Passed
      <4> QED
        BY <2>1, <4>2, <4>3 DEF HealthFor, ObjectAt
    <3> QED
      BY <3>1, <3>2
  <2> QED
    BY <2>1, <2>7, <2>8 DEF HealthFor
<1>5. CASE Teardown(e)
  <2>1. /\ phase'[e] \in {"off", "failed"} /\ \A d \in Mine(e) : keepalive'[d] = NoKeepAlive
    BY <1>5, <1>a, TeardownDoes
  <2>2. \A d \in Mine(e) : HealthOf(e, d)'
    BY <2>1 DEF HealthOf
  <2>3. \A i \in 1 .. N : ObjectAt(e, i)'
    BY <2>1 DEF ObjectAt, Ahead, Passed
  <2> QED
    BY <2>1, <2>2, <2>3 DEF HealthFor
<1>6. CASE Plain(e)
  BY <1>6, PlainObjects, PlainPhases, HealthStays
<1> QED
  BY <1>1, <1>2, <1>3, <1>4, <1>5, <1>6 DEF EntryStep, SetupSteps, UnloadSteps, Plain

\* A step that does not concern an entry and keeps its objects keeps what is
\* known of them.
LEMMA UntouchedHealth ==
    ASSUME NEW f \in Entries, HealthFor(f), Untouched(f),
           \A d \in Mine(f) : SameObject(d) /\ view'[d] = view[d],
           phase[f] = "load" => Device(f) \in Mine(f)
    PROVE  HealthFor(f)'
<1>1. \A i \in 1 .. Len(DevicesOf[f]) : /\ Ahead(f, i)' => Ahead(f, i)
                                        /\ Passed(f, i)' => Passed(f, i)
  BY DEF Untouched, Ahead, Passed
<1> QED
  BY <1>1, HealthStays DEF Untouched

\* What a step of a keep-alive task does to its device, and to no other.
LEMMA DeviceStepDoes ==
    ASSUME LifecycleTypeOK, NEW d \in Devices, DeviceStep(d)
    PROVE  /\ UNCHANGED <<registry, history, telemetry>>
           /\ \A c \in Devices : c # d => SameDevice(c)
           /\ keepalive'[d] = NoKeepAlive <=> keepalive[d] = NoKeepAlive
           /\ dying'[d] => dying[d]
           /\ keepalive[d] # NoKeepAlive =>
                 /\ keepalive'[d].owner = keepalive[d].owner
                 /\ keepalive'[d].wired = keepalive[d].wired
                 /\ keepalive'[d].task = "none" <=> keepalive[d].task = "none"
           /\ \/ view'[d] = view[d] /\ SameObject(d)
              \/ /\ keepalive[d] # NoKeepAlive
                 /\ IF keepalive[d].wired = attempt[EntryOf(d)]
                    THEN view'[d] = "up" <=> keepalive'[d].healthy
                    ELSE view'[d] = view[d]
<1>a. ObjectsTypeOK
  BY TypeParts
<1>b. keepalive[d] # NoKeepAlive => keepalive[d] \in KeepAlive
  BY <1>a DEF ObjectsTypeOK
<1>c. NoKeepAlive \notin KeepAlive
  BY LifecycleAssumption DEF LifecycleAssumption
<1>1. CASE ProbeStarts(d)
  <2>1. /\ keepalive[d] # NoKeepAlive /\ keepalive[d].task = "sleeping"
        /\ keepalive' = [keepalive EXCEPT ![d].task = "probing"]
        /\ UNCHANGED <<registry, history, telemetry, dying, view>>
    BY <1>1 DEF ProbeStarts
  <2>2. keepalive'[d] = [keepalive[d] EXCEPT !.task = "probing"]
    BY <2>1, <1>a DEF ObjectsTypeOK
  <2>3. /\ keepalive'[d] \in KeepAlive /\ keepalive'[d].owner = keepalive[d].owner
        /\ keepalive'[d].wired = keepalive[d].wired /\ keepalive'[d].healthy = keepalive[d].healthy
        /\ keepalive'[d].task = "probing"
    BY <2>1, <2>2, <1>b DEF KeepAlive
  <2>4. \A c \in Devices : c # d => SameDevice(c)
    BY <2>1, <1>a DEF ObjectsTypeOK, SameDevice
  <2>5. keepalive'[d] # NoKeepAlive
    BY <2>3, <1>c
  <2> QED
    BY <2>1, <2>3, <2>4, <2>5 DEF SameObject
<1>2. CASE ProbeEnds(d)
  <2>1. keepalive[d] # NoKeepAlive /\ keepalive[d].task = "probing"
        /\ UNCHANGED <<registry, history, telemetry, dying>>
    BY <1>2 DEF ProbeEnds
  <2>2. PICK h \in BOOLEAN :
          /\ keepalive'[d] = [keepalive[d] EXCEPT !.task = "sleeping", !.healthy = h]
          /\ \A c \in Devices : c # d => keepalive'[c] = keepalive[c] /\ view'[c] = view[c]
          /\ \/ view'[d] = view[d] /\ h = keepalive[d].healthy
             \/ view'[d] = IF keepalive[d].wired = attempt[EntryOf(d)]
                           THEN IF h THEN "up" ELSE "down"
                           ELSE view[d]
    <3>1. keepalive[d].healthy \in BOOLEAN /\ keepalive[d] \in KeepAlive
      BY <2>1, <1>b DEF KeepAlive
    <3>2. CASE /\ keepalive' = [keepalive EXCEPT ![d].task = "sleeping", ![d].healthy = Restored(@)]
               /\ IF keepalive[d].healthy THEN UNCHANGED view ELSE Told(d, "up")
      <4>1. keepalive'[d] = [keepalive[d] EXCEPT !.task = "sleeping", !.healthy = TRUE]
        BY <3>1, <3>2, <1>a DEF ObjectsTypeOK, Restored, KeepAlive
      <4>2. \A c \in Devices : c # d => keepalive'[c] = keepalive[c] /\ view'[c] = view[c]
        BY <3>2, <1>a DEF ObjectsTypeOK, Told
      <4>3. \/ view'[d] = view[d] /\ keepalive[d].healthy
            \/ view'[d] = IF keepalive[d].wired = attempt[EntryOf(d)] THEN "up" ELSE view[d]
        BY <3>2, <1>a DEF ObjectsTypeOK, Told
      <4> QED
        BY <3>1, <4>1, <4>2, <4>3
    <3>3. CASE /\ keepalive' = [keepalive EXCEPT ![d].task = "sleeping", ![d].healthy = FALSE]
               /\ IF keepalive[d].healthy THEN Told(d, "down") ELSE UNCHANGED view
      <4>1. keepalive'[d] = [keepalive[d] EXCEPT !.task = "sleeping", !.healthy = FALSE]
        BY <3>1, <3>3, <1>a DEF ObjectsTypeOK, KeepAlive
      <4>2. \A c \in Devices : c # d => keepalive'[c] = keepalive[c] /\ view'[c] = view[c]
        BY <3>3, <1>a DEF ObjectsTypeOK, Told
      <4>3. \/ view'[d] = view[d] /\ ~keepalive[d].healthy
            \/ view'[d] = IF keepalive[d].wired = attempt[EntryOf(d)] THEN "down" ELSE view[d]
        BY <3>3, <1>a DEF ObjectsTypeOK, Told
      <4> QED
        BY <3>1, <4>1, <4>2, <4>3
    <3>4. CASE keepalive' = [keepalive EXCEPT ![d].task = "sleeping"] /\ UNCHANGED view
      <4>1. keepalive'[d] = [keepalive[d] EXCEPT !.task = "sleeping",
                                                 !.healthy = keepalive[d].healthy]
        BY <3>1, <3>4, <1>a DEF ObjectsTypeOK, KeepAlive
      <4>2. \A c \in Devices : c # d => keepalive'[c] = keepalive[c] /\ view'[c] = view[c]
        BY <3>4, <1>a DEF ObjectsTypeOK
      <4> QED
        BY <3>1, <3>4, <4>1, <4>2
    <3> QED
      BY <1>2, <3>2, <3>3, <3>4 DEF ProbeEnds
  <2>3. /\ keepalive'[d] \in KeepAlive /\ keepalive'[d].owner = keepalive[d].owner
        /\ keepalive'[d].wired = keepalive[d].wired /\ keepalive'[d].healthy = h
        /\ keepalive'[d].task = "sleeping"
    BY <2>1, <2>2, <1>b DEF KeepAlive
  <2>4. \A c \in Devices : c # d => SameDevice(c)
    BY <2>1, <2>2 DEF SameDevice
  <2>5. keepalive'[d] # NoKeepAlive
    BY <2>3, <1>c
  <2>6. \/ view'[d] = view[d] /\ SameObject(d)
        \/ IF keepalive[d].wired = attempt[EntryOf(d)]
           THEN view'[d] = "up" <=> keepalive'[d].healthy
           ELSE view'[d] = view[d]
    BY <2>1, <2>2, <2>3, <2>5 DEF SameObject
  <2> QED
    BY <2>1, <2>3, <2>4, <2>5, <2>6
<1>3. CASE KeepAliveGone(d)
  <2>1. /\ UNCHANGED <<registry, history, telemetry, keepalive, view>>
        /\ ~dying'[d] /\ \A c \in Devices : c # d => dying'[c] = dying[c]
    BY <1>3, <1>a DEF KeepAliveGone, ObjectsTypeOK
  <2> QED
    BY <2>1 DEF SameObject, SameDevice
<1> QED
  BY <1>1, <1>2, <1>3 DEF DeviceStep

\* A step of a keep-alive task keeps what is known of its device.
LEMMA DeviceStepHealth ==
    ASSUME Bookkeeping, NEW e \in Entries, HealthFor(e), NEW d \in Mine(e), DeviceStep(d)
    PROVE  HealthFor(e)'
<1>a. LifecycleTypeOK /\ EntriesTypeOK /\ ObjectsTypeOK
  BY TypeParts DEF Bookkeeping
<1>b. /\ d \in Devices /\ EntryOf(d) = e /\ Mine(e) \subseteq Devices
      /\ \A i \in 1 .. Len(DevicesOf[e]) : DevicesOf[e][i] \in Mine(e)
  BY DevicesAreMine
<1>c. /\ phase'[e] = phase[e] /\ attempt'[e] = attempt[e] /\ pos'[e] = pos[e]
      /\ Device(e)' = Device(e)
  BY TasksTouchNoEntry DEF Untouched, Device
<1>d. \A c \in Mine(e) : c # d => keepalive'[c] = keepalive[c] /\ view'[c] = view[c]
  BY <1>a, <1>b, DeviceStepDoes DEF SameDevice
<1>e. /\ keepalive'[d] = NoKeepAlive <=> keepalive[d] = NoKeepAlive
      /\ keepalive[d] # NoKeepAlive => /\ keepalive'[d].owner = keepalive[d].owner
                                       /\ keepalive'[d].wired = keepalive[d].wired
  BY <1>a, <1>b, DeviceStepDoes
<1>f. \/ view'[d] = view[d] /\ SameObject(d)
      \/ /\ keepalive[d] # NoKeepAlive
         /\ IF keepalive[d].wired = attempt[e] THEN view'[d] = "up" <=> keepalive'[d].healthy
                                               ELSE view'[d] = view[d]
  BY <1>a, <1>b, DeviceStepDoes
<1>1. HealthOf(e, d)'
  <2>1. CASE view'[d] = view[d] /\ SameObject(d)
    BY <1>c, <2>1 DEF HealthFor, HealthOf, SameObject
  <2>2. CASE /\ keepalive[d] # NoKeepAlive
             /\ IF keepalive[d].wired = attempt[e] THEN view'[d] = "up" <=> keepalive'[d].healthy
                                                   ELSE view'[d] = view[d]
    <3>1. /\ keepalive[d].owner <= attempt[e] /\ keepalive[d].wired <= attempt[e]
          /\ keepalive[d].owner = attempt[e] => keepalive[d].wired = attempt[e]
      BY <2>2 DEF HealthFor, HealthOf
    <3> QED
      BY <1>c, <1>e, <2>2, <3>1 DEF HealthOf
  <2> QED
    BY <1>f, <2>1, <2>2
<1>2. \A c \in Mine(e) : HealthOf(e, c)'
  BY <1>1, <1>c, <1>d DEF HealthFor, HealthOf
<1>3. ASSUME NEW i \in 1 .. Len(DevicesOf[e]) PROVE ObjectAt(e, i)'
  <2>1. DevicesOf[e][i] \in Mine(e)
    BY <1>b
  <2>2. DevicesOf[e][i] # d => keepalive'[DevicesOf[e][i]] = keepalive[DevicesOf[e][i]]
    BY <2>1, <1>d
  <2>3. (Ahead(e, i)' <=> Ahead(e, i)) /\ (Passed(e, i)' <=> Passed(e, i))
    BY <1>c DEF Ahead, Passed
  <2>4. ObjectAt(e, i)
    BY DEF HealthFor
  <2> QED
    BY <2>2, <2>3, <2>4, <1>c, <1>e DEF ObjectAt
<1>4. phase'[e] = "load" => view'[Device(e)'] = "up"
  <2>1. CASE phase[e] = "load" /\ Device(e) = d
    <3>1. pos[e] \in 1 .. Len(DevicesOf[e]) /\ d = DevicesOf[e][pos[e]] /\ attempt[e] \in Nat
      BY <2>1, <1>a, AtDevice, UsersAre DEF EntriesTypeOK
    <3>2. keepalive[d] # NoKeepAlive => keepalive[d].wired # attempt[e]
      BY <2>1, <3>1 DEF HealthFor, ObjectAt, Ahead
    <3>3. view'[d] = view[d]
      BY <1>f, <3>2
    <3> QED
      BY <2>1, <3>3, <1>c DEF HealthFor
  <2>2. CASE phase[e] = "load" /\ Device(e) # d
    BY <2>2, <1>c, <1>d, AtDevice DEF HealthFor
  <2> QED
    BY <2>1, <2>2, <1>c
<1> QED
  BY <1>2, <1>3, <1>4 DEF HealthFor

\* Health is known whoever moves.
LEMMA HealthStep == Bookkeeping /\ Health /\ [Next]_vars => Health'
<1> SUFFICES ASSUME Bookkeeping, Health, [Next]_vars, NEW f \in Entries PROVE HealthFor(f)'
  BY DEF Health
<1>a. LifecycleTypeOK /\ HealthFor(f)
  BY DEF Bookkeeping, Health
<1>b. phase[f] = "load" => Device(f) \in Mine(f)
  BY AtDevice
<1>c. Mine(f) \subseteq Devices
  BY DevicesAreMine
<1>d. ASSUME \A d \in Mine(f) : SameDevice(d) PROVE \A d \in Mine(f) : SameObject(d) /\ view'[d] = view[d]
  BY <1>d DEF SameDevice, SameObject
<1>1. ASSUME NEW e \in Entries, EntryStep(e) PROVE HealthFor(f)'
  <2>1. CASE f = e
    BY <1>1, <2>1, <1>a, EntryStepHealth
  <2>2. CASE f # e
    <3>1. Untouched(f)
      BY <1>1, <2>2, <1>a, OthersUntouched
    <3>2. \A d \in Mine(f) : SameDevice(d)
      BY <1>1, <2>2, <1>c, OtherDevices, DevicesAreApart
    <3> QED
      BY <3>1, <3>2, <1>a, <1>b, <1>d, UntouchedHealth
  <2> QED
    BY <2>1, <2>2
<1>2. ASSUME NEW d \in Devices, DeviceStep(d) PROVE HealthFor(f)'
  <2>1. CASE d \in Mine(f)
    BY <1>2, <2>1, <1>a, DeviceStepHealth
  <2>2. CASE d \notin Mine(f)
    <3>1. \A c \in Mine(f) : SameDevice(c)
      BY <1>2, <2>2, <1>a, <1>c, DeviceStepDoes
    <3> QED
      BY <1>2, <3>1, <1>a, <1>b, <1>d, UntouchedHealth, TasksTouchNoEntry
  <2> QED
    BY <2>1, <2>2
<1>3. ASSUME NEW g \in Flows, FlowStep(g) PROVE HealthFor(f)'
  <2>1. UNCHANGED objects
    BY <1>3 DEF FlowStep, FlowStarts, FlowEnds
  <2> QED
    BY <1>3, <2>1, <1>a, <1>b, <1>d, UntouchedHealth, TasksTouchNoEntry DEF objects, SameDevice
<1>4. CASE UNCHANGED vars
  BY <1>4, <1>a, <1>b, <1>d, UntouchedHealth DEF vars, objects, history, Untouched, SameDevice
<1> QED
  BY <1>1, <1>2, <1>3, <1>4 DEF Next, EntryStep, DeviceStep, FlowStep

-----------------------------------------------------------------------------
(* Layer 4: what runs, and what will stop it. *)

\* What a step leaves of the tasks and timers of an entry.
SameTasks(e) ==
    \A d \in Mine(e) : /\ Runs(d)' <=> Runs(d)
                       /\ OwnObject(e, d)' <=> OwnObject(e, d)
                       /\ telemetry'[d] = telemetry[d]
                       /\ dying'[d] => dying[d]

LEMMA ObjectsSame ==
    ASSUME NEW e, UNCHANGED objects, attempt'[e] = attempt[e]
    PROVE  SameTasks(e)
BY DEF objects, SameTasks, Runs, OwnObject

LEMMA UntouchedTeardown ==
    ASSUME NEW e \in Entries, TeardownFor(e), Untouched(e), SameTasks(e)
    PROVE  TeardownFor(e)'
<1>a. StoppedByUnload(e) /\ LineOf(e) /\ \A i \in 1 .. Len(DevicesOf[e]) : DevicesOf[e][i] \in Mine(e)
  BY DevicesAreMine DEF TeardownFor
<1>b. (Latest(e)' <=> Latest(e)) /\ (Undoing(e)' <=> Undoing(e)) /\ Left(e)' = Left(e)
  BY DEF Untouched, Latest, Undoing, Left
<1>1. StoppedByUnload(e)'
  BY <1>a DEF StoppedByUnload, Untouched, SameTasks
<1>2. LineOf(e)'
  BY <1>a, <1>b DEF LineOf, Untouched, SameTasks
<1>3. ASSUME NEW d \in Mine(e)
      PROVE  TaskOwed(e, d)' /\ TelemetryOwed(e, d)' /\ QuietOnClosedLine(e, d)'
  <2>1. TaskOwed(e, d) /\ TelemetryOwed(e, d) /\ QuietOnClosedLine(e, d)
    BY DEF TeardownFor
  <2> QED
    BY <2>1, <1>b DEF TaskOwed, TelemetryOwed, QuietOnClosedLine, Untouched, SameTasks
<1> QED
  BY <1>1, <1>2, <1>3 DEF TeardownFor

\* A list that is empty holds nothing.
LEMMA ElementsOfNone == Elements(<< >>) = {} /\ Elements(RefCleanup) = {RefItem}
BY DEF Elements, RefCleanup, RefItem

\* The items are different from each other.
LEMMA ItemsDiffer ==
    ASSUME NEW d \in Devices
    PROVE  /\ TaskItem(d) # RefItem /\ TaskItem(d) # ClientItem
           /\ TelemetryItem(d) # RefItem /\ TelemetryItem(d) # ClientItem /\ ClientItem # RefItem
           /\ \A c \in Devices : /\ TaskItem(d) # TelemetryItem(c)
                                 /\ TaskItem(d) = TaskItem(c) => d = c
                                 /\ TelemetryItem(d) = TelemetryItem(c) => d = c
BY ItemsAreItems

\* Before the first device of an attempt there is no object of it.
LEMMA NoObjectYet ==
    ASSUME Bookkeeping, NEW e \in Entries, HealthFor(e), phase[e] \in {"identify", "closing"}
    PROVE  \A d \in Mine(e) : ~OwnObject(e, d)
<1>1. AttemptOf(e) /\ EntriesTypeOK
  BY TypeParts DEF Bookkeeping
<1>2. pos[e] = 1 /\ attempt[e] \in Nat
  BY <1>1, UsersAre DEF AttemptOf, EntriesTypeOK
<1>3. ASSUME NEW d \in Mine(e) PROVE ~OwnObject(e, d)
  <2>1. PICK i \in 1 .. Len(DevicesOf[e]) : d = DevicesOf[e][i]
    BY DevicesAreMine
  <2>2. i >= 1
    BY <2>1, DevicesAreMine
  <2>3. Ahead(e, i)
    BY <1>2, <2>2 DEF Ahead
  <2>4. keepalive[d] # NoKeepAlive => keepalive[d].owner < attempt[e]
    BY <2>1, <2>3 DEF HealthFor, ObjectAt
  <2> QED
    BY <1>2, <2>4 DEF OwnObject
<1> QED
  BY <1>3

\* The start of an attempt.
LEMMA StartTeardown ==
    ASSUME Bookkeeping, NEW e \in Entries, HealthFor(e), TeardownFor(e), StartSetup(e)
    PROVE  TeardownFor(e)'
<1>a. EntriesTypeOK /\ AttemptOf(e) /\ RollbackOf(e)
  BY TypeParts DEF Bookkeeping
<1>1. /\ phase[e] = "off" /\ phase'[e] = "identify" /\ attempt'[e] = attempt[e] + 1
      /\ cleanup'[e] = RefCleanup /\ undo'[e] = undo[e] /\ dropped'[e] = dropped[e]
      /\ UNCHANGED objects
  BY <1>a, StartSetupDoes
<1>2. attempt[e] \in Nat /\ undo[e].attempt \in Nat
  BY <1>a, UsersAre DEF EntriesTypeOK
<1>3. ~Latest(e)'
  <2>1. Undoing(e) => undo[e].attempt \in 1 .. attempt[e]
    BY <1>a DEF RollbackOf
  <2>2. Undoing(e) => undo[e].attempt # attempt[e] + 1
    BY <1>2, <2>1
  <2> QED
    BY <1>1, <2>2 DEF Latest, Undoing
<1>4. Left(e) \subseteq Left(e)' /\ ClientItem \notin Elements(cleanup'[e])
  <2>1. cleanup[e] = << >>
    BY <1>1, <1>a DEF AttemptOf, SettingUp
  <2>2. ClientItem # RefItem
    BY DEF ClientItem, RefItem
  <2> QED
    BY <1>1, <2>1, <2>2, ElementsOfNone DEF Left
<1>5. ASSUME NEW d \in Mine(e) PROVE ~OwnObject(e, d)'
  <2>1. keepalive[d] # NoKeepAlive => keepalive[d].owner <= attempt[e]
    BY DEF HealthFor, HealthOf
  <2>2. keepalive[d] # NoKeepAlive => keepalive[d].owner \in Nat
    <3>1. d \in Devices /\ ObjectsTypeOK
      BY TypeParts, DevicesAreMine DEF Bookkeeping
    <3> QED
      BY <3>1, UsersAre DEF ObjectsTypeOK, KeepAlive
  <2> QED
    BY <1>1, <1>2, <2>1, <2>2 DEF OwnObject, objects
<1>6. StoppedByUnload(e)' /\ LineOf(e)'
  BY <1>1, <1>3, <1>4 DEF StoppedByUnload, LineOf
<1>7. ASSUME NEW d \in Mine(e)
      PROVE  TaskOwed(e, d)' /\ TelemetryOwed(e, d)' /\ QuietOnClosedLine(e, d)'
  <2>1. TaskOwed(e, d) /\ TelemetryOwed(e, d)
    BY DEF TeardownFor
  <2>2. telemetry'[d] = telemetry[d] /\ (Runs(d)' <=> Runs(d))
    BY <1>1 DEF objects, Runs
  <2> QED
    BY <1>1, <1>4, <1>5, <2>1, <2>2 DEF TaskOwed, TelemetryOwed, QuietOnClosedLine
<1> QED
  BY <1>6, <1>7 DEF TeardownFor

\* An attempt that goes on owes what it owed, and what it has started since.
LEMMA AttemptGoesOn ==
    ASSUME Bookkeeping, NEW e \in Entries, TeardownFor(e),
           phase[e] \in SettingUp, phase'[e] \in SettingUp,
           attempt'[e] = attempt[e], undo'[e] = undo[e], dropped'[e] = dropped[e],
           Left(e) \subseteq Left(e)', ClientItem \notin Elements(cleanup'[e]),
           IF phase'[e] \in {"identify", "closing"} THEN \A d \in Mine(e) : ~OwnObject(e, d)'
                                                    ELSE transport'[e] # "closed",
           \A d \in Mine(e) :
              /\ \/ TaskItem(d) \in Left(e)'
                 \/ Runs(d)' => Runs(d) /\ (OwnObject(e, d)' => OwnObject(e, d))
              /\ telemetry'[d] = telemetry[d] \/ TelemetryItem(d) \in Left(e)'
    PROVE  TeardownFor(e)'
<1>a. RollbackOf(e)
  BY DEF Bookkeeping
<1>1. ~Latest(e) /\ ~Latest(e)'
  BY <1>a DEF RollbackOf, Latest, Undoing, SettingUp
<1>2. StoppedByUnload(e)' /\ LineOf(e)'
  BY <1>1 DEF StoppedByUnload, LineOf, SettingUp
<1>3. ASSUME NEW d \in Mine(e)
      PROVE  TaskOwed(e, d)' /\ TelemetryOwed(e, d)' /\ QuietOnClosedLine(e, d)'
  <2>1. TaskOwed(e, d) /\ TelemetryOwed(e, d)
    BY DEF TeardownFor
  <2>2. TaskOwed(e, d)'
    BY <1>1, <2>1 DEF TaskOwed
  <2>3. TelemetryOwed(e, d)'
    BY <1>1, <2>1 DEF TelemetryOwed
  <2>4. QuietOnClosedLine(e, d)'
    BY DEF QuietOnClosedLine
  <2> QED
    BY <2>2, <2>3, <2>4
<1> QED
  BY <1>2, <1>3 DEF TeardownFor

\* A rollback that starts takes over everything the attempt owed.
LEMMA RollbackTakesOver ==
    ASSUME Bookkeeping, NEW e \in Entries, TeardownFor(e), phase[e] \in SettingUp, ~Undoing(e),
           phase'[e] = "undoing", attempt'[e] = attempt[e], undo'[e].attempt = attempt[e],
           undo'[e].mode # "none", cleanup'[e] = << >>, dropped[e] => dropped'[e],
           Elements(cleanup[e]) \subseteq Elements(undo'[e].todo), UNCHANGED objects,
           \/ undo'[e].stop /\ transport'[e] # "closed" /\ undo'[e].todo = cleanup[e]
           \/ /\ \A d \in Mine(e) : ~OwnObject(e, d)
              /\ \/ dropped'[e]
                 \/ transport'[e] # "open"
                 \/ ClientItem \in Elements(undo'[e].todo)
    PROVE  TeardownFor(e)'
<1>a. RollbackOf(e) /\ SameTasks(e) /\ LineOf(e)
  BY ObjectsSame DEF Bookkeeping, TeardownFor
<1>1. Latest(e)'
  BY DEF Latest, Undoing
<1>2. Left(e) \subseteq Left(e)'
  BY <1>a, ElementsOfNone DEF Left, RollbackOf
<1>3. ClientItem \notin Elements(cleanup[e]) /\ ClientItem \notin Elements(cleanup'[e])
  BY <1>a, ElementsOfNone DEF LineOf
<1>4. StoppedByUnload(e)'
  BY DEF StoppedByUnload
<1>5. LineOf(e)'
  BY <1>a, <1>1, <1>3 DEF LineOf, SameTasks
<1>6. ASSUME NEW d \in Mine(e)
      PROVE  TaskOwed(e, d)' /\ TelemetryOwed(e, d)' /\ QuietOnClosedLine(e, d)'
  <2>1. TaskOwed(e, d) /\ TelemetryOwed(e, d)
    BY DEF TeardownFor
  <2>2. TaskOwed(e, d)'
    BY <1>a, <1>2, <2>1 DEF TaskOwed, SameTasks
  <2>3. TelemetryOwed(e, d)'
    BY <1>a, <1>2, <2>1 DEF TelemetryOwed, SameTasks
  <2>4. QuietOnClosedLine(e, d)'
    BY <1>a DEF QuietOnClosedLine, SameTasks
  <2> QED
    BY <2>2, <2>3, <2>4
<1> QED
  BY <1>4, <1>5, <1>6 DEF TeardownFor

\* The steps of an attempt.
LEMMA SetupTeardown ==
    ASSUME Bookkeeping, NEW e \in Entries, HealthFor(e), TeardownFor(e),
           SetupSteps(e) \/ SetupFails(e) \/ SetupCancelled(e)
    PROVE  TeardownFor(e)'
<1>a. EntriesTypeOK /\ ObjectsTypeOK /\ AttemptOf(e) /\ RollbackOf(e)
  BY TypeParts DEF Bookkeeping
<1>b. /\ ClientItem \notin Elements(cleanup[e])
      /\ phase[e] \in {"prepare", "load", "optimizers", "platforms", "loaded", "unloading"}
            => transport[e] # "closed"
  BY DEF TeardownFor, LineOf
<1>c. cleanup[e] \in Seq(Item) /\ ListOf(e, cleanup[e]) /\ Mine(e) \subseteq Devices
  BY <1>a, DevicesAreMine DEF EntriesTypeOK, Bookkeeping
<1>d. phase[e] \in {"prepare", "load", "optimizers"} => Device(e) \in Mine(e) /\ cleanup[e] # << >>
  BY <1>a, AtDevice DEF AttemptOf, SettingUp
<1>e. SettingUp = {"identify", "closing", "prepare", "load", "optimizers", "platforms"}
  BY DEF SettingUp
<1>1. CASE Identified(e)
  <2>1. /\ phase[e] = "identify" /\ phase'[e] = "prepare" /\ transport'[e] = "open"
        /\ attempt'[e] = attempt[e] /\ cleanup'[e] = cleanup[e] /\ undo'[e] = undo[e]
        /\ dropped'[e] = dropped[e] /\ UNCHANGED objects
    BY <1>1, <1>a, IdentifiedDoes
  <2>2. SameTasks(e) /\ Left(e)' = Left(e)
    BY <2>1, ObjectsSame DEF Left
  <2> QED
    BY <2>1, <2>2, <1>b, <1>e, AttemptGoesOn DEF SameTasks
<1>2. CASE IdentifyFails(e)
  <2>1. /\ phase[e] = "identify" /\ phase'[e] = "closing"
        /\ attempt'[e] = attempt[e] /\ cleanup'[e] = cleanup[e] /\ undo'[e] = undo[e]
        /\ dropped'[e] = dropped[e] /\ UNCHANGED objects
    BY <1>2, <1>a, IdentifyFailsDoes
  <2>2. SameTasks(e) /\ Left(e)' = Left(e)
    BY <2>1, ObjectsSame DEF Left
  <2>3. \A d \in Mine(e) : ~OwnObject(e, d)'
    BY <2>1, <2>2, NoObjectYet DEF SameTasks
  <2> QED
    BY <2>1, <2>2, <2>3, <1>b, <1>e, AttemptGoesOn DEF SameTasks
<1>3. CASE ClientClosed(e)
  <2>1. \A d \in Mine(e) : ~OwnObject(e, d)
    BY <1>3, <1>a, ClientClosedDoes, NoObjectYet
  <2> QED
    BY <1>3, <1>a, <1>e, <2>1, ClientClosedDoes, RollbackTakesOver
<1>4. CASE Prepared(e)
  <2>1. /\ phase[e] = "prepare" /\ phase'[e] = "load" /\ transport'[e] = transport[e]
        /\ attempt'[e] = attempt[e] /\ undo'[e] = undo[e] /\ dropped'[e] = dropped[e]
        /\ cleanup'[e] = Append(cleanup[e], TelemetryItem(Device(e)))
        /\ telemetry' = [telemetry EXCEPT ![Device(e)] = IF @ = "none" THEN "armed" ELSE @]
        /\ keepalive' = keepalive
    BY <1>4, <1>a, PreparedDoes
  <2>2. PICK d0 \in Mine(e) : d0 = Device(e)
    BY <2>1, <1>d
  <2>3. TelemetryItem(d0) \in Item /\ TelemetryItem(d0) # RefItem /\ TelemetryItem(d0).device = d0
        /\ ClientItem # TelemetryItem(d0)
    BY <1>c, ItemsAreItems, ItemsDiffer
  <2> DEFINE x == TelemetryItem(d0)
  <2> HIDE DEF x
  <2>4. Elements(Append(cleanup[e], x)) = Elements(cleanup[e]) \cup {x}
    BY <2>1, <2>2, <2>3, <1>c, <1>d, ListGrows DEF x
  <2>5. cleanup'[e] = Append(cleanup[e], x) /\ ClientItem # x
    BY <2>1, <2>2, <2>3 DEF x
  <2>6. Left(e)' = Left(e) \cup {x} /\ ClientItem \notin Elements(cleanup'[e])
    BY <2>1, <2>4, <2>5, <1>b DEF Left
  <2>7. \A d \in Mine(e) : telemetry'[d] = telemetry[d] \/ TelemetryItem(d) \in Left(e)'
    BY <2>1, <2>2, <2>6, <1>a, <1>c DEF ObjectsTypeOK, x
  <2>8. \A d \in Mine(e) : Runs(d)' => Runs(d) /\ (OwnObject(e, d)' => OwnObject(e, d))
    BY <2>1 DEF Runs, OwnObject
  <2>9. phase[e] \in SettingUp /\ phase'[e] \in SettingUp /\ transport'[e] # "closed"
        /\ phase'[e] \notin {"identify", "closing"} /\ Left(e) \subseteq Left(e)'
    BY <2>1, <2>6, <1>b, <1>e
  <2> QED
    BY <2>1, <2>6, <2>7, <2>8, <2>9, AttemptGoesOn
<1>5. CASE KeepAliveStarted(e)
  <2>1. /\ phase[e] = "load" /\ phase'[e] = "optimizers" /\ transport'[e] = transport[e]
        /\ attempt'[e] = attempt[e] /\ undo'[e] = undo[e] /\ dropped'[e] = dropped[e]
        /\ cleanup'[e] = cleanup[e] \o <<TaskItem(Device(e))>>
        /\ keepalive' = [keepalive EXCEPT ![Device(e)] = Running(Registered(Device(e), attempt[e]))]
        /\ telemetry' = telemetry
    BY <1>5, <1>a, KeepAliveStartedDoes
  <2>2. PICK d0 \in Mine(e) : d0 = Device(e)
    BY <2>1, <1>d
  <2>3. TaskItem(d0) \in Item /\ TaskItem(d0) # RefItem /\ TaskItem(d0).device = d0
        /\ ClientItem # TaskItem(d0)
    BY <1>c, ItemsAreItems, ItemsDiffer
  <2> DEFINE x == TaskItem(d0)
  <2> HIDE DEF x
  <2>4. /\ Elements(Append(cleanup[e], x)) = Elements(cleanup[e]) \cup {x}
        /\ cleanup[e] \o <<x>> = Append(cleanup[e], x)
    BY <2>1, <2>2, <2>3, <1>c, <1>d, ListGrows DEF x
  <2>5. cleanup'[e] = Append(cleanup[e], x) /\ ClientItem # x
    BY <2>1, <2>2, <2>3, <2>4 DEF x
  <2>6. Left(e)' = Left(e) \cup {x} /\ ClientItem \notin Elements(cleanup'[e])
    BY <2>1, <2>4, <2>5, <1>b DEF Left
  <2>7. \A d \in Mine(e) : d # d0 => keepalive'[d] = keepalive[d]
    BY <2>1, <2>2, <1>a, <1>c DEF ObjectsTypeOK
  <2>8. \A d \in Mine(e) : \/ TaskItem(d) \in Left(e)'
                           \/ Runs(d)' => Runs(d) /\ (OwnObject(e, d)' => OwnObject(e, d))
    BY <2>1, <2>6, <2>7 DEF Runs, OwnObject, x
  <2>9. phase[e] \in SettingUp /\ phase'[e] \in SettingUp /\ transport'[e] # "closed"
        /\ phase'[e] \notin {"identify", "closing"} /\ Left(e) \subseteq Left(e)'
    BY <2>1, <2>6, <1>b, <1>e
  <2> QED
    BY <2>1, <2>6, <2>8, <2>9, AttemptGoesOn
<1>6. CASE DeviceReady(e)
  <2>1. /\ phase[e] = "optimizers" /\ phase'[e] \in {"prepare", "platforms"}
        /\ transport'[e] = transport[e] /\ attempt'[e] = attempt[e] /\ undo'[e] = undo[e]
        /\ dropped'[e] = dropped[e] /\ cleanup'[e] = cleanup[e]
        /\ keepalive' = [keepalive EXCEPT ![Device(e)] =
                            IF @ = NoKeepAlive THEN @ ELSE [@ EXCEPT !.wired = attempt[e]]]
        /\ telemetry' = telemetry
    BY <1>6, <1>a, DeviceReadyDoes
  <2>2. PICK d0 \in Mine(e) : d0 = Device(e)
    BY <2>1, <1>d
  <2>3. \A d \in Mine(e) : d # d0 => keepalive'[d] = keepalive[d]
    BY <2>1, <2>2, <1>a, <1>c DEF ObjectsTypeOK
  <2>4. /\ Runs(d0)' => Runs(d0)
        /\ OwnObject(e, d0)' => OwnObject(e, d0)
    <3>1. CASE keepalive[d0] = NoKeepAlive
      <4>1. keepalive'[d0] = NoKeepAlive
        BY <2>1, <2>2, <3>1, <1>a, <1>c DEF ObjectsTypeOK
      <4> QED
        BY <4>1 DEF Runs, OwnObject
    <3>2. CASE keepalive[d0] # NoKeepAlive
      <4>1. keepalive'[d0] = [keepalive[d0] EXCEPT !.wired = attempt[e]] /\ keepalive[d0] \in KeepAlive
        BY <2>1, <2>2, <3>2, <1>a, <1>c DEF ObjectsTypeOK
      <4>2. keepalive'[d0].task = keepalive[d0].task /\ keepalive'[d0].owner = keepalive[d0].owner
        BY <4>1 DEF KeepAlive
      <4> QED
        BY <2>1, <3>2, <4>2 DEF Runs, OwnObject
    <3> QED
      BY <3>1, <3>2
  <2>5. \A d \in Mine(e) : Runs(d)' => Runs(d) /\ (OwnObject(e, d)' => OwnObject(e, d))
    BY <2>1, <2>3, <2>4 DEF Runs, OwnObject
  <2>6. phase[e] \in SettingUp /\ phase'[e] \in SettingUp /\ transport'[e] # "closed"
        /\ phase'[e] \notin {"identify", "closing"} /\ Left(e)' = Left(e)
    BY <2>1, <1>b, <1>e DEF Left
  <2> QED
    BY <2>1, <2>5, <2>6, <1>b, AttemptGoesOn
<1>7. CASE SetupDone(e)
  <2>1. /\ phase[e] = "platforms" /\ phase'[e] = "loaded" /\ cleanup'[e] = << >>
        /\ attempt'[e] = attempt[e] /\ undo'[e] = undo[e] /\ transport'[e] = transport[e]
    BY <1>7, <1>a, SetupDoneDoes
  <2>2. ~Latest(e)'
    BY <2>1, <1>a DEF RollbackOf, Latest, Undoing
  <2>3. StoppedByUnload(e)' /\ LineOf(e)'
    BY <2>1, <2>2, <1>b, ElementsOfNone DEF StoppedByUnload, LineOf
  <2>4. \A d \in Mine(e) : TaskOwed(e, d)' /\ TelemetryOwed(e, d)' /\ QuietOnClosedLine(e, d)'
    BY <2>1, <1>b, <1>e DEF TaskOwed, TelemetryOwed, QuietOnClosedLine
  <2> QED
    BY <2>3, <2>4 DEF TeardownFor
<1>8. CASE SetupFails(e)
  <2>1. /\ phase[e] \in {"prepare", "load", "platforms"} /\ ~Undoing(e) /\ phase'[e] = "undoing"
        /\ cleanup'[e] = << >> /\ undo'[e].mode = "failure" /\ undo'[e].todo = cleanup[e]
        /\ undo'[e].stop /\ undo'[e].attempt = attempt[e]
        /\ attempt'[e] = attempt[e] /\ transport'[e] = transport[e]
        /\ dropped'[e] = dropped[e] /\ UNCHANGED objects
    BY <1>8, <1>a, SetupFailsDoes
  <2>2. phase[e] \in SettingUp /\ transport'[e] # "closed"
    BY <2>1, <1>b, <1>e
  <2> QED
    BY <2>1, <2>2, RollbackTakesOver
<1>9. CASE SetupCancelled(e)
  <2>1. /\ phase[e] \in SettingUp /\ ~Undoing(e) /\ phase'[e] = "undoing" /\ cleanup'[e] = << >>
        /\ undo'[e].mode # "none" /\ undo'[e].attempt = attempt[e] /\ attempt'[e] = attempt[e]
        /\ UNCHANGED objects
    BY <1>9, <1>a, SetupCancelledDoes
  <2>2. \/ /\ phase[e] = "identify" /\ undo'[e].todo = Append(cleanup[e], ClientItem)
           /\ dropped'[e] = dropped[e]
        \/ phase[e] = "closing" /\ undo'[e].todo = cleanup[e] /\ dropped'[e]
        \/ /\ phase[e] \in {"prepare", "load", "optimizers", "platforms"}
           /\ undo'[e].todo = cleanup[e] /\ undo'[e].stop
           /\ transport'[e] = transport[e] /\ dropped'[e] = dropped[e]
    BY <1>9, <1>a, SetupCancelledDoes
  <2>3. Elements(Append(cleanup[e], ClientItem)) = Elements(cleanup[e]) \cup {ClientItem}
    <3>1. cleanup[e] # << >>
      BY <2>1, <1>a DEF AttemptOf
    <3>2. ClientItem \in Item /\ ClientItem # RefItem /\ ClientItem.what = "client"
      BY ItemsAreItems
    <3> QED
      BY <3>1, <3>2, <1>c, ListGrows
  <2>4. CASE phase[e] \in {"identify", "closing"}
    <3>1. \A d \in Mine(e) : ~OwnObject(e, d)
      BY <2>4, NoObjectYet
    <3>2. /\ Elements(cleanup[e]) \subseteq Elements(undo'[e].todo) /\ (dropped[e] => dropped'[e])
          /\ dropped'[e] \/ ClientItem \in Elements(undo'[e].todo)
      BY <2>2, <2>3, <2>4
    <3> QED
      BY <2>1, <3>1, <3>2, RollbackTakesOver
  <2>5. CASE phase[e] \notin {"identify", "closing"}
    <3>1. /\ undo'[e].todo = cleanup[e] /\ undo'[e].stop /\ transport'[e] # "closed"
          /\ dropped'[e] = dropped[e]
      BY <2>2, <2>5, <1>b
    <3> QED
      BY <2>1, <3>1, RollbackTakesOver
  <2> QED
    BY <2>4, <2>5
<1> QED
  BY <1>1, <1>2, <1>3, <1>4, <1>5, <1>6, <1>7, <1>8, <1>9 DEF SetupSteps

\* Stopping a device of an entry stops its task, and no other.
LEMMA StopsOneTask ==
    ASSUME Bookkeeping, NEW e \in Entries, NEW d \in Mine(e), Stopped(d), attempt'[e] = attempt[e]
    PROVE  /\ ~Runs(d)'
           /\ dying'[d] => dying[d] \/ Runs(d)
           /\ \A c \in Mine(e) : /\ OwnObject(e, c)' <=> OwnObject(e, c)
                                 /\ Runs(c)' => Runs(c)
                                 /\ c # d => (Runs(c)' <=> Runs(c)) /\ (dying'[c] => dying[c])
<1>a. ObjectsTypeOK /\ d \in Devices /\ Mine(e) \subseteq Devices
  BY TypeParts, DevicesAreMine DEF Bookkeeping
<1>1. ~Runs(d)' /\ (OwnObject(e, d)' <=> OwnObject(e, d))
  BY <1>a, StoppedDoes DEF Runs, OwnObject
<1>2. dying'[d] => dying[d] \/ Runs(d)
  <2>1. dying'[d] => dying[d] \/ Probing(d)
    BY <1>a, StoppedDoes
  <2>2. Probing(d) => Runs(d)
    BY DEF Probing, Runs
  <2> QED
    BY <2>1, <2>2
<1>3. ASSUME NEW c \in Mine(e), c # d
      PROVE  /\ OwnObject(e, c)' <=> OwnObject(e, c)
             /\ Runs(c)' <=> Runs(c)
             /\ dying'[c] => dying[c]
  <2>1. keepalive'[c] = keepalive[c] /\ dying'[c] = dying[c]
    BY <1>3, <1>a, StoppedDoes
  <2> QED
    BY <2>1 DEF Runs, OwnObject
<1> QED
  BY <1>1, <1>2, <1>3

\* One item of a rollback.
LEMMA UndoOneTeardown ==
    ASSUME Bookkeeping, NEW e \in Entries, TeardownFor(e), UndoOne(e)
    PROVE  TeardownFor(e)'
<1> DEFINE last == undo[e].todo[Len(undo[e].todo)]
           rest == SubSeq(undo[e].todo, 1, Len(undo[e].todo) - 1)
<1>a. RollbackOf(e) /\ ObjectsTypeOK /\ Mine(e) \subseteq Devices
  BY TypeParts, DevicesAreMine DEF Bookkeeping
<1>b. /\ StoppedByUnload(e) /\ LineOf(e)
      /\ \A d \in Mine(e) : TaskOwed(e, d) /\ TelemetryOwed(e, d) /\ QuietOnClosedLine(e, d)
      /\ \A i \in 1 .. Len(DevicesOf[e]) : DevicesOf[e][i] \in Mine(e)
  BY DevicesAreMine DEF TeardownFor
<1>1. /\ Undoing(e) /\ undo[e].todo # << >>
      /\ undo'[e].todo = rest /\ undo'[e].mode = undo[e].mode
      /\ undo'[e].stop = undo[e].stop /\ undo'[e].attempt = undo[e].attempt
      /\ phase'[e] = phase[e] /\ attempt'[e] = attempt[e] /\ pos'[e] = pos[e]
      /\ cleanup'[e] = cleanup[e] /\ dropped'[e] = dropped[e] /\ overtaken'[e] = overtaken[e]
  BY UndoOneDoes
<1>2. \/ last = RefItem /\ transport'[e] = transport[e] /\ UNCHANGED objects
      \/ /\ last = ClientItem /\ UNCHANGED objects
         /\ transport'[e] = IF Latest(e) THEN "closed" ELSE transport[e]
      \/ \E d \in Mine(e) : /\ last = TelemetryItem(d) /\ transport'[e] = transport[e]
                            /\ telemetry' = [telemetry EXCEPT ![d] = "none"]
                            /\ UNCHANGED <<keepalive, dying>>
      \/ \E d \in Mine(e) : /\ last = TaskItem(d) /\ Stopped(d) /\ transport'[e] = transport[e]
                            /\ UNCHANGED telemetry
  BY UndoOneDoes
<1>3. Elements(undo[e].todo) = Elements(rest) \cup {last}
  BY <1>1, NextItem
<1> HIDE DEF last, rest
<1>4. /\ Undoing(e)' /\ (Latest(e)' <=> Latest(e))
      /\ \A x \in Left(e) : x = last \/ x \in Left(e)'
      /\ Elements(undo'[e].todo) \subseteq Elements(undo[e].todo)
      /\ ClientItem \in Elements(undo[e].todo) /\ last # ClientItem
            => ClientItem \in Elements(undo'[e].todo)
  BY <1>1, <1>3 DEF Undoing, Latest, Left
<1>5. /\ Latest(e) => phase[e] \in {"undoing", "off"}
      /\ phase[e] = "undoing" => Latest(e)
  BY <1>a DEF RollbackOf
\* Any item leaves a quiet line quiet, and forgets nothing but what it did.
<1>6. ASSUME \A d \in Mine(e) :
                /\ Runs(d)' => Runs(d) /\ TaskItem(d) # last
                /\ OwnObject(e, d)' <=> OwnObject(e, d)
                /\ dying'[d] => dying[d] \/ Runs(d)
                /\ telemetry'[d] # "none" => telemetry[d] # "none" /\ TelemetryItem(d) # last,
             \/ transport'[e] = transport[e] /\ last # ClientItem
             \/ /\ last = ClientItem
                /\ transport'[e] = IF Latest(e) THEN "closed" ELSE transport[e]
      PROVE  TeardownFor(e)'
  <2>1. StoppedByUnload(e)'
    BY <1>b, <1>1, <1>5, <1>6 DEF StoppedByUnload
  <2>2. LineOf(e)'
    BY <1>b, <1>1, <1>4, <1>5, <1>6 DEF LineOf
  <2>3. ASSUME NEW d \in Mine(e)
        PROVE  TaskOwed(e, d)' /\ TelemetryOwed(e, d)' /\ QuietOnClosedLine(e, d)'
    <3>1. TaskOwed(e, d)'
      BY <1>b, <1>1, <1>4, <1>6 DEF TaskOwed
    <3>2. TelemetryOwed(e, d)'
      BY <1>b, <1>1, <1>4, <1>6 DEF TelemetryOwed
    <3>3. QuietOnClosedLine(e, d)'
      <4>1. CASE transport'[e] = transport[e]
        BY <1>b, <1>1, <1>6, <4>1 DEF QuietOnClosedLine
      <4>2. CASE last = ClientItem /\ Latest(e)
        <5>1. ClientItem \in Elements(undo[e].todo)
          BY <1>3, <4>2
        <5>2. ~OwnObject(e, d)
          BY <1>b, <4>2, <5>1 DEF LineOf
        <5> QED
          BY <1>6, <5>2 DEF QuietOnClosedLine
      <4> QED
        BY <1>6, <4>1, <4>2
    <3> QED
      BY <3>1, <3>2, <3>3
  <2> QED
    BY <2>1, <2>2, <2>3 DEF TeardownFor
<1>7. ASSUME NEW d \in Mine(e)
      PROVE  /\ last \in {RefItem, ClientItem} => TaskItem(d) # last /\ TelemetryItem(d) # last
             /\ ClientItem # RefItem /\ ClientItem # TaskItem(d) /\ ClientItem # TelemetryItem(d)
             /\ \A c \in Mine(e) : /\ TaskItem(d) # TelemetryItem(c)
                                   /\ TaskItem(d) = TaskItem(c) => c = d
                                   /\ TelemetryItem(d) = TelemetryItem(c) => c = d
  BY <1>a, ItemsDiffer
<1>8. CASE UNCHANGED objects /\ last \in {RefItem, ClientItem}
  <2>1. SameTasks(e)
    BY <1>1, <1>8, ObjectsSame
  <2>2. \/ transport'[e] = transport[e] /\ last # ClientItem
        \/ last = ClientItem /\ transport'[e] = IF Latest(e) THEN "closed" ELSE transport[e]
    <3>1. PICK c \in Mine(e) : TRUE
      BY DevicesAreMine
    <3>2. \A d \in Mine(e) : last # TaskItem(d) /\ last # TelemetryItem(d)
      BY <1>7, <1>8
    <3>3. ClientItem # RefItem
      BY <1>7, <3>1
    <3> QED
      BY <1>2, <1>8, <3>2, <3>3
  <2> QED
    BY <1>6, <1>7, <1>8, <2>1, <2>2 DEF SameTasks
<1>9. ASSUME NEW d \in Mine(e), last = TelemetryItem(d), transport'[e] = transport[e],
             telemetry' = [telemetry EXCEPT ![d] = "none"], UNCHANGED <<keepalive, dying>>
      PROVE  TeardownFor(e)'
  <2>1. telemetry'[d] = "none" /\ \A c \in Mine(e) : c # d => telemetry'[c] = telemetry[c]
    BY <1>9, <1>a DEF ObjectsTypeOK
  <2>2. \A c \in Mine(e) : (Runs(c)' <=> Runs(c)) /\ (OwnObject(e, c)' <=> OwnObject(e, c))
    BY <1>1, <1>9 DEF Runs, OwnObject
  <2> QED
    BY <1>6, <1>7, <1>9, <2>1, <2>2
<1>10. ASSUME NEW d \in Mine(e), last = TaskItem(d), Stopped(d), transport'[e] = transport[e],
              UNCHANGED telemetry
       PROVE  TeardownFor(e)'
  <2>1. /\ ~Runs(d)'
        /\ dying'[d] => dying[d] \/ Runs(d)
        /\ \A c \in Mine(e) : /\ OwnObject(e, c)' <=> OwnObject(e, c)
                              /\ Runs(c)' => Runs(c)
                              /\ c # d => (dying'[c] => dying[c])
    BY <1>1, <1>10, StopsOneTask
  <2> QED
    BY <1>6, <1>7, <1>10, <2>1
<1> QED
  BY <1>2, <1>8, <1>9, <1>10

\* The end of a rollback.
LEMMA UndoDoneTeardown ==
    ASSUME Bookkeeping, NEW e \in Entries, TeardownFor(e), UndoDone(e)
    PROVE  TeardownFor(e)'
<1>a. RollbackOf(e) /\ EntriesTypeOK /\ AttemptOf(e)
  BY TypeParts DEF Bookkeeping
<1>b. /\ StoppedByUnload(e) /\ LineOf(e)
      /\ \A d \in Mine(e) : TaskOwed(e, d) /\ TelemetryOwed(e, d) /\ QuietOnClosedLine(e, d)
      /\ \A i \in 1 .. Len(DevicesOf[e]) : DevicesOf[e][i] \in Mine(e)
  BY DevicesAreMine DEF TeardownFor
<1>1. /\ Undoing(e) /\ undo[e].todo = << >> /\ Awaited(e)
      /\ phase'[e] = IF Latest(e) /\ phase[e] = "undoing" THEN "off" ELSE phase[e]
      /\ transport'[e] = IF Latest(e) /\ undo[e].stop THEN "closed" ELSE transport[e]
      /\ undo'[e] = Idle /\ attempt'[e] = attempt[e] /\ pos'[e] = pos[e]
      /\ cleanup'[e] = cleanup[e] /\ dropped'[e] = dropped[e]
      /\ overtaken'[e] = overtaken[e] /\ UNCHANGED objects
  BY <1>a, UndoDoneDoes
<1>2. SameTasks(e) /\ ~Undoing(e)' /\ ~Latest(e)' /\ Left(e)' = Left(e)
  BY <1>1, ObjectsSame DEF Undoing, Latest, Left, Idle
<1>3. \A d \in Mine(e) : ~dying[d]
  BY <1>1 DEF Awaited, Mine
<1>4. /\ Latest(e) => phase[e] \in {"undoing", "off"}
      /\ phase[e] = "undoing" => Latest(e)
  BY <1>a DEF RollbackOf
<1>5. StoppedByUnload(e)'
  BY <1>b, <1>1, <1>2, <1>4 DEF StoppedByUnload, SameTasks
<1>6. LineOf(e)'
  <2>1. ClientItem \notin Elements(undo[e].todo)
    BY <1>1, ElementsOfNone
  <2> QED
    BY <1>b, <1>1, <1>2, <1>3, <1>4, <2>1 DEF LineOf, SameTasks
<1>7. ASSUME NEW d \in Mine(e)
      PROVE  TaskOwed(e, d)' /\ TelemetryOwed(e, d)' /\ QuietOnClosedLine(e, d)'
  <2>1. TaskOwed(e, d)'
    BY <1>b, <1>1, <1>2, <1>4 DEF TaskOwed, SameTasks
  <2>2. TelemetryOwed(e, d)'
    BY <1>b, <1>1, <1>2, <1>4 DEF TelemetryOwed, SameTasks
  <2>3. QuietOnClosedLine(e, d)'
    <3>1. CASE Latest(e) /\ undo[e].stop
      <4>1. cleanup[e] = << >>
        BY <1>a, <1>4, <3>1 DEF AttemptOf, SettingUp
      <4>2. TaskItem(d) \notin Left(e)
        BY <1>1, <4>1, ElementsOfNone DEF Left
      <4>3. ~(Runs(d) /\ OwnObject(e, d))
        BY <1>b, <1>4, <3>1, <4>2 DEF TaskOwed
      <4> QED
        BY <1>2, <1>3, <4>3 DEF QuietOnClosedLine, SameTasks
    <3>2. CASE ~(Latest(e) /\ undo[e].stop)
      BY <1>b, <1>1, <1>2, <3>2 DEF QuietOnClosedLine, SameTasks
    <3> QED
      BY <3>1, <3>2
  <2> QED
    BY <2>1, <2>2, <2>3
<1> QED
  BY <1>5, <1>6, <1>7 DEF TeardownFor

\* A rollback that goes on by itself or is cut short, and a line that dies.
LEMMA LossTeardown ==
    ASSUME Bookkeeping, NEW e \in Entries, TeardownFor(e),
           CancelledAgain(e) \/ RollbackCancelled(e) \/ Wedges(e)
    PROVE  TeardownFor(e)'
<1>a. RollbackOf(e) /\ EntriesTypeOK
  BY TypeParts DEF Bookkeeping
<1>b. /\ StoppedByUnload(e) /\ LineOf(e)
      /\ \A d \in Mine(e) : TaskOwed(e, d) /\ TelemetryOwed(e, d) /\ QuietOnClosedLine(e, d)
      /\ \A i \in 1 .. Len(DevicesOf[e]) : DevicesOf[e][i] \in Mine(e)
  BY DevicesAreMine DEF TeardownFor
<1> USE DEF SameTasks
<1>1. CASE CancelledAgain(e)
  <2>1. /\ phase[e] = "undoing" /\ phase'[e] = "off"
        /\ attempt'[e] = attempt[e] /\ cleanup'[e] = cleanup[e] /\ undo'[e] = undo[e]
        /\ transport'[e] = transport[e] /\ dropped'[e] = dropped[e]
        /\ overtaken'[e] = overtaken[e] /\ UNCHANGED objects
    BY <1>1, <1>a, CancelledAgainDoes
  <2>2. /\ SameTasks(e) /\ Latest(e) /\ Latest(e)' /\ Left(e)' = Left(e)
    BY <2>1, <1>a, ObjectsSame DEF RollbackOf, Latest, Undoing, Left
  <2>3. StoppedByUnload(e)' /\ LineOf(e)'
    BY <2>1, <2>2, <1>b DEF StoppedByUnload, LineOf
  <2>4. \A d \in Mine(e) : TaskOwed(e, d)' /\ TelemetryOwed(e, d)' /\ QuietOnClosedLine(e, d)'
    BY <2>1, <2>2, <1>b DEF TaskOwed, TelemetryOwed, QuietOnClosedLine
  <2> QED
    BY <2>3, <2>4 DEF TeardownFor
<1>2. CASE RollbackCancelled(e)
  <2>1. /\ phase'[e] = "off" /\ dropped'[e] /\ undo'[e] = Idle
        /\ attempt'[e] = attempt[e] /\ cleanup'[e] = cleanup[e]
        /\ transport'[e] = transport[e] /\ overtaken'[e] = overtaken[e] /\ UNCHANGED objects
    BY <1>2, <1>a, RollbackCancelledDoes
  <2>2. SameTasks(e) /\ ~Latest(e)'
    BY <2>1, ObjectsSame DEF Latest, Undoing, Idle
  <2>3. StoppedByUnload(e)' /\ LineOf(e)'
    BY <2>1, <2>2, <1>b DEF StoppedByUnload, LineOf
  <2>4. \A d \in Mine(e) : TaskOwed(e, d)' /\ TelemetryOwed(e, d)' /\ QuietOnClosedLine(e, d)'
    BY <2>1, <2>2, <1>b DEF TaskOwed, TelemetryOwed, QuietOnClosedLine, SettingUp
  <2> QED
    BY <2>3, <2>4 DEF TeardownFor
<1>3. CASE Wedges(e)
  <2>1. /\ transport[e] = "open" /\ transport'[e] = "wedged"
        /\ phase'[e] = phase[e] /\ attempt'[e] = attempt[e] /\ pos'[e] = pos[e]
        /\ cleanup'[e] = cleanup[e] /\ undo'[e] = undo[e] /\ dropped'[e] = dropped[e]
        /\ overtaken'[e] = overtaken[e] /\ UNCHANGED objects
    BY <1>3, <1>a, WedgesDoes
  <2>2. /\ SameTasks(e) /\ (Latest(e)' <=> Latest(e)) /\ (Undoing(e)' <=> Undoing(e))
        /\ Left(e)' = Left(e)
    BY <2>1, ObjectsSame DEF Latest, Undoing, Left
  <2>3. StoppedByUnload(e)' /\ LineOf(e)'
    BY <2>1, <2>2, <1>b DEF StoppedByUnload, LineOf
  <2>4. \A d \in Mine(e) : TaskOwed(e, d)' /\ TelemetryOwed(e, d)' /\ QuietOnClosedLine(e, d)'
    BY <2>1, <2>2, <1>b DEF TaskOwed, TelemetryOwed, QuietOnClosedLine
  <2> QED
    BY <2>3, <2>4 DEF TeardownFor
<1> QED
  BY <1>1, <1>2, <1>3

\* The unload.
LEMMA UnloadTeardown ==
    ASSUME Bookkeeping, NEW e \in Entries, TeardownFor(e), StartUnload(e) \/ UnloadSteps(e)
    PROVE  TeardownFor(e)'
<1> DEFINE N == Len(DevicesOf[e])
<1>a. RollbackOf(e) /\ EntriesTypeOK /\ ObjectsTypeOK /\ AttemptOf(e)
  BY TypeParts DEF Bookkeeping
<1>b. /\ StoppedByUnload(e) /\ LineOf(e)
      /\ \A d \in Mine(e) : TaskOwed(e, d) /\ TelemetryOwed(e, d) /\ QuietOnClosedLine(e, d)
  BY DEF TeardownFor
<1>c. /\ N \in Nat \ {0} /\ pos[e] \in Nat /\ \A i \in 1 .. N : DevicesOf[e][i] \in Mine(e)
      /\ \A d \in Mine(e) : \E i \in 1 .. N : d = DevicesOf[e][i]
  BY <1>a, DevicesAreMine DEF EntriesTypeOK
\* While an entry is unloaded, only the order of the unload counts.
<1>d. ASSUME phase'[e] \in {"unloading", "teardown"}, StoppedByUnload(e)',
             phase'[e] = "unloading" => transport'[e] # "closed",
             cleanup'[e] = cleanup[e], undo'[e] = undo[e], attempt'[e] = attempt[e],
             phase[e] \in {"loaded", "unloading"}
      PROVE  TeardownFor(e)'
  <2>1. ~Latest(e)'
    BY <1>a, <1>d DEF RollbackOf, Latest, Undoing
  <2>2. LineOf(e)'
    BY <1>b, <1>d, <2>1 DEF LineOf
  <2>3. ASSUME NEW d \in Mine(e)
        PROVE  TaskOwed(e, d)' /\ TelemetryOwed(e, d)' /\ QuietOnClosedLine(e, d)'
    <3>1. TaskOwed(e, d)' /\ TelemetryOwed(e, d)'
      BY <1>d DEF TaskOwed, TelemetryOwed, SettingUp
    <3>2. QuietOnClosedLine(e, d)'
      BY <1>d DEF QuietOnClosedLine, StoppedByUnload
    <3> QED
      BY <3>1, <3>2
  <2> QED
    BY <1>d, <2>2, <2>3 DEF TeardownFor
<1>1. CASE StartUnload(e)
  <2>1. /\ phase[e] = "loaded" /\ phase'[e] = "unloading" /\ pos'[e] = 1
        /\ attempt'[e] = attempt[e] /\ cleanup'[e] = cleanup[e] /\ undo'[e] = undo[e]
        /\ transport'[e] = transport[e]
    BY <1>1, <1>a, StartUnloadDoes
  <2>2. StoppedByUnload(e)'
    BY <2>1, <1>c DEF StoppedByUnload
  <2>3. transport'[e] # "closed"
    BY <2>1, <1>b DEF LineOf
  <2> QED
    BY <2>1, <2>2, <2>3, <1>d
<1>2. CASE StopKeepAlive(e)
  <2>1. /\ phase[e] = "unloading" /\ pos[e] <= N /\ Stopped(Device(e)) /\ pos'[e] = pos[e] + 1
        /\ phase'[e] = phase[e] /\ attempt'[e] = attempt[e] /\ cleanup'[e] = cleanup[e]
        /\ undo'[e] = undo[e] /\ transport'[e] = transport[e]
    BY <1>2, <1>a, StopKeepAliveDoes
  <2>2. PICK d0 \in Mine(e) : d0 = Device(e) /\ d0 = DevicesOf[e][pos[e]]
    BY <1>2, <1>a, UnloadsDevice
  <2>3. ~Runs(d0)' /\ \A c \in Mine(e) : Runs(c)' => Runs(c)
    <3>1. Stopped(d0)
      BY <2>1, <2>2
    <3> QED
      BY <2>1, <3>1, StopsOneTask
  <2>4. ASSUME NEW i \in 1 .. N, i < pos'[e] PROVE ~Runs(DevicesOf[e][i])'
    <3>1. i < pos[e] \/ i = pos[e]
      BY <2>1, <2>4, <1>c
    <3>2. CASE i < pos[e]
      BY <2>1, <2>3, <3>2, <1>b, <1>c DEF StoppedByUnload
    <3>3. CASE i = pos[e]
      BY <2>2, <2>3, <3>3
    <3> QED
      BY <3>1, <3>2, <3>3
  <2>5. StoppedByUnload(e)'
    BY <2>1, <2>4 DEF StoppedByUnload
  <2>6. transport'[e] # "closed"
    BY <2>1, <1>b DEF LineOf
  <2> QED
    BY <2>1, <2>5, <2>6, <1>d
<1>3. CASE Disconnect(e)
  <2>1. /\ phase[e] = "unloading" /\ pos[e] > N /\ Awaited(e)
        /\ phase'[e] = "teardown" /\ transport'[e] = "closed"
        /\ attempt'[e] = attempt[e] /\ cleanup'[e] = cleanup[e] /\ undo'[e] = undo[e]
        /\ UNCHANGED objects
    BY <1>3, <1>a, DisconnectDoes
  <2>2. ASSUME NEW d \in Mine(e) PROVE ~Runs(d)' /\ ~dying'[d]
    <3>1. PICK i \in 1 .. N : d = DevicesOf[e][i]
      BY <1>c
    <3>2. i < pos[e]
      BY <2>1, <3>1, <1>c
    <3>3. ~Runs(d) /\ ~dying[d]
      BY <2>1, <3>1, <3>2, <1>b DEF StoppedByUnload, Awaited, Mine
    <3> QED
      BY <2>1, <3>3, ObjectsSame DEF SameTasks
  <2>3. StoppedByUnload(e)'
    BY <2>1, <2>2 DEF StoppedByUnload
  <2> QED
    BY <2>1, <2>3, <1>d
<1>4. CASE Teardown(e)
  <2>1. /\ phase[e] = "teardown" /\ phase'[e] \in {"off", "failed"}
        /\ \A d \in Mine(e) : telemetry'[d] = "none" /\ keepalive'[d] = NoKeepAlive
        /\ attempt'[e] = attempt[e] /\ cleanup'[e] = cleanup[e]
        /\ undo'[e] = undo[e] /\ transport'[e] = transport[e] /\ dying' = dying
    BY <1>4, <1>a, TeardownDoes
  <2>2. ~Latest(e)'
    BY <2>1, <1>a DEF RollbackOf, Latest, Undoing
  <2>3. transport[e] = "closed" /\ \A d \in Mine(e) : ~dying[d]
    BY <2>1, <1>b DEF StoppedByUnload
  <2>4. StoppedByUnload(e)' /\ LineOf(e)'
    BY <2>1, <2>2, <2>3, <1>b DEF StoppedByUnload, LineOf
  <2>5. \A d \in Mine(e) : TaskOwed(e, d)' /\ TelemetryOwed(e, d)' /\ QuietOnClosedLine(e, d)'
    BY <2>1 DEF TaskOwed, TelemetryOwed, QuietOnClosedLine, Runs, OwnObject
  <2> QED
    BY <2>4, <2>5 DEF TeardownFor
<1> QED
  BY <1>1, <1>2, <1>3, <1>4 DEF UnloadSteps

\* Whoever moves, what runs is still going to be stopped.
LEMMA TeardownsStep == Bookkeeping /\ Health /\ Teardowns /\ [Next]_vars => Teardowns'
<1> SUFFICES ASSUME Bookkeeping, Health, Teardowns, [Next]_vars, NEW f \in Entries
             PROVE  TeardownFor(f)'
  BY DEF Teardowns
<1>a. LifecycleTypeOK /\ HealthFor(f) /\ TeardownFor(f) /\ Mine(f) \subseteq Devices
  BY DevicesAreMine DEF Bookkeeping, Health, Teardowns
<1>b. ASSUME \A d \in Mine(f) : SameDevice(d), Untouched(f) PROVE SameTasks(f)
  BY <1>b DEF SameDevice, SameTasks, Runs, OwnObject, Untouched
<1>1. ASSUME NEW e \in Entries, EntryStep(e) PROVE TeardownFor(f)'
  <2>1. CASE f = e
    BY <1>1, <2>1, <1>a, StartTeardown, SetupTeardown, UndoOneTeardown, UndoDoneTeardown,
       LossTeardown, UnloadTeardown DEF EntryStep, UndoSteps
  <2>2. CASE f # e
    <3>1. Untouched(f)
      BY <1>1, <2>2, <1>a, OthersUntouched
    <3>2. \A d \in Mine(f) : SameDevice(d)
      BY <1>1, <2>2, <1>a, OtherDevices, DevicesAreApart
    <3> QED
      BY <3>1, <3>2, <1>a, <1>b, UntouchedTeardown
  <2> QED
    BY <2>1, <2>2
<1>2. ASSUME NEW d \in Devices, DeviceStep(d) PROVE TeardownFor(f)'
  <2>1. Untouched(f)
    BY <1>2, TasksTouchNoEntry
  <2>2. \A c \in Mine(f) : c # d => SameDevice(c)
    BY <1>2, <1>a, DeviceStepDoes
  <2>3. /\ Runs(d)' <=> Runs(d)
        /\ OwnObject(f, d)' <=> OwnObject(f, d)
        /\ telemetry'[d] = telemetry[d]
        /\ dying'[d] => dying[d]
    BY <1>2, <1>a, <2>1, DeviceStepDoes DEF Runs, OwnObject, Untouched
  <2>4. SameTasks(f)
    BY <2>1, <2>2, <2>3 DEF SameDevice, SameTasks, Runs, OwnObject, Untouched
  <2> QED
    BY <2>1, <2>4, <1>a, UntouchedTeardown
<1>3. ASSUME NEW g \in Flows, FlowStep(g) PROVE TeardownFor(f)'
  <2>1. UNCHANGED objects
    BY <1>3 DEF FlowStep, FlowStarts, FlowEnds
  <2> QED
    BY <1>3, <2>1, <1>a, <1>b, UntouchedTeardown, TasksTouchNoEntry DEF objects, SameDevice
<1>4. CASE UNCHANGED vars
  BY <1>4, <1>a, <1>b, UntouchedTeardown DEF vars, objects, history, Untouched, SameDevice
<1> QED
  BY <1>1, <1>2, <1>3, <1>4 DEF Next, EntryStep, DeviceStep, FlowStep

-----------------------------------------------------------------------------
(* Layer 5: the telemetry of the devices an attempt has prepared. *)

\* A step that leaves the timers alone and prepares no device.
LEMMA ArmedStays ==
    ASSUME NEW e \in Entries, ArmedFor(e), \A d \in Mine(e) : telemetry'[d] = telemetry[d],
           overtaken[e] => overtaken'[e],
           \A i \in 1 .. Len(DevicesOf[e]) : HasTelemetry(e, i)' => HasTelemetry(e, i)
    PROVE  ArmedFor(e)'
BY DevicesAreMine DEF ArmedFor

LEMMA EntryStepArms ==
    ASSUME Bookkeeping, NEW e \in Entries, ArmedFor(e), EntryStep(e)
    PROVE  ArmedFor(e)'
<1> DEFINE N == Len(DevicesOf[e])
<1>a. EntriesTypeOK /\ ObjectsTypeOK /\ AttemptOf(e) /\ RollbackOf(e)
  BY TypeParts DEF Bookkeeping
<1>b. /\ pos[e] \in Nat /\ N \in Nat /\ Mine(e) \subseteq Devices
      /\ \A i \in 1 .. N : DevicesOf[e][i] \in Mine(e)
      /\ \A i, j \in 1 .. N : DevicesOf[e][i] = DevicesOf[e][j] => i = j
  BY <1>a, DevicesAreMine DEF EntriesTypeOK
<1>1. CASE StartSetup(e)
  <2>1. phase'[e] = "identify" /\ telemetry' = telemetry
    BY <1>1, <1>a, StartSetupDoes DEF objects
  <2> QED
    BY <2>1, <1>b DEF ArmedFor, HasTelemetry
<1>2. CASE Prepared(e)
  <2>1. /\ phase[e] = "prepare" /\ phase'[e] = "load" /\ pos'[e] = pos[e]
        /\ overtaken'[e] = overtaken[e]
        /\ telemetry' = [telemetry EXCEPT ![Device(e)] = IF @ = "none" THEN "armed" ELSE @]
    BY <1>2, <1>a, PreparedDoes
  <2>2. PICK d0 \in Mine(e) : d0 = Device(e) /\ d0 = DevicesOf[e][pos[e]]
    BY <2>1, AtDevice
  <2>3. telemetry'[d0] = "armed" /\ \A d \in Mine(e) : d # d0 => telemetry'[d] = telemetry[d]
    <3>1. telemetry[d0] \in {"none", "armed"}
      BY <2>2, <1>a, <1>b DEF ObjectsTypeOK, ArmedFor
    <3> QED
      BY <2>1, <2>2, <3>1, <1>a, <1>b DEF ObjectsTypeOK
  <2>4. ASSUME NEW i \in 1 .. N, HasTelemetry(e, i)', ~overtaken'[e]
        PROVE  telemetry'[DevicesOf[e][i]] = "armed"
    <3>1. CASE DevicesOf[e][i] = d0
      BY <2>3, <3>1
    <3>2. CASE DevicesOf[e][i] # d0
      <4>1. i # pos[e] /\ i <= pos[e]
        BY <2>1, <2>2, <2>4, <3>2 DEF HasTelemetry
      <4>2. HasTelemetry(e, i)
        BY <2>1, <4>1, <1>b DEF HasTelemetry
      <4> QED
        BY <2>1, <2>3, <2>4, <3>2, <4>2, <1>b DEF ArmedFor
    <3> QED
      BY <3>1, <3>2
  <2>5. \A d \in Mine(e) : telemetry'[d] # "dead"
    BY <2>3 DEF ArmedFor
  <2> QED
    BY <2>4, <2>5 DEF ArmedFor
<1>3. CASE KeepAliveStarted(e)
  <2>1. /\ phase[e] = "load" /\ phase'[e] = "optimizers" /\ pos'[e] = pos[e]
        /\ overtaken'[e] = overtaken[e] /\ telemetry' = telemetry
    BY <1>3, <1>a, KeepAliveStartedDoes
  <2> QED
    BY <2>1, ArmedStays DEF HasTelemetry
<1>4. CASE DeviceReady(e)
  <2>1. /\ phase[e] = "optimizers" /\ pos'[e] = pos[e] + 1
        /\ phase'[e] = IF pos[e] < N THEN "prepare" ELSE "platforms"
        /\ overtaken'[e] = overtaken[e] /\ telemetry' = telemetry
    BY <1>4, <1>a, DeviceReadyDoes
  <2>2. \A i \in 1 .. N : HasTelemetry(e, i)' => HasTelemetry(e, i)
    BY <2>1, <1>b DEF HasTelemetry
  <2> QED
    BY <2>1, <2>2, ArmedStays
<1>5. CASE Identified(e) \/ IdentifyFails(e) \/ SetupDone(e)
  <2>1. /\ \/ phase'[e] = "closing"
           \/ phase[e] = "identify" /\ phase'[e] = "prepare" /\ pos'[e] = pos[e]
           \/ phase[e] = "platforms" /\ phase'[e] = "loaded"
        /\ overtaken'[e] = overtaken[e] /\ telemetry' = telemetry
    BY <1>5, <1>a, IdentifiedDoes, IdentifyFailsDoes, SetupDoneDoes DEF objects
  <2>2. phase[e] = "identify" => pos[e] = 1
    BY <1>a DEF AttemptOf
  <2>3. \A i \in 1 .. N : HasTelemetry(e, i)' => HasTelemetry(e, i)
    BY <2>1, <2>2, <1>b DEF HasTelemetry
  <2> QED
    BY <2>1, <2>3, ArmedStays
<1>6. CASE UndoOne(e)
  <2>1. /\ phase'[e] = phase[e] /\ pos'[e] = pos[e] /\ overtaken'[e] = overtaken[e] /\ Undoing(e)
        /\ \/ telemetry' = telemetry
           \/ \E d \in Mine(e) : telemetry' = [telemetry EXCEPT ![d] = "none"]
    BY <1>6, UndoOneDoes DEF objects
  <2>2. \A d \in Mine(e) : telemetry'[d] # "dead"
    BY <2>1, <1>a, <1>b DEF ObjectsTypeOK, ArmedFor
  <2>3. ASSUME ~overtaken'[e], NEW i \in 1 .. N PROVE ~HasTelemetry(e, i)'
    BY <2>1, <2>3, <1>a DEF RollbackOf, HasTelemetry
  <2> QED
    BY <2>2, <2>3 DEF ArmedFor
<1>7. CASE UndoDone(e)
  <2>1. /\ phase'[e] = phase[e] \/ phase'[e] = "off"
        /\ pos'[e] = pos[e] /\ overtaken'[e] = overtaken[e] /\ telemetry' = telemetry
    BY <1>7, <1>a, UndoDoneDoes DEF objects
  <2> QED
    BY <2>1, ArmedStays DEF HasTelemetry
<1>8. CASE Teardown(e)
  <2>1. phase'[e] \in {"off", "failed"} /\ \A d \in Mine(e) : telemetry'[d] = "none"
    BY <1>8, <1>a, TeardownDoes
  <2> QED
    BY <2>1 DEF ArmedFor, HasTelemetry
<1>9. CASE \/ ClientClosed(e) \/ SetupFails(e) \/ SetupCancelled(e) \/ StartUnload(e)
           \/ StopKeepAlive(e) \/ Disconnect(e) \/ CancelledAgain(e) \/ RollbackCancelled(e)
  <2>1. /\ phase'[e] \in {"undoing", "unloading", "teardown", "off"}
        /\ overtaken'[e] = overtaken[e] /\ telemetry' = telemetry
    BY <1>9, <1>a, ClientClosedDoes, SetupFailsDoes, SetupCancelledDoes, StartUnloadDoes,
       StopKeepAliveDoes, DisconnectDoes, CancelledAgainDoes, RollbackCancelledDoes DEF objects
  <2> QED
    BY <2>1, ArmedStays DEF HasTelemetry
<1>10. CASE Wedges(e)
  <2>1. /\ phase'[e] = phase[e] /\ pos'[e] = pos[e] /\ overtaken'[e] = overtaken[e]
        /\ telemetry' = telemetry
    BY <1>10, <1>a, WedgesDoes DEF objects
  <2> QED
    BY <2>1, ArmedStays DEF HasTelemetry
<1> QED
  BY <1>1, <1>2, <1>3, <1>4, <1>5, <1>6, <1>7, <1>8, <1>9, <1>10
     DEF EntryStep, SetupSteps, UndoSteps, UnloadSteps

\* Whoever moves, prepared devices keep their telemetry.
LEMMA ArmsStep == Bookkeeping /\ Arms /\ [Next]_vars => Arms'
<1> SUFFICES ASSUME Bookkeeping, Arms, [Next]_vars, NEW f \in Entries PROVE ArmedFor(f)'
  BY DEF Arms
<1>a. LifecycleTypeOK /\ ArmedFor(f) /\ Mine(f) \subseteq Devices
  BY DevicesAreMine DEF Bookkeeping, Arms
<1>b. ASSUME Untouched(f), \A d \in Mine(f) : telemetry'[d] = telemetry[d] PROVE ArmedFor(f)'
  BY <1>a, <1>b, ArmedStays DEF Untouched, HasTelemetry
<1>1. ASSUME NEW e \in Entries, EntryStep(e) PROVE ArmedFor(f)'
  <2>1. CASE f = e
    BY <1>1, <2>1, <1>a, EntryStepArms
  <2>2. CASE f # e
    <3>1. Untouched(f)
      BY <1>1, <2>2, <1>a, OthersUntouched
    <3>2. \A d \in Mine(f) : telemetry'[d] = telemetry[d]
      BY <1>1, <2>2, <1>a, OtherDevices, DevicesAreApart DEF SameDevice
    <3> QED
      BY <3>1, <3>2, <1>b
  <2> QED
    BY <2>1, <2>2
<1>2. ASSUME NEW d, DeviceStep(d) \/ FlowStep(d) PROVE ArmedFor(f)'
  <2>1. telemetry' = telemetry
    BY <1>2 DEF DeviceStep, ProbeStarts, ProbeEnds, KeepAliveGone, FlowStep, FlowStarts, FlowEnds,
       objects
  <2> QED
    BY <1>2, <2>1, <1>b, TasksTouchNoEntry
<1>3. CASE UNCHANGED vars
  BY <1>3, <1>b DEF vars, objects, history, Untouched
<1> QED
  BY <1>1, <1>2, <1>3 DEF Next, EntryStep, DeviceStep, FlowStep

-----------------------------------------------------------------------------
(* The invariant, and what follows from it. *)

LEMMA LifecycleStarts == Init => LifecycleIInv
<1> SUFFICES ASSUME Init PROVE LifecycleIInv
  OBVIOUS
<1> USE DEF Init
<1>a. MaxGuards \in Nat /\ MaxAttempts \in Nat
  BY UsersAre
<1>b. \A e \in Entries : Len(DevicesOf[e]) \in Nat \ {0} /\ Mine(e) \subseteq Devices
  BY DevicesAreMine
<1>1. LifecycleTypeOK
  <2>1. << >> \in Seq(Item) /\ Idle \in [mode : {"none", "failure", "shielded"}, todo : Seq(Item),
                                         stop : BOOLEAN, attempt : 0 .. MaxAttempts]
    BY <1>a DEF Idle
  <2>2. RegistryTypeOK
    BY <1>a DEF RegistryTypeOK
  <2>3. ObjectsTypeOK
    BY DEF ObjectsTypeOK
  <2>4. EntriesTypeOK
    BY <1>a, <1>b, <2>1 DEF EntriesTypeOK, SettingUp
  <2> QED
    BY <2>2, <2>3, <2>4, TypeParts
<1>2. ASSUME NEW e \in Entries
      PROVE  /\ phase[e] = "off" /\ attempt[e] = 0 /\ cleanup[e] = << >> /\ undo[e] = Idle
             /\ undo[e].mode = "none" /\ undo[e].todo = << >> /\ transport[e] = "closed"
  BY DEF Idle
<1>3. \A d \in Devices : telemetry[d] = "none" /\ keepalive[d] = NoKeepAlive /\ ~dying[d]
  OBVIOUS
<1>4. Bookkeeping
  <2>1. \A e \in Entries : ListOf(e, << >>)
    BY DEF ListOf
  <2>2. ASSUME NEW e \in Entries PROVE RollbackOf(e) /\ AttemptOf(e)
    BY <1>2 DEF RollbackOf, AttemptOf, Undoing, Latest, SettingUp
  <2> QED
    BY <1>1, <1>2, <2>1, <2>2 DEF Bookkeeping
<1>5. References
  <2>1. Holders = {}
    BY DEF Holders
  <2>2. IsFiniteSet(Holders) /\ Cardinality(Holders) = 0
    BY <2>1, FS_EmptySet
  <2>3. HeldWhileNeeded
    <3>1. \A e \in Entries, n \in Attempts : held[<<e, n>>] = 0
      BY UsersAre
    <3>2. \A e \in Entries, n \in Attempts : ~Needs(e, n)
      BY <1>2 DEF Needs, Active, SettingUp
    <3> QED
      BY <3>1, <3>2 DEF HeldWhileNeeded
  <2>4. OneGuardPerBus
    BY DEF OneGuardPerBus
  <2> QED
    BY <2>2, <2>3, <2>4 DEF References
<1>6. Health
  BY <1>b, <1>2, <1>3, DevicesAreMine DEF Health, HealthFor, HealthOf, ObjectAt, Ahead, Passed
<1>7. Teardowns
  <2>1. ASSUME NEW e \in Entries PROVE StoppedByUnload(e) /\ LineOf(e)
    <3>1. ~Latest(e)
      BY <1>2 DEF Latest, Undoing
    <3>2. ClientItem \notin Elements(cleanup[e])
      BY <1>2, ElementsOfNone
    <3> QED
      BY <1>b, <1>2, <1>3, <3>1, <3>2 DEF StoppedByUnload, LineOf
  <2>2. ASSUME NEW e \in Entries, NEW d \in Mine(e)
        PROVE  TaskOwed(e, d) /\ TelemetryOwed(e, d) /\ QuietOnClosedLine(e, d)
    BY <1>b, <1>3 DEF TaskOwed, TelemetryOwed, QuietOnClosedLine, Runs, OwnObject
  <2> QED
    BY <2>1, <2>2 DEF Teardowns, TeardownFor
<1>8. Arms
  BY <1>b, <1>2, <1>3 DEF Arms, ArmedFor, HasTelemetry
<1> HIDE DEF Init
<1> QED
  BY <1>4, <1>5, <1>6, <1>7, <1>8 DEF LifecycleIInv

LEMMA LifecycleSteps == LifecycleIInv /\ [Next]_vars => LifecycleIInv'
BY BookkeepingStep, ReferencesStep, HealthStep, TeardownsStep, ArmsStep DEF LifecycleIInv

\* What is proved of a rest: the cleanups have all run.
LEMMA RestIsQuiet == LifecycleIInv => NothingLeftRunning
<1> SUFFICES ASSUME LifecycleIInv, NEW e \in Entries, Resting(e)
             PROVE  /\ transport[e] # "open"
                    /\ \A d \in Elements(DevicesOf[e]) :
                          /\ keepalive[d] # NoKeepAlive => keepalive[d].task = "none"
                          /\ telemetry[d] = "none" /\ ~dying[d]
  BY DEF NothingLeftRunning
<1>1. /\ RollbackOf(e) /\ AttemptOf(e) /\ StoppedByUnload(e) /\ LineOf(e)
      /\ \A d \in Mine(e) : TaskOwed(e, d) /\ TelemetryOwed(e, d)
  BY DEF LifecycleIInv, Bookkeeping, Teardowns, TeardownFor
<1>2. phase[e] \in {"off", "failed"} /\ ~Undoing(e) /\ ~Latest(e) /\ ~dropped[e]
  BY DEF Resting, Undoing, Latest
<1>3. Left(e) = {}
  <2>1. cleanup[e] = << >> /\ undo[e].todo = << >>
    BY <1>1, <1>2 DEF AttemptOf, RollbackOf, SettingUp
  <2> QED
    BY <2>1, ElementsOfNone DEF Left
<1>4. transport[e] # "open" /\ \A d \in Mine(e) : ~dying[d]
  BY <1>1, <1>2 DEF LineOf
<1>5. \A d \in Mine(e) : ~Runs(d) /\ telemetry[d] = "none"
  BY <1>1, <1>2, <1>3 DEF TaskOwed, TelemetryOwed
<1> QED
  BY <1>4, <1>5 DEF Mine, Runs

\* The invariant holds in every state that is reached.
THEOREM LifecycleInvariant == Spec => []LifecycleIInv
BY LifecycleStarts, LifecycleSteps, PTL DEF Spec

\* The state keeps its types: a guard object is registered exactly while there
\* are references to it, and every list of cleanups is one of known items.
THEOREM LifecycleTypes == Spec => []LifecycleTypeOK
<1>1. LifecycleIInv => LifecycleTypeOK
  BY DEF LifecycleIInv, Bookkeeping
<1> QED
  BY <1>1, LifecycleInvariant, PTL

\* Every reference to the endpoint belongs to a user that still has to give it
\* back (acquire_endpoint, release_endpoint and the cleanups of
\* async_setup_entry), whatever fails, is cancelled or overlaps.
THEOREM ReferencesAreExact == Spec => []ReferencesExact
<1>1. LifecycleIInv => ReferencesExact
  <2> SUFFICES ASSUME LifecycleIInv PROVE ReferencesExact
    OBVIOUS
  <2>1. refs = Cardinality({u \in Users : held[u] # 0}) + leaked
    BY DEF LifecycleIInv, References, Holders
  <2>2. ASSUME NEW e \in Entries, NEW n \in Attempts, held[<<e, n>>] # 0
        PROVE  \/ n = attempt[e] /\ phase[e] \notin {"off", "failed"}
               \/ n = undo[e].attempt
    BY <2>2 DEF LifecycleIInv, References, HeldWhileNeeded, Needs, Active, SettingUp
  <2> QED
    BY <2>1, <2>2 DEF ReferencesExact
<1> QED
  BY <1>1, LifecycleInvariant, PTL

\* However many entries, sessions and attempts share the endpoint, all of them
\* work with the one guard object that is registered for it (F04).
THEOREM OneGuard == Spec => []OneGuardPerBus
<1>1. LifecycleIInv => OneGuardPerBus
  BY DEF LifecycleIInv, References
<1> QED
  BY <1>1, LifecycleInvariant, PTL

\* After a failed or cancelled set-up, or an unload, the cleanups have stopped
\* whatever was started: no connection, keep-alive task or telemetry timer
\* outlives its entry, unless a rollback was cut short.
THEOREM NothingIsLeftRunning == Spec => []NothingLeftRunning
BY RestIsQuiet, LifecycleInvariant, PTL

\* async_stop is awaited before the connection is closed: no probe of the
\* current attempt is in flight on a line that its unload or rollback has
\* closed (HS-2310-005).
THEOREM NoProbeIsOnAClosedLine == Spec => []NoProbeOnClosedLine
<1>1. LifecycleIInv => NoProbeOnClosedLine
  <2> SUFFICES ASSUME LifecycleIInv, NEW d \in Devices,
                      keepalive[d] # NoKeepAlive, keepalive[d].owner = attempt[EntryOf(d)],
                      keepalive[d].task = "probing" \/ dying[d]
               PROVE  transport[EntryOf(d)] # "closed" \/ overtaken[EntryOf(d)]
    BY DEF NoProbeOnClosedLine
  <2>1. PICK e \in Entries : d \in Mine(e)
    BY DEF Devices, Mine
  <2>2. EntryOf(d) = e
    BY <2>1, DevicesAreMine
  <2>3. QuietOnClosedLine(e, d)
    BY <2>1 DEF LifecycleIInv, Teardowns, TeardownFor
  <2>4. OwnObject(e, d) /\ (Runs(d) \/ dying[d])
    BY <2>2 DEF OwnObject, Runs
  <2> QED
    BY <2>2, <2>3, <2>4 DEF QuietOnClosedLine
<1> QED
  BY <1>1, LifecycleInvariant, PTL

\* A loaded entry has a keep-alive for each of its inverters, and the
\* coordinators know the state of the connection as the keep-alive of their own
\* attempt sees it: no loss and no recovery passes them by.
THEOREM HealthIsAlwaysKnown == Spec => []HealthIsKnown
<1>1. LifecycleIInv => HealthIsKnown
  <2> SUFFICES ASSUME LifecycleIInv, NEW e \in Entries, phase[e] = "loaded", NEW d \in Mine(e)
               PROVE  /\ keepalive[d] # NoKeepAlive
                      /\ keepalive[d].owner = attempt[e] =>
                            (view[d] = "up" <=> keepalive[d].healthy)
    BY DEF HealthIsKnown, Mine
  <2>1. PICK i \in 1 .. Len(DevicesOf[e]) : d = DevicesOf[e][i]
    BY DevicesAreMine
  <2>2. ObjectAt(e, i) /\ HealthOf(e, d)
    BY DEF LifecycleIInv, Health, HealthFor
  <2>3. keepalive[d] # NoKeepAlive
    BY <2>1, <2>2 DEF ObjectAt, Passed
  <2> QED
    BY <2>2, <2>3 DEF HealthOf
<1> QED
  BY <1>1, LifecycleInvariant, PTL

\* get_or_create and the rollback that removes a stopped telemetry object
\* (ICS-011): the telemetry of a loaded entry has a running timer, even when
\* earlier attempts failed.
THEOREM TelemetryIsArmed == Spec => []TelemetryArmed
<1>1. LifecycleIInv => TelemetryArmed
  <2> SUFFICES ASSUME LifecycleIInv, NEW e \in Entries, phase[e] = "loaded", ~overtaken[e],
                      NEW d \in Mine(e)
               PROVE  telemetry[d] = "armed"
    BY DEF TelemetryArmed, Mine
  <2>1. PICK i \in 1 .. Len(DevicesOf[e]) : d = DevicesOf[e][i]
    BY DevicesAreMine
  <2> QED
    BY <2>1 DEF LifecycleIInv, Arms, ArmedFor, HasTelemetry
<1> QED
  BY <1>1, LifecycleInvariant, PTL
=============================================================================
