----------------------------- MODULE DeviceWrites -----------------------------
(* Commands to one inverter with a battery: the services (services.py), the *)
(* stop button (button.py) and the editors of the time-of-use slots         *)
(* (text.py, tou_periods.py), called by several tasks at once while the     *)
(* configuration coordinator polls, on top of ServiceRegistry.  A command   *)
(* waits for the device's write lock, may read first, and writes its        *)
(* registers under one hold of the bus guard; any step may fail, time out   *)
(* or be cancelled, and any register may be refused.  The manufacturer's    *)
(* app changes the schedule as well.                                        *)
(*                                                                          *)
(* The three groups of registers are written by separate commands that      *)
(* share the lock and the bus: one group is followed.  A power is "on" or   *)
(* "off"; the mode of a forcible charge and its period or target SOC, which *)
(* are written one after the other, are one register, "limit".              *)
EXTENDS ServiceRegistry, Naturals, Sequences, SequencesExt

CONSTANTS
    Owner,           \* the entry of the inverter
    Calls, NoCall,   \* the tasks that call
    Periods,         \* time-of-use periods
    Clashing,        \* the pairs of periods that overlap on some day
    MAX_TOU_PERIODS, \* 14 in the code
    MAX_RANK,        \* bound: calls in an unbroken overlap
    MAX_REFUSED      \* bound: registers that are refused at one time

ASSUME WritesAssumption ==
    /\ Owner \in Entries
    /\ NoCall \notin Calls
    /\ Clashing \subseteq SUBSET Periods
    /\ {MAX_TOU_PERIODS, MAX_RANK, MAX_REFUSED} \subseteq Nat \ {0}

VARIABLES
    group,    \* the registers that are followed
    inverter, \* their values on the device
    shown,    \* the schedule as the coordinator last read it
    lock,     \* the queue of get_device_write_lock(); its head has the lock
    bus,      \* the call that holds the guard
    call,     \* what each task is doing
    cutOff,   \* history: a command of several registers was left half-written
    raced,    \* history: the app wrote during the present hold of the bus
    winner,   \* history: the latest-called of those that completed
    refused   \* history: the registers that are not as their last answered write asked

commandVars == <<group, inverter, shown, lock, bus, call, cutOff, raced, winner, refused>>
writesVars  == <<registryVars, commandVars>>

(***************************************************************************)
(* The commands.                                                           *)
(***************************************************************************)

Groups == {"forcible", "feedin", "schedule"}

Resting(g) ==
    CASE g = "forcible" -> [command |-> "STOP", chargePower |-> "off",
                            dischargePower |-> "off", limit |-> "none"]
      [] g = "feedin"   -> [mode |-> "unlimited", watt |-> "off", percent |-> "off"]
      [] g = "schedule" -> [periods |-> <<>>]

Commands ==
    [forcible |-> {"forcible_charge", "forcible_discharge", "forcible_charge_soc",
                   "forcible_discharge_soc", "stop_forcible_charge", "stop_button"},
     feedin   |-> {"reset_feed", "zero_feed", "di_feed", "feed_watt", "feed_percent"},
     schedule |-> {"set_tou_periods", "edit_slot"}]

(* The registers a command writes, in order.                                *)
Starts(power, limit, command) ==
    << <<power, "on">>, <<"limit", limit>>, <<"command", command>> >>

Regulates(mode) == << <<"mode", mode>>, <<"watt", "off">>, <<"percent", "off">> >>

Writes(kind, arg) ==
    CASE kind = "forcible_charge"        -> Starts("chargePower", "time", "CHARGE")
      [] kind = "forcible_discharge"     -> Starts("dischargePower", "time", "DISCHARGE")
      [] kind = "forcible_charge_soc"    -> Starts("chargePower", "soc", "CHARGE")
      [] kind = "forcible_discharge_soc" -> Starts("dischargePower", "soc", "DISCHARGE")
      [] kind = "stop_forcible_charge"   -> << <<"command", "STOP">>, <<"chargePower", "off">>,
                                               <<"dischargePower", "off">>, <<"limit", "none">> >>
      [] kind = "stop_button"            -> << <<"command", "STOP">>, <<"dischargePower", "off">>,
                                               <<"limit", "none">> >>
      [] kind = "reset_feed"             -> Regulates("unlimited")
      [] kind = "zero_feed"              -> Regulates("zero")
      [] kind = "di_feed"                -> Regulates("di")
      [] kind = "feed_watt"              -> << <<"watt", "on">>, <<"mode", "watt">> >>
      [] kind = "feed_percent"           -> << <<"percent", "on">>, <<"mode", "percent">> >>
      [] kind = "set_tou_periods"        -> << <<"periods", arg>> >>
      [] OTHER                           -> <<>>

(* Those that read the greatest power the device allows first.              *)
Validates(kind) ==
    kind \in {"forcible_charge", "forcible_discharge", "forcible_charge_soc",
              "forcible_discharge_soc", "feed_watt"}

(* Whether a command can reach the inverter at all: its service is          *)
(* registered, by whichever entry, its target's entry is loaded and the     *)
(* target passes the checks; the button and the slots are entities of the   *)
(* target's own entry.                                                      *)
Service(kind) ==
    CASE kind = "di_feed"         -> "not_has_emma"
      [] kind \in Commands["feedin"] -> "always"
      [] kind = "set_tou_periods" -> "has_battery"
      [] OTHER                    -> "has_battery_not_emma"

Reachable(kind) ==
    LET on == composition[Owner]
    IN  /\ Loaded(Owner)
        /\ CASE kind = "stop_button" -> on.writes /\ on.battery # "none"
             [] kind = "edit_slot"   -> on.writes /\ on.battery = "LUNA" /\ ~on.emma
             [] kind \in Commands["feedin"] -> Service(kind) \in registered
             [] OTHER -> Service(kind) \in registered /\ on.battery # "none"

(***************************************************************************)
(* Schedules.                                                              *)
(***************************************************************************)

(* What validate_periods() and the library's encode() accept.               *)
ValidSchedule(s) ==
    /\ Len(s) <= MAX_TOU_PERIODS
    /\ \A i, j \in DOMAIN s : i # j => {s[i], s[j]} \notin Clashing

Schedules == {s \in BoundedSeq(Periods, MAX_TOU_PERIODS) : ValidSchedule(s)}

(* apply_slot_edit(): set, append or remove, by position.                   *)
Clear == "clear"

ApplySlotEdit(s, slot, new) ==
    IF new = Clear THEN (IF slot <= Len(s) THEN RemoveAt(s, slot) ELSE s)
    ELSE IF slot <= Len(s) THEN ReplaceAt(s, slot, new) ELSE Append(s, new)

Args(kind) ==
    CASE kind = "edit_slot"       -> (1 .. MAX_TOU_PERIODS) \X (Periods \cup {Clear})
      [] kind = "set_tou_periods" -> Schedules
      [] OTHER                    -> {<<>>}

(***************************************************************************)
(* Calls.                                                                  *)
(***************************************************************************)

Idle == [pc |-> "idle", kind |-> "none", arg |-> <<>>, todo |-> <<>>, rank |-> 0]

WritesInit ==
    /\ RegistryInit
    /\ group \in Groups
    /\ inverter = Resting(group)
    /\ shown = <<>>
    /\ lock = <<>> /\ bus = NoCall
    /\ call = [c \in Calls |-> Idle]
    /\ cutOff = FALSE /\ raced = FALSE
    /\ winner = [rank |-> 0, kind |-> "none"]
    /\ refused = {}

UnderWay == {c \in Calls : call[c].pc # "idle"}

(* A newcomer ranks after every call it overlaps and after the ones these   *)
(* overlapped.                                                              *)
NextRank ==
    IF UnderWay = {} THEN 1
    ELSE 1 + Max({call[c].rank : c \in UnderWay} \cup {winner.rank})

(* The handler finds and validates the target, then asks for the lock.      *)
Call(c, kind, arg) ==
    /\ call[c].pc = "idle" /\ Reachable(kind)
    /\ NextRank <= MAX_RANK
    /\ call' = [call EXCEPT ![c] = [pc |-> "queued", kind |-> kind, arg |-> arg,
                                    todo |-> Writes(kind, arg), rank |-> NextRank]]
    /\ lock' = Append(lock, c)
    /\ winner' = IF UnderWay = {} THEN [winner EXCEPT !.rank = 0] ELSE winner
    /\ UNCHANGED <<registryVars, group, inverter, shown, bus, cutOff, raced, refused>>

HoldsLockOrPresses(c) == Head(lock) = c \/ call[c].kind = "stop_button"

HoldsLock(c) == Head(lock) = c

(* _validate_power_value(): a guarded read of its own, under the lock.      *)
Validate(c) ==
    /\ call[c].pc = "queued" /\ HoldsLock(c) /\ Validates(call[c].kind)
    /\ bus = NoCall
    /\ call' = [call EXCEPT ![c].pc = "writing"]
    /\ UNCHANGED <<registryVars, group, inverter, shown, lock, bus, cutOff, raced, winner,
                   refused>>

(* The guard admits the command: one hold for all that follows.             *)
TakeBus(c) ==
    /\ \/ call[c].pc = "queued" /\ HoldsLock(c) /\ ~Validates(call[c].kind)
       \/ call[c].pc = "writing"
    /\ bus = NoCall
    /\ bus' = c
    /\ call' = [call EXCEPT ![c].pc = IF @ = "writing" THEN @
                                      ELSE IF call[c].kind = "edit_slot" THEN "reading"
                                      ELSE "writing"]
    /\ raced' = FALSE
    /\ UNCHANGED <<registryVars, group, inverter, shown, lock, cutOff, winner, refused>>

(* The call is over: its task is idle, the lock and the bus are free.       *)
Leave(c) ==
    /\ call' = [call EXCEPT ![c] = Idle]
    /\ \E i \in DOMAIN lock : lock[i] = c /\ lock' = RemoveAt(lock, i)
    /\ bus' = IF bus = c THEN NoCall ELSE bus

(* The editor reads the schedule afresh, edits its slot and goes on to      *)
(* write the whole schedule, unless it is unchanged or invalid.             *)
FromTheCoordinator == shown

FreshlyRead == inverter.periods

ReadSchedule(c) ==
    LET current == FreshlyRead
        updated == ApplySlotEdit(current, call[c].arg[1], call[c].arg[2])
    IN  /\ call[c].pc = "reading" /\ bus = c
        /\ IF updated # current /\ ValidSchedule(updated)
           THEN /\ call' = [call EXCEPT ![c].pc = "writing",
                                        ![c].todo = << <<"periods", updated>> >>]
                /\ UNCHANGED <<lock, bus>>
           ELSE Leave(c)
        /\ UNCHANGED <<registryVars, group, inverter, shown, cutOff, raced, winner, refused>>

FreeForEach(c) == NoCall

FreeAtTheEnd(c) == IF Len(call[c].todo) = 1 THEN NoCall ELSE c

(* One write is answered, with True or with False.  The handlers and the    *)
(* button ignore the answer and go on as if the register had been taken;    *)
(* the editor of a slot raises on False, which is a BreakOff.  After the    *)
(* last one the bus is free, and the call refreshes the coordinator before  *)
(* it lets go of the lock.                                                  *)
Take(w, taken) ==
    /\ inverter' = IF taken THEN [inverter EXCEPT ![w[1]] = w[2]] ELSE inverter
    /\ refused' = IF inverter'[w[1]] = w[2] THEN refused \ {w[1]} ELSE refused \cup {w[1]}

Write(c) ==
    LET w == Head(call[c].todo)
    IN  /\ call[c].pc = "writing" /\ bus = c
        /\ \E taken \in BOOLEAN : Take(w, taken) /\ (call[c].kind = "edit_slot" => taken)
        /\ Cardinality(refused') <= MAX_REFUSED
        /\ bus' = FreeAtTheEnd(c)
        /\ call' = [call EXCEPT ![c].todo = Tail(@),
                                ![c].pc = IF Len(call[c].todo) = 1 THEN "refreshing" ELSE @]
        /\ IF Len(call[c].todo) = 1
           THEN /\ cutOff' = FALSE
                /\ winner' = IF call[c].rank < winner.rank \/ group = "schedule" THEN winner
                             ELSE [rank |-> call[c].rank, kind |-> call[c].kind]
           ELSE UNCHANGED <<cutOff, winner>>
        /\ UNCHANGED <<registryVars, group, shown, lock, raced>>

Refreshed(c) ==
    /\ call[c].pc = "refreshing"
    /\ Leave(c)
    /\ UNCHANGED <<registryVars, group, inverter, shown, cutOff, raced, winner, refused>>

(* Refused, timed out, rejected, raised or cancelled, before anything was   *)
(* written.                                                                 *)
GiveUp(c) ==
    /\ \/ call[c].pc \in {"queued", "reading"}
       \/ call[c].pc = "writing" /\ bus # c
    /\ Leave(c)
    /\ UNCHANGED <<registryVars, group, inverter, shown, cutOff, raced, winner, refused>>

(* The same on the wire: the write under way may have been taken.  So does  *)
(* an edit that is answered with False.                                     *)
BreakOff(c) ==
    LET w == Head(call[c].todo)
    IN  /\ call[c].pc = "writing" /\ bus = c
        /\ Take(w, TRUE) \/ UNCHANGED <<inverter, refused>>
        /\ cutOff' = (group # "schedule")
        /\ Leave(c)
        /\ UNCHANGED <<registryVars, group, shown, raced, winner>>

Step(c) ==
    \/ Validate(c) \/ TakeBus(c) \/ ReadSchedule(c) \/ Write(c) \/ Refreshed(c)
    \/ GiveUp(c) \/ BreakOff(c)

(***************************************************************************)
(* The coordinator, the app and the entries.                               *)
(***************************************************************************)

(* A poll reads between two holds of the bus.  Of what it reads, only the   *)
(* schedule is kept here: the other groups are looked at in PolledWhole.    *)
Poll ==
    /\ bus = NoCall /\ group = "schedule"
    /\ shown' = inverter.periods
    /\ UNCHANGED <<registryVars, group, inverter, lock, bus, call, cutOff, raced, winner,
                   refused>>

AppEdits ==
    /\ group = "schedule"
    /\ \E s \in Schedules : inverter' = [inverter EXCEPT !.periods = s]
    /\ raced' = (bus # NoCall)
    /\ UNCHANGED <<registryVars, group, shown, lock, bus, call, cutOff, winner, refused>>

EntriesChange == RegistryNext /\ UNCHANGED commandVars

WritesNext ==
    \/ \E c \in Calls :
           \/ \E kind \in Commands[group] : \E arg \in Args(kind) : Call(c, kind, arg)
           \/ Step(c)
    \/ Poll
    \/ AppEdits
    \/ EntriesChange

WritesSpec == WritesInit /\ [][WritesNext]_writesVars

(***************************************************************************)
(* Properties.                                                             *)
(***************************************************************************)

(* Of the registers of a command, those that were not refused are as it     *)
(* writes them.                                                             *)
Applied(kind) ==
    \A w \in ToSet(Writes(kind, <<>>)) : w[1] \in refused \/ inverter[w[1]] = w[2]

(* ICS-12, Defect R: of commands that overlap, the one called last decides. *)
(* A stop, by service or by button, is not undone by a charge that was      *)
(* called before it and was still validating its power, and no mixture of   *)
(* two commands remains: every register of the last one is as it wrote it,  *)
(* save those the device refused it.                                        *)
LastCallWins ==
    UnderWay = {} /\ ~cutOff => Applied(winner.kind)

(* Two registers of a command are in accord, unless one was refused.        *)
InAccord(a, b, accord) == {a, b} \cap refused = {} => accord

(* What is switched on has its power.                                       *)
Powered(v) ==
    /\ group = "forcible" =>
           /\ InAccord("command", "chargePower", v.command = "CHARGE" => v.chargePower = "on")
           /\ InAccord("command", "dischargePower",
                       v.command = "DISCHARGE" => v.dischargePower = "on")
    /\ group = "feedin" =>
           /\ InAccord("mode", "watt", v.mode = "watt" => v.watt = "on")
           /\ InAccord("mode", "percent", v.mode = "percent" => v.percent = "on")

(* The registers of a group say the same thing.                             *)
MakesSense(v) ==
    /\ Powered(v)
    /\ group = "forcible" => InAccord("command", "limit", v.command = "STOP" <=> v.limit = "none")
    /\ group = "feedin" =>
           \A r \in {"watt", "percent"} :
               InAccord("mode", r, v.mode \in {"unlimited", "zero", "di"} => v[r] = "off")

(* MOD-19: a poll never sees a command half-written.  Whenever the bus is   *)
(* free for one, the registers make sense as one command, unless the last   *)
(* one was broken off; and even then nothing is switched on without its     *)
(* power, thanks to the order in which each command writes.  A register     *)
(* that the device refused is in accord with none.                          *)
PolledWhole ==
    bus = NoCall => Powered(inverter) /\ (~cutOff => MakesSense(inverter))

(* "what is logically one atomic command (e.g. "start forcible charge":     *)
(* mode, power, and duration registers that only make sense applied         *)
(* together)" (services.py:746-748): between commands none of which broke   *)
(* off, what is switched on has its power, whatever the device answered.    *)
CommandsAreAtomic ==
    bus = NoCall /\ ~cutOff =>
        /\ group = "forcible" /\ inverter.command = "CHARGE" => inverter.chargePower = "on"
        /\ group = "forcible" /\ inverter.command = "DISCHARGE" => inverter.dischargePower = "on"

(* text.py:40-47: an edit changes its own slot of the schedule the device   *)
(* has, and undoes neither another edit, nor a service call, nor what the   *)
(* app wrote since the last poll, unless the app writes during this very    *)
(* hold of the bus.                                                         *)
NoEditLost ==
    [][\A c \in Calls :
          /\ call[c].kind = "edit_slot" /\ call[c].pc = "writing"
          /\ call'[c].pc # "writing" /\ inverter' # inverter /\ ~raced
          => inverter'.periods = ApplySlotEdit(inverter.periods, call[c].arg[1], call[c].arg[2])
      ]_writesVars

(* "When an EMMA is present it is the sole battery manager, so exposing     *)
(* these would let a user issue a write that conflicts with EMMA's control" *)
(* (services.py:1810-1813): no service call that would write the            *)
(* forcible-charge registers of an inverter is accepted while its entry has *)
(* an EMMA.                                                                 *)
ServicesSpareEmma ==
    [][\A c \in Calls :
          /\ group = "forcible" /\ call[c].pc = "idle" /\ call'[c].pc = "queued"
          /\ Loaded(Owner) /\ composition[Owner].emma
          => call'[c].kind = "stop_button"]_writesVars
=============================================================================
