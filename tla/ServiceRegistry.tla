--------------------------- MODULE ServiceRegistry ---------------------------
(* The services of services.py, registered once for the whole of Home       *)
(* Assistant by the config entries that can use them, and removed with the  *)
(* last of these (ICS-009, ICS-010).  An entry's devices, and its option to *)
(* change parameters, may differ each time it is set up.                    *)
EXTENDS FiniteSets

CONSTANTS
    Entries,      \* config entries of the integration
    Compositions, \* of each entry, what its devices and options may be
    Absent        \* of an entry that is not loaded

(* emma: an EMMA manages the batteries.  battery: the inverters have one.   *)
(* peak: one supports capacity control.  writes: the option                 *)
(* CONF_ENABLE_PARAMETER_CONFIGURATION.                                     *)
ASSUME RegistryAssumption ==
    \A e \in Entries :
        /\ Compositions[e] \subseteq [emma: BOOLEAN, battery: {"none", "LUNA", "LG"},
                                      peak: BOOLEAN, writes: BOOLEAN]
        /\ Absent \notin Compositions[e]

VARIABLES
    composition,       \* what each loaded entry was set up with
    entriesWith,       \* _entries_with_services
    capabilityEntries, \* _capability_entries
    registered         \* the clusters of services Home Assistant has

registryVars == <<composition, entriesWith, capabilityEntries, registered>>

(* _CAPABILITY_SERVICES: the clusters that are registered together.         *)
Capabilities == {"always", "not_has_emma", "has_battery", "has_battery_not_emma",
                 "has_lg_battery", "has_capacity_control"}

RegistryInit ==
    /\ composition = [e \in Entries |-> Absent]
    /\ entriesWith = {}
    /\ capabilityEntries = [k \in Capabilities |-> {}]
    /\ registered = {}

(* The clusters that an entry contributes.                                  *)
Contributes(on) ==
    IF ~on.writes THEN {}
    ELSE {"always"}
         \cup (IF on.emma THEN {} ELSE {"not_has_emma"})
         \cup (IF on.battery # "none" THEN {"has_battery"} ELSE {})
         \cup (IF on.battery # "none" /\ ~on.emma THEN {"has_battery_not_emma"} ELSE {})
         \cup (IF on.battery = "LG" THEN {"has_lg_battery"} ELSE {})
         \cup (IF on.peak THEN {"has_capacity_control"} ELSE {})

Loaded(e) == composition[e] # Absent

(* async_setup_services(), at the end of the entry's set-up.                *)
SetUpServices(e, on) ==
    /\ ~Loaded(e)
    /\ composition' = [composition EXCEPT ![e] = on]
    /\ entriesWith' = IF on.writes THEN entriesWith \cup {e} ELSE entriesWith
    /\ capabilityEntries' = [k \in Capabilities |->
           IF k \in Contributes(on) THEN capabilityEntries[k] \cup {e}
           ELSE capabilityEntries[k]]
    /\ registered' = registered \cup Contributes(on)

(* The clusters that async_unload_services() leaves when these entries      *)
(* still contribute.                                                        *)
KeepsAllButLast(with, contributors) == IF with = {} THEN {} ELSE registered

StillProvided(with, contributors) ==
    IF with = {} THEN {} ELSE {k \in registered : contributors[k] # {}}

(* async_unload_services(), whether or not the platforms unloaded.          *)
UnloadServices(e) ==
    /\ Loaded(e)
    /\ composition' = [composition EXCEPT ![e] = Absent]
    /\ entriesWith' = entriesWith \ {e}
    /\ capabilityEntries' = [k \in Capabilities |-> capabilityEntries[k] \ {e}]
    /\ registered' = StillProvided(entriesWith', capabilityEntries')

RegistryNext ==
    \E e \in Entries :
        \/ \E on \in Compositions[e] : SetUpServices(e, on)
        \/ UnloadServices(e)

(* ICS-009: a service is there exactly while some loaded entry has a use    *)
(* for it, whichever entries came and went, and with whatever devices.      *)
RegisteredIsProvided ==
    registered = UNION {Contributes(composition[e]) : e \in {f \in Entries : Loaded(f)}}
=============================================================================
