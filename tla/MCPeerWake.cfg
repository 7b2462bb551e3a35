SPECIFICATION PeerWakeSpec
CONSTANTS
    Coordinators = {inv1, inv2}
    NIGHT_ENTRY_HOLD = 3
    PEER_WAKE_HOLD = 2
    inv1 = inv1
    inv2 = inv2
INVARIANTS
    SleepersStayAwake
PROPERTIES
    EveryoneSleepsAtLast
