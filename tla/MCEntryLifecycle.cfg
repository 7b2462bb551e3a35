CONSTANTS
    home = home
    flow = flow
    inv1 = inv1
    inv2 = inv2
    NoKeepAlive = NoKeepAlive
    Entries <- MCEntries
    Flows <- MCFlows
    DevicesOf <- MCDevicesOf
    MaxAttempts = 2
    MaxGuards = 3
CHECK_DEADLOCK FALSE
SPECIFICATION Spec
INVARIANTS
    ReferencesExact
    NothingLeftRunning
    NoProbeOnClosedLine
    HealthIsKnown
PROPERTIES
    EntrySettles
