CONSTANTS
    yield = yield
    serial = serial
    NoEntry = NoEntry
    NoValue = NoValue
    Registers <- MCRegisters
    Values <- MCValues
    Classes <- MCClasses
    BaseTTL <- MCBaseTTL
    CapTTL <- MCCapTTL
    Floor <- MCFloor
    Ceiling <- MCCeiling
    PollInterval = 2
    ADAPTIVE_FACTOR = 2
    NIGHT_TTL_MULTIPLIER = 10
    MIN_MISSED = 2
    HARD_FACTOR = 2
    MaxAge = 4
SPECIFICATION Spec
INVARIANTS
    GoodIsRecent
    BlankedForCause
PROPERTIES
    ImplementsContract
