CONSTANTS
    power = power
    yield = yield
    NoValue = NoValue
    Registers <- MCRegisters
    Static <- NoStatic
    Values <- MCValues
    Fast <- OneFast
    Normal <- NoNormal
    Energy <- OneEnergy
    ChunkOf <- YieldFirst
    MAX_CONSECUTIVE_TIMEOUTS = 1
    TIMEOUT_CAP = 2
    BUSY_MAX_RETRIES = 1
    BACKOFF_NORMAL_DIVISOR = 1
SPECIFICATION FairSpec
INVARIANTS
    AccountedOnce
PROPERTIES
    PublishesWhatItTrusts
    ZeroGuarded
    BackoffEnds
    EveryRegisterRefreshed
    PollTerminates
