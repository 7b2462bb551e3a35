CONSTANTS
    limit = limit
    state = state
    NoValue = NoValue
    Setting = limit
    Registers <- SettingOnly
    Static <- NoRegister
    Values <- TwoValues
    Fast <- NoRegister
    Normal <- SettingOnly
    Energy <- NoRegister
    ChunkOf <- SettingAlone
    MAX_CONSECUTIVE_TIMEOUTS = 1
    TIMEOUT_CAP = 2
    BUSY_MAX_RETRIES = 0
    BACKOFF_NORMAL_DIVISOR = 2
    WRITE_VERIFY_RETRIES = 1
SPECIFICATION FairWriteSpec
INVARIANTS
    ServedIsCurrent
PROPERTIES
    WriteIsShown
