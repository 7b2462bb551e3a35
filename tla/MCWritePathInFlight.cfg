CONSTANTS
    limit = limit
    state = state
    NoValue = NoValue
    Setting = limit
    Registers <- SettingAndState
    Static <- NoRegister
    Values <- TwoValues
    Fast <- NoRegister
    Normal <- SettingAndState
    Energy <- NoRegister
    ChunkOf <- SettingFirst
    MAX_CONSECUTIVE_TIMEOUTS = 1
    TIMEOUT_CAP = 2
    BUSY_MAX_RETRIES = 1
    BACKOFF_NORMAL_DIVISOR = 2
    WRITE_VERIFY_RETRIES = 1
SPECIFICATION FairWriteSpec
PROPERTY
    NoPreWriteValue
