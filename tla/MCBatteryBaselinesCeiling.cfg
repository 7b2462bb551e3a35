SPECIFICATION Spec
CONSTANTS
    TOLERANCE = 1
    JITTER = 1
    MAX_ENERGY = 0
    Ceilings = {c1, c2}
    DEBOUNCE = 3
    SERVED = 1
    WINDOWS = 1
    EFF_BASELINE = 1
    SAMPLES = 1
    BAL_BASELINE = 1
    SETTLE = 1
    SPACING = 1
PROPERTIES
    ConfirmedByReadings
CHECK_DEADLOCK FALSE
