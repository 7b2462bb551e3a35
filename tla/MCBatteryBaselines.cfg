SPECIFICATION Spec
CONSTANTS
    TOLERANCE = 1
    JITTER = 1
    MAX_ENERGY = 5
    Ceilings = {c1, c2}
    DEBOUNCE = 2
    SERVED = 0
    WINDOWS = 2
    EFF_BASELINE = 2
    SAMPLES = 2
    BAL_BASELINE = 2
    SETTLE = 1
    SPACING = 3
INVARIANTS
    NeverOvercounts
    EpochHasOneCeiling
PROPERTIES
    TotalNeverFalls
SYMMETRY Symmetry
CHECK_DEADLOCK FALSE
