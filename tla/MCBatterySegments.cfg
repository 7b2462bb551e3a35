SPECIFICATION SegmentsSpec
CONSTANTS
    SETTLING = 1
    LATENCY = 1
    AFTER = 1
    BRIDGE = 2
    MAX_IDLE = 0
    MAX_SEGMENTS = 1
INVARIANTS
    NothingSpansABoundary
    NoticedCalibrationExcluded
    LearnsOnlyWhenCalm
CHECK_DEADLOCK FALSE
