CONSTANTS
    inv1 = inv1
    meter = meter
    inv2 = inv2
    None = None
    ReadOrder <- MCReadOrder
    TOLERANCE = 1
    DEADLINE = 2
    ReadLimit = 2
    MaxAge = 3
SPECIFICATION Spec
INVARIANTS
    UnflaggedIsAligned
    FreshIsPublished
    PollIsBounded
