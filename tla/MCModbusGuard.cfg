CONSTANTS
    n1 = n1
    n2 = n2
    p1 = p1
    p2 = p2
    s1 = s1
    s2 = s2
    NoTask = NoTask
    Tasks <- ThreeTasks
    PriorityTasks <- AllPriorityTasks
    Sources <- TwoSources
    GapReports <- SomeReports
    DepthReports <- SomeReports
    MAX_QUEUE_DEPTH = 2
    MAX_PRIORITY_QUEUE_DEPTH = 1
    MIN_GAP = 1
    MAX_GAP = 2
SPECIFICATION FairSpec
INVARIANTS
    LockHeldByLiveRequest
    CountersExact
    SafestAggregate
PROPERTIES
    NoOvertaking
    PacedLine
    WaiterIsServed
