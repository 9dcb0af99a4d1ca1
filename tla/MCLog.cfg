SPECIFICATION MCLogSpec
CONSTANTS
    t1 = t1
    t2 = t2
    l1 = l1
    l2 = l2
    l3 = l3
    Loggers <- MCLoggers
    Writer = w
    Destroyer = d
    Lines <- MCLines
    QueueCapacity = 1
    MAX_LINES = 2
    LastDay = 1
    MaxFailures = 1
CHECK_DEADLOCK FALSE
INVARIANTS
    PushNeverSleeps
    ReturnedLinesKept
    QueuedInOrder
PROPERTIES
    LinesGetWritten
    JoinReturnsFromSleep
