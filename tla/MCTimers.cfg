SPECIFICATION FairTimersSpec
CONSTANTS
    MaxCalls = 3
    TaskIds = {t1, t2, t3}
    Delays <- MCDelays
    MaxTime = 3
    HitPlaces = {a, b, c}
    IntervalPlaces = {d}
    LastTime = 2
    MaxHits = 5
CHECK_DEADLOCK FALSE
INVARIANTS
    AtMostOneLateCallback
    OnTimeAndOnce
    LapsAddUp
PROPERTIES
    DestructorReturns
    TaskRuns
    TasksAreServed
