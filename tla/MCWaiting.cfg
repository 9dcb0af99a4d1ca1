SPECIFICATION WaitingSpec
CONSTANTS
    Producers = {p1, p2}
    Consumers = {c1, c2}
    TimedConsumers = {}
    Controllers = {k1}
    Items = {a, b}
    Capacity = 2
    Clients = {t1, t2, t3, t4}
    Connections = {x1, x2}
INVARIANTS
    NoLostItem
    NoLostRoom
    PoolIntact
    AtMostOneUnannounced
    AtMostOneMissesClose
PROPERTIES
    ImplementsBuffer
    SleepersAreServed
    CloseReleasesConsumers
    CloseReleases
