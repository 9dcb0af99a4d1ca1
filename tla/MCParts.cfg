SPECIFICATION PartsSpec
CONSTANTS
    Producers = {p1, p2}
    Consumers = {c1}
    TimedConsumers = {d1, d2}
    Controllers = {k1}
    Items = {a, b}
    Capacity = 1
    OptionChoices <- MCOptionChoices
    Ticks <- MCTicks
    MaxIds = 9
    Callables <- MCCallables
    NoObject = "null"
    Groups = {0, 1}
    MaxSlots = 3
    Bytes = {x, y}
    Strings <- MCStrings
    InitSize = 2
    MaxBytes = 4
    TypeOf <- MCTypeOf
    Numbers = {"0", "1", "5"}
    Arguments <- MCArguments
    MaxArguments = 3
    SectionNames <- MCSectionNames
    Keys <- MCKeys
    Values <- MCValues
    Comments <- MCComments
    Noise <- MCNoise
    tx1 = tx1
    tx2 = tx2
    tx3 = tx3
    rx = rx
    Senders = {tx1, tx2, tx3}
    Receivers = {rx}
    Getters = {taker}
    To <- MCTo
    From <- MCFrom
    NoSender = NoSender
    Retries = 1
    Sizes <- MCSizes
    MaxMessages <- MCMaxMessages
    Direct = {tx3}
    Failing = {tx1}
CHECK_DEADLOCK FALSE
INVARIANTS
    NoLostRoom
    DriftBounded
    EmissionReachesSlots
    BytesInOrder
    EveryArgumentIsRead
    LastAssignmentHolds
    StreamIntact
PROPERTIES
    IdsIncrease
    DisconnectsMatching
