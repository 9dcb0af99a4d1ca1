SPECIFICATION TransfersSpec
CONSTANTS
    Senders = {s1}
    a = a
    b = b
    short = short
    Messages = {a, b, short}
    Packets <- MCPackets
    GroupIds = 3
    MaxDuplicates = 2
    MaxRestarts = 1
    Initiator = Initiator
    Responder = Responder
    NoSender = NoSender
CHECK_DEADLOCK FALSE
INVARIANTS
    DeliveredIntact
    AgainOnlyIfAllDuplicated
PROPERTIES
    DeliveredIfNothingLost
    ExchangeCompletes
