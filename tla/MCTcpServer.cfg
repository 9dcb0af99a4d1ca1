SPECIFICATION FairSpec
CONSTANTS
    SessionCount = 2
    ContextCount = 1
    Sizes <- MCSizes
    PrefixSize = 1
    LogicCapacity = 1
    SendCapacity = 1
CHECK_DEADLOCK FALSE
INVARIANTS
    AnsweredInOrder
PROPERTIES
    MessagesAreHandled
