SPECIFICATION TextsSpec
CONSTANTS
    Clients = {t1, t2, t3}
    Connections = {c1, c2}
    MaxElements = 2
    Documents <- MCDocuments
    Decimals = 2
    MaxInt = 99
    Expressions <- MCExpressions
    BufferSize = 24
CHECK_DEADLOCK FALSE
INVARIANTS
    ContextsComeBack
    EveryFreeContextIsAnnounced
    TextsReadBack
    EvaluatesAsWritten
PROPERTY
    AnswersAreTrue
