SPECIFICATION FairSpec
CONSTANTS
    Chunks = 3
    Room = 2
INVARIANTS
    TypeOK
    InOrder
    AnswerComplete
PROPERTIES
    TunnelSpec
    BothEnd
    Forwards
CHECK_DEADLOCK FALSE
