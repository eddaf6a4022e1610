SPECIFICATION FairSpec
CONSTANTS
    Base = 16
    LengthBytes = 1
    ReservedBytes = 1
    IdBytes = 2
    MAX_FRAME_SIZE = 4
    Json <- MCJson
    Messages <- MCMessages
    MaxSent = 3
INVARIANTS
    EndsForCause
PROPERTIES
    StreamSpec
    Delivered
CHECK_DEADLOCK FALSE
