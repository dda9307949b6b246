CONSTANTS
    MaxChannels = 2
    Replies = {1, 130}
    MaxPrepares = 2
    Stored = {128}
    Garbage = {0, 255}
    Null = Null
    Dangling = Dangling
SPECIFICATION Spec
INVARIANTS
    TypeOK
    SafeBetweenStarts
    CalibrationHolds
PROPERTIES
    TicksEnd
CHECK_DEADLOCK FALSE
