SPECIFICATION FlightSpec
CONSTANTS
    c1 = c1
    c2 = c2
    c3 = c3
    Callers <- MCCallers
    MaxVersion = 1
    Empty = Empty
CHECK_DEADLOCK FALSE
PROPERTY
    AbandonedSlotFreed
