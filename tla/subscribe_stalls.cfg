SPECIFICATION SubSpec
CONSTANTS
    FromPosition = 0
    PollBatch = 1
    Capacity = 1
    MaxRows = 3
CHECK_DEADLOCK FALSE
PROPERTY SubscriberSeesAll
