SPECIFICATION OrderSpec
CONSTANTS
    MaxQueuePriority = 1
    MaxQueueRetries = 1
    RetryBand = 2
    Ids = {1, 2, 3}
    Priorities = {0, 2}
    MaxRetries = 2
    MaxClock = 2
PROPERTIES
    HandedOutInOrder
CHECK_DEADLOCK FALSE
