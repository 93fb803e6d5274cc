SPECIFICATION FairSpec
CONSTANTS
    Payload = {p1, p2, p3}
    MaxDepth = 2
    MaxAttempts = 2
    Threshold = 2
    MaxCrashes = 1
INVARIANTS TypeOK StoredOnce
PROPERTIES QueueDrains
CHECK_DEADLOCK FALSE
