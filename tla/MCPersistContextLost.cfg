SPECIFICATION Spec
CONSTANTS
    Payload = {p1, p2, p3}
    MaxDepth = 3
    MaxAttempts = 3
    Threshold = 2
    MaxCrashes = 0
PROPERTIES NoContextLost
CHECK_DEADLOCK FALSE
