SPECIFICATION MCFairSpec
CONSTANTS
    v1 = v1
    v2 = v2
    Vehicle = {v1, v2}
    DependsOn <- MCIndependent
    Copy = {1}
    MaxQueued = 1
    Slots = 1
    MaxStrays = 1
    MaxRequests = 1
    MaxRestarts = 1
PROPERTIES Settles
CHECK_DEADLOCK FALSE
