SPECIFICATION ContainerFairSpec
CONSTANTS
    v1 = v1
    v2 = v2
    Vehicle = {v1, v2}
    DependsOn <- MCChain
    Copy = {1}
    MaxQueued = 1
    Slots = 2
    MaxStrays = 0
    MaxRequests = 0
    MaxRestarts = 0
PROPERTIES Settles
CHECK_DEADLOCK FALSE
