SPECIFICATION MCSpec
CONSTANTS
    Message = {m1}
    MaxRequests = 3
    MaxRestarts = 1
INVARIANTS TypeOK AcceptedPerOffer CompletionEarned BuilderCanBeStopped
CHECK_DEADLOCK FALSE
