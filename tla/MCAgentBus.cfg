SPECIFICATION FairSpec
CONSTANTS
    m1 = m1
    h1 = h1
    Message = {m1, m2}
    Hook = {h1, h2}
    Matches <- MCMatches
    MaxAttempts = 2
    MaxHooks = 2
    MaxRestarts = 1
INVARIANTS TypeOK Durable NoPushLost
PROPERTIES InOrder PushesSettle
CHECK_DEADLOCK FALSE
