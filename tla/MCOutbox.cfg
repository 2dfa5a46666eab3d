CONSTANTS
    Rows = {1, 2}
    Workers = {w1, w2}
    BatchLimit = 2
    MaxAttempts = 1
    CopiesBound = 2
    OutboxFaults = {"nokafka", "publish", "ambiguous", "update", "crash"}
SPECIFICATION OutboxFairSpec
INVARIANTS
    OutboxTypeOK
    PublishedWasDelivered
    RetriesBounded
PROPERTIES
    SettledStays
    EveryEventSettles
