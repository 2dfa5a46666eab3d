CONSTANTS
    Rows = {1, 2}
    Workers = {w1, w2}
    BatchLimit = 2
    MaxAttempts = 5
    CopiesBound = 2
    OutboxFaults = {}
SPECIFICATION OutboxSpec
INVARIANT NoSharedRow
CHECK_DEADLOCK FALSE
