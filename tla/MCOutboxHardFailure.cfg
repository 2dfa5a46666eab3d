CONSTANTS
    Rows = {1}
    Workers = {w1}
    BatchLimit = 1
    MaxAttempts = 5
    CopiesBound = 1
    OutboxFaults = {"publish"}
SPECIFICATION OutboxSpec
INVARIANT HardFailureAfterMaxAttempts
CHECK_DEADLOCK FALSE
