\* an executing goroutine is between its two enqueue calls while Shutdown runs
SPECIFICATION Spec
CONSTANTS
    Results = {r1}
    DupServers = {d1}
    NumConsumers = 1
    QueueSize = 1
    Backlog = 1
    MaxRetries = 1
    None = None
INVARIANT ShutdownNeverCrashes
CHECK_DEADLOCK FALSE
