\* two results through a queue of one, two consumers, one dup server
SPECIFICATION FairSpec
CONSTANTS
    Results = {r1, r2}
    DupServers = {d1}
    NumConsumers = 2
    QueueSize = 1
    Backlog = 1
    MaxRetries = 1
    None = None
INVARIANTS Conservation DupOrder
PROPERTIES ServiceSpec DupNeverBlocks EveryResultSettled TerminationCompletes
\* the program ends, by termination or by a crash
CHECK_DEADLOCK FALSE
