\* One worker is shut down and canceled while it handles one job after another.
SPECIFICATION FairSpec
CONSTANTS
    Workers = {w1}
    Jobs = {j1, j2}
    ResultJobs = {j1, j2}
    NoJob = NoJob
    NoWorker = NoWorker
    BackgroundingThreshold = 30
    BallooningSlots = 1
    QueueSize = 1
    Stoppable = {w1}
INVARIANTS
    OkIsNeverSilent
    ResultAtMostOnce
    ActiveJobsCounts
    BallooningBounded
PROPERTIES
    CancelReachesListed
    EveryJobAnswered
    EveryResultEnqueued
\* all jobs done or the worker stopped, the model stops
CHECK_DEADLOCK FALSE
