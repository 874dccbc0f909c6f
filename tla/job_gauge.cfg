\* The gauge of backgrounded jobs after the last job is done.
SPECIFICATION Spec
CONSTANTS
    Workers = {w1}
    Jobs = {j1}
    ResultJobs = {j1}
    NoJob = NoJob
    NoWorker = NoWorker
    BackgroundingThreshold = 30
    BallooningSlots = 1
    QueueSize = 1
    Stoppable = {}
INVARIANT BallooningGaugeFalls
\* the job done, the model stops
CHECK_DEADLOCK FALSE
