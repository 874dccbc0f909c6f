\* a reload while nothing fails
SPECIFICATION FairSpec
CONSTANTS
    Ids = {w1, w2}
    Servers = {s1}
    None = None
    MinWorker = 1
    MaxWorker = 2
    SpawnRate = 1
    SinkRate = 1
    MaxFailures = 0
    MaxReloads = 1
PROPERTY MinWorkersAfterReload
\* with every bound used up the model may stop
CHECK_DEADLOCK FALSE
