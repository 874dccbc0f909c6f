\* three worker objects, a gearmand that fails, a reload
SYMMETRY Symmetry
SPECIFICATION Spec
CONSTANTS
    Ids = {w1, w2, w3}
    Servers = {s1}
    None = None
    MinWorker = 1
    MaxWorker = 2
    SpawnRate = 2
    SinkRate = 1
    MaxFailures = 1
    MaxReloads = 1
INVARIANTS
    TypeOK
    PoolBounded
    NoOrphan
    NoDeadEntry
\* with every bound used up the model may stop
CHECK_DEADLOCK FALSE
