\* one check, a daemon in trouble once, one reload or shutdown
SPECIFICATION FairSpec
CONSTANTS
    Jobs = {j1}
    Daemons = {d1, d2}
    None = None
    Codes = {0, 2, 4}
    MaxRetries = 3
    RestartEvery = 3
    MaxTrouble = 1
    MaxReloads = 1
    Kinds <- MCKinds
    Negates <- MCNegates
    NoNegate = NoNegate
    TimeoutReturn = 3
INVARIANTS
    TypeOK
    OkMeansOk
    TimeoutReported
    NoDaemonLeftBehind
PROPERTIES
    DaemonsStopped
    ExecutionEnds
    EpnHeals
\* the program may exit
CHECK_DEADLOCK FALSE
