\* a check that may be too old
SPECIFICATION Spec
CONSTANTS
    Jobs = {j1}
    Daemons = {d1}
    None = None
    Codes = {0}
    MaxRetries = 3
    RestartEvery = 3
    MaxTrouble = 0
    MaxReloads = 0
    Kinds <- MCKinds
    Negates <- MCNegates
    NoNegate = NoNegate
    TimeoutReturn = 3
INVARIANT TooOldDiscarded
\* the check done, the model stops
CHECK_DEADLOCK FALSE
