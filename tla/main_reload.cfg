\* a second SIGHUP while the first one is being worked on
SPECIFICATION Spec
CONSTANTS
    Arguments <- MCArguments
    Disks <- MCDisks
    KeyFiles = {}
    NoConfig = NoConfig
    OpenFilesLimits = {1024}
    Signals = {"SIGHUP"}
    MaxSignals = 2
INVARIANT ServingAcrossReloads
CHECK_DEADLOCK FALSE
