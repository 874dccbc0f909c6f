\* three signals, at any time
SPECIFICATION FairSpec
CONSTANTS
    Arguments <- MCArguments
    Disks <- MCDisks
    KeyFiles = {}
    NoConfig = NoConfig
    OpenFilesLimits <- MCOpenFilesLimits
    Signals = {"SIGHUP", "SIGINT", "SIGTERM"}
    MaxSignals = 3
INVARIANTS TypeOK Serving LastGoodConfig ListensToConfig CrashNeedsBrokenReload
PROPERTIES TerminationEnds ReloadTakesEffect
\* the program ends, and signals are bounded
CHECK_DEADLOCK FALSE
