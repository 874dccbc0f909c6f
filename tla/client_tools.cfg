\* The three client tools, one at a time
SPECIFICATION Spec
CONSTANTS
    Inputs <- MCInputs
    NumServers = 2
    SendRetries = 1
    ChanSize = 1
    MaxOutages = 2
    Hosts = {h1, h2}
    Conns = {1, 2, 3}
    MaxFailures = 1
    MaxChanges = 1
    MaxAsked = 1
    ArgSets <- MCArgSets
    Statuses <- MCStatuses
    Responses <- MCResponses
INVARIANTS
    ExitZeroMeansSent
    GiveUpNeedsOutage
    VerdictFitsStatus
PROPERTIES
    SendGearmanEnds
    LatestStatusShown
CHECK_DEADLOCK FALSE
