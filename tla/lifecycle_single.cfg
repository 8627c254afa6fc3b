CONSTANTS
    a = a
    b = b
    Instances = {a}
    NRules = 4
    Configs <- DaemonToo
    Faults <- FaultsButKilled
    MaxStarts = 4
    MaxKills = 2
    MaxFailed = 4
SPECIFICATION BusySpec
CHECK_DEADLOCK FALSE
INVARIANTS
    RulesInPlace
    NormalExitLeavesNothing
    ForegroundPidFile
PROPERTIES
    StopsWhenAsked
