CONSTANTS
    a = a
    b = b
    Instances = {a}
    NRules = 4
    Configs <- Foreground
    Faults <- NoFaults
    MaxStarts = 1
    MaxKills = 0
    MaxFailed = 0
SPECIFICATION FairSpec
CHECK_DEADLOCK FALSE
PROPERTIES
    StopsWhenAsked
