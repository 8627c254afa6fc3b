CONSTANTS
    a = a
    b = b
    Instances = {a}
    NRules = 4
    Configs <- OtherQueue
    Faults <- NoFaults
    MaxStarts = 1
    MaxKills = 0
    MaxFailed = 0
SPECIFICATION Spec
CHECK_DEADLOCK FALSE
INVARIANTS
    ConfiguredQueueIsFed
