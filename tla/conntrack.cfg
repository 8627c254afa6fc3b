CONSTANTS
    MAX_CONNECTIONS = 3
    Packets <- MCPackets
    Timeout = 1
    MaxTime = 3
SPECIFICATION Spec
INVARIANTS
    EntriesReachable
    
PROPERTIES
    LossIsExplained
