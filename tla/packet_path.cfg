CONSTANTS
    Traffic <- WebTraffic
    Options <- SomeOptions
    Faults <- AllFaults
    QueueMax = 2
    SocketMin = 1
    MaxPackets = 3
SPECIFICATION FairSpec
CHECK_DEADLOCK FALSE
INVARIANTS
    QueueAccounting
    
    NothingLeaked
PROPERTIES
    OrderKept
    ImplementsVerdicts
    Served
