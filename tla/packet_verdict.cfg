CONSTANTS
    Traffic <- WebTraffic
    Options <- SomeOptions
    Faults <- NoFaults
    QueueMax = 2
    SocketMin = 1
    MaxPackets = 1
SPECIFICATION Spec
CHECK_DEADLOCK FALSE
INVARIANTS
    CallbackSendsVerdict
