CONSTANTS
    MAX_TTL_ENTRIES = 2
    TTL_LEARNING_PACKETS = 3
    TTL_LEARNING_TIMEOUT = 1
    TTL_ESTABLISHED_TIMEOUT = 2
    Packets <- MCPackets
    TTLs = {0, 64, 128}
    AutoTtl <- MCAutoTtl
    MaxTime = 3
    MaxCount = 4
SPECIFICATION Spec
INVARIANTS
    OneEntryPerConnection
    LearnedRange
    FakeTtlInWindow
    EstablishedWhenLearned
PROPERTIES
    EstablishedIsFrozen
    RangeOnlyWidens
    ForgottenForAReason
