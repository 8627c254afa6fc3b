CONSTANTS
    Packets <- MCPackets
    HASH_VALUE <- MCHash
    HASH_INITIAL_NUM_BUCKETS = 1
    HASH_BKT_CAPACITY_THRESH = 2
    DNS_TRACKING_TIMEOUT = 0
    MaxEntries = 5
    MaxBuckets = 128
    MaxTime = 1
SPECIFICATION Spec
INVARIANTS
    TypeOK
    
    FindsWhatIsThere
    ChainsStayShort
    LookupNamesTheServer
    OneEntryPerExchange
PROPERTIES
    LiveExchangeIsKept
    SweepLeavesTheActive
