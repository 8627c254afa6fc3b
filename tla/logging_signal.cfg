CONSTANTS
    Configs <- MCConfigs
    MaxMessages = 1
SPECIFICATION FairSpec
PROPERTIES
    GracefulShutdown
CHECK_DEADLOCK FALSE
