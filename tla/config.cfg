CONSTANTS
    Options <- MCOptions
    UintRange <- MCUintRange
    MaxOptions = 3
SPECIFICATION Spec
INVARIANTS
    TypeOK
    
    
    LastOptionWins
PROPERTIES
    FlagsStayOn
CHECK_DEADLOCK FALSE
