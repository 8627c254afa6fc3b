CONSTANTS
    a = a
    b = b
    Instances = {a, b}
    NRules = 2
    Configs <- Foreground
    Faults <- AllFaults
    MaxStarts = 4
    MaxKills = 2
    MaxFailed = 1
SPECIFICATION Spec
CHECK_DEADLOCK FALSE
SYMMETRY Symmetry
INVARIANTS
    RulesDoNotPileUp
    NoRuleOutlivesTheProgram
    NoPidFileOutlivesTheProgram
