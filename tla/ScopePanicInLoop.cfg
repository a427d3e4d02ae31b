SPECIFICATION Spec
CONSTANTS
    Outers <- JustWithin
    Habits <- Panics
    AbortOnError = FALSE
    MaxDepth = 2
    MaxWrites = 2
    MaxSaves = 1
    MaxFaults = 0
INVARIANTS
    ScopeEndsTransaction
CHECK_DEADLOCK FALSE
