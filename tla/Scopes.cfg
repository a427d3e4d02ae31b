SPECIFICATION Spec
CONSTANTS
    Outers <- Any
    Habits <- Everything
    AbortOnError = TRUE
    MaxDepth = 3
    MaxWrites = 3
    MaxSaves = 2
    MaxFaults = 2
INVARIANTS
    NilMeansDurable
    FailedCallbackLeavesNothing
    RolledBackStaysOut
    ScopesOnServer
    ConnectionExclusive
CHECK_DEADLOCK FALSE
