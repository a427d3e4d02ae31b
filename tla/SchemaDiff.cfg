SPECIFICATION Spec
CONSTANTS
    NameOrder <- Names
    RebuildNames <- Temporaries
    Bases <- SomeBases
    Targets <- SomeTargets
    Contents <- SomeRows
    Systems <- AllSystems
    MaxTries = 2
INVARIANTS
    TargetReached
    BaselineRestored
    
CHECK_DEADLOCK FALSE
