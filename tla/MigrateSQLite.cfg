SPECIFICATION Spec
CONSTANTS
    a = a
    b = b
    Runners = {a, b}
    Engine = "sqlite"
    N = 2
    MaxSum = 1
    MaxSrc = 2
    Sum <- SameSum
    Source <- MixedSource
    Down <- SameDown
    ApplyAims <- ApplyAll
    RevertAims <- BackOneOrTwo
    MaxRuns = 3
    MaxFaults = 2
PROPERTIES
    ImplementsHistory
CHECK_DEADLOCK FALSE
