SPECIFICATION Spec
CONSTANTS
    a = a
    b = b
    Runners = {a, b}
    Engine = "mysql"
    N = 3
    MaxSum = 2
    MaxSrc = 2
    Sum <- EditedSum
    Source <- MySQLSource
    Down <- EditedDown
    ApplyAims <- ApplyAll
    RevertAims <- BackOneOrTwo
    MaxRuns = 3
    MaxFaults = 2
PROPERTIES
    RecordedWhenAnswered
CHECK_DEADLOCK FALSE
