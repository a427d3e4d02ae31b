SPECIFICATION Spec
CONSTANTS
    a = a
    b = b
    Runners = {a, b}
    Engine = "postgresql"
    N = 3
    MaxSum = 2
    MaxSrc = 2
    Sum <- SplitSum
    Source <- SplitSource
    Down <- SplitDown
    ApplyAims <- ApplyAllOrFirst
    RevertAims <- ThroughOneOrBack
    MaxRuns = 3
    MaxFaults = 2
INVARIANTS
    MutualExclusion
    NothingHeldWhenIdle
    HistorySound
    AtomicAllOrNothing
PROPERTIES
    RunsAreIsolated
    ReportedIsRecorded
    ImplementsHistory
    CallsReturn
CHECK_DEADLOCK FALSE
