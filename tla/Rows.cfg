SPECIFICATION Spec
CONSTANTS
    c1 = c1
    c2 = c2
    Consumers <- Two
    Reader = c1
    MaxQueries <- QueriesFor
    Arguments <- ArgumentsFor
    MaxRows <- RowsFor
    MaxFaults <- FaultsFor
INVARIANTS
    EndsOnce
    TokenIsHeld
    ErrorsReported
PROPERTY
    FinishReturns
CHECK_DEADLOCK FALSE
