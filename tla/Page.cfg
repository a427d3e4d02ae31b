SPECIFICATION Spec
CONSTANTS
    Columns <- TwoColumns
    Rows <- AllRows
    Queries <- SomeQueries
    Limits <- AnyLimit
    DefaultLimit = 1
    MaxLimit = 2
    Unencodable <- NaN
    Unreadable <- NegativeZero
    MaxWrites = 2
    MaxFailures = 1
INVARIANTS
    PagesAscend
    NothingSkipped
CHECK_DEADLOCK FALSE
