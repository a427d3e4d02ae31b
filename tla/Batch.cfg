SPECIFICATION Spec
CONSTANTS
    Calls <- AnyCall
    HookErrors <- AnyError
INVARIANTS
    OutcomeIsTrue
    AtomicAllOrNothing
    NilMeansAll
    StatementsAreLongest
    EventMatchesReturn
PROPERTIES
    CallReturns
CHECK_DEADLOCK FALSE
