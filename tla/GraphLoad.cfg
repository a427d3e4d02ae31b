SPECIFICATION Spec
CONSTANTS
    Calls <- AllCalls
    RowsOf <- Writable
    Class <- LastDigit
    Ids <- ThreeIds
    EngineLimit = 5
    PageLimit = 1
    MaxWrites = 1
    MaxFaults = 1
INVARIANTS
    ResultIsJoin
    KeysAgree
    AttachedBottomUp
CHECK_DEADLOCK FALSE
