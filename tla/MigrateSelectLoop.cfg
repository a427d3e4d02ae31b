SPECIFICATION Spec
CONSTANTS
    N = 3
    MaxSum = 2
INVARIANTS
    LoopsAgree
    RevertThenApply
CHECK_DEADLOCK FALSE
