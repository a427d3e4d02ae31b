SPECIFICATION Spec
CONSTANTS
    MaxLinks = 40
    FilesOf <- Rendered
    Versions <- OneAndTwo
    Edits <- AnyEdit
    MaxFaults = 1
    MaxRuns = 2
INVARIANTS
    CommitComplete
    CheckPredicts
    OfflineHonest
    RerunRecovers
PROPERTIES
    HandWrittenSurvives
CHECK_DEADLOCK FALSE
