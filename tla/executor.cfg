SPECIFICATION FairSpec
CONSTANTS
    MaxRuns = 1
    BackoffLimit = 2
    Tries = 4
    MaxFaults = 2
    MaxConflicts = 5
    MaxKills = 2
    MaxAnswers = 2
    MaxPrunes = 1
    MaxUnlocks = 1
    MaxDisturbances = 5
INVARIANTS
    TypeOK
    ChangesApproved
    AppliedMeansDone
    DeletedJobReported
PROPERTIES
    JobsEnd
CHECK_DEADLOCK FALSE
