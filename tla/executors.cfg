SPECIFICATION FairSpec
CONSTANTS
    MaxRuns = 2
    BackoffLimit = 1
    Tries = 1
    MaxFaults = 0
    MaxConflicts = 0
    MaxKills = 1
    MaxAnswers = 1
    MaxPrunes = 1
    MaxUnlocks = 1
    MaxDisturbances = 1
PROPERTIES
    RunsKeepPromise
    JobsEnd
CHECK_DEADLOCK FALSE
