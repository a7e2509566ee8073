SPECIFICATION MCFairSpec
CONSTANTS
    Contents = {c1, c2}
    NoContent = noContent
    VariableSets = {v1}
    NoVariables = noVariables
    MaxExecutions = 3
    MaxInt = 1
    Images = {TRUE}
    MaxEdits = 2
    MaxFaults = 0
    MaxCrashes = 1
    MaxRaces = 0
    MaxPrunes = 0
    MaxDisturbances = 2
PROPERTIES
    Converges
    CompletionNoticed
    RemovalProgresses
CHECK_DEADLOCK FALSE
