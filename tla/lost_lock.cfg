SPECIFICATION FairSpec
CONSTANTS
    Contents = {c1, c2}
    NoContent = noContent
    VariableSets = {v1}
    NoVariables = noVariables
    MaxExecutions = 3
    MaxInt = 1
    Images = {TRUE}
    MaxEdits = 1
    MaxFaults = 1
    MaxCrashes = 0
    MaxRaces = 0
    MaxPrunes = 0
    MaxDisturbances = 2
PROPERTIES
    Converges
CHECK_DEADLOCK FALSE
