SPECIFICATION MCSystemSpec
CONSTANTS
    Contents = {c1}
    NoContent = noContent
    VariableSets = {v1}
    NoVariables = noVariables
    MaxExecutions = 2
    MaxInt = 1
    Images = {TRUE}
    AutoConfirms = {TRUE, FALSE}
    MaxEdits = 2
    MaxFaults = 1
    MaxCrashes = 1
    MaxRaces = 0
    MaxPrunes = 0
    MaxDisturbances = 2
PROPERTIES
    RemovalDestroys
CHECK_DEADLOCK FALSE
