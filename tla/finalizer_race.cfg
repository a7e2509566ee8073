SPECIFICATION Spec
CONSTANTS
    Contents = {c1}
    NoContent = noContent
    VariableSets = {v1}
    NoVariables = noVariables
    MaxExecutions = 2
    MaxInt = 1
    Images = {TRUE}
    MaxEdits = 0
    MaxFaults = 0
    MaxCrashes = 0
    MaxRaces = 1
    MaxPrunes = 0
    MaxDisturbances = 2
INVARIANTS
    OneExecutionPerHash
CHECK_DEADLOCK FALSE
