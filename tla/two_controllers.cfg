SPECIFICATION MCSpec
CONSTANTS
    Contents = {c1}
    NoContent = noContent
    VariableSets = {v1}
    NoVariables = noVariables
    MaxExecutions = 2
    MaxInt = 1
    Images = {TRUE}
    MaxEdits = 1
    MaxFaults = 0
    MaxCrashes = 0
    MaxRaces = 0
    MaxPrunes = 0
    MaxDisturbances = 1
    MaxSyncs = 1
INVARIANTS
    OneRunRecorded
PROPERTIES
    RemovalAgreed
    EditsSurvive
CHECK_DEADLOCK FALSE
