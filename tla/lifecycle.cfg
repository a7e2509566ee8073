SPECIFICATION Spec
CONSTANTS
    Contents = {c1}
    NoContent = noContent
    VariableSets = {v1}
    NoVariables = noVariables
    MaxExecutions = 3
    MaxInt = 1
    Images = {TRUE, FALSE}
    MaxEdits = 2
    MaxFaults = 1
    MaxCrashes = 1
    MaxRaces = 1
    MaxPrunes = 1
    MaxDisturbances = 2
INVARIANTS
    TypeOK
    StatusNamesItsRun
PROPERTIES
    RemovalJustified
    NoRedeploy
    SpecEditsKept
    LifecycleKept
CHECK_DEADLOCK FALSE
