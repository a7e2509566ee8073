SPECIFICATION FairSpec
CONSTANTS
    Tries = 4
    MaxWrites = 5
    MaxFaults = 1
INVARIANTS
    TypeOK
    RunHasResources
    HandedOver
PROPERTIES
    NothingLeft
CHECK_DEADLOCK FALSE
