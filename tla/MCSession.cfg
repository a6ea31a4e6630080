SPECIFICATION FairSpec
CONSTANTS
    Scenarios <- MCScenarios
    MaxInput = 3
INVARIANTS
    TypeOK
    ProcessorKeepsItsInput
    RemovedOnce
    NothingLeftUnoffered
PROPERTY CloseCompletes
CHECK_DEADLOCK FALSE
