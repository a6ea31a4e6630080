SPECIFICATION FairSpec
CONSTANTS
    Scenarios <- MCFlushThenClose
    MaxInput = 3
INVARIANT RemovedOnce
CHECK_DEADLOCK FALSE
