SPECIFICATION FairSpec
CONSTANTS
    outer = outer
    middle = middle
    inner = inner
    other = other
    dummy = dummy
    timer = timer
    here = here
    there = there
    NoTask = NoTask
    Tasks <- MCTasks
    Loops <- MCLoops
    Programs <- MCGatherCross
INVARIANT ResumedOnce
CHECK_DEADLOCK FALSE
