SPECIFICATION Spec
CONSTANTS
    owner = owner
    other = other
    own1 = own1
    own2 = own2
    cross1 = cross1
    Owner = owner
    Others <- MCOthers
    Own <- MCOwn
    Cross <- MCCross
    Delays <- MCDelays
    MaxTime = 3
INVARIANT CrossDeferIsNotLost
CHECK_DEADLOCK FALSE
