SPECIFICATION FairSpec
CONSTANTS
    owner = owner
    other = other
    own1 = own1
    own2 = own2
    cross1 = cross1
    Owner = owner
    Others <- MCOthers
    Own <- MCOwn
    Cross <- MCCross
    Delays <- MCDelays
    MaxTime = 3
INVARIANTS
    TypeOK
    NoOversleep
    ShutdownNotLost
    BatchFirst
PROPERTIES
    ImplementsDeferral
    OwnDeferredRuns
    ShutdownStops
CHECK_DEADLOCK FALSE
