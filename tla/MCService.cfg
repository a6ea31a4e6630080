SPECIFICATION VerifyFairSpec
CONSTANTS
    Discoverers = {"discovery", "second"}
    Lookups = {"lookup"}
    Generators = {"lookup"}
    Tasks = {"discovery", "second", "lookup"}
    Zones <- MCZones
    Text <- MCText
INVARIANTS
    ValidatorTypeOK
    NoStrayCallback
    GathersVerified
    YieldsInOrder
    YieldsAsRecorded
    AllCollected
PROPERTY VerificationEnds
CHECK_DEADLOCK FALSE
