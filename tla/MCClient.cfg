SPECIFICATION FairSpec
CONSTANTS
    Responses <- MCResponses
    Names <- MCNames
    SizeMax = 65535
    Exchanges <- MCExchanges
INVARIANTS
    BodyIsPrefix
    WholeMessage
    UsesConnected
    FallsBack
    RequestArrives
PROPERTY SendEnds
CHECK_DEADLOCK FALSE
