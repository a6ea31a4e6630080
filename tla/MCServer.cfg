SPECIFICATION HttpsFair
CONSTANTS
    MaxRequests = 3
    MaxNaps = 1
    Sites <- MCSites
    MaxConnections = 2
    Domains <- MCDomains
    Unreadable = {"bad"}
INVARIANTS
    HttpsTypeOK
    NothingDropped
    AnsweredOnce
    PassesMiddleware
    RightHandler
PROPERTIES
    RequestEnds
    ServedAsConfigured
    AskEnds
CHECK_DEADLOCK FALSE
