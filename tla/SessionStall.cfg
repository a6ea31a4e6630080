SPECIFICATION FairSpec
CONSTANTS
    Scenarios <- MCPeer
    MaxInput = 3
INVARIANT DeferredInputIsOffered
CHECK_DEADLOCK FALSE
