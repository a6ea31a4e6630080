SPECIFICATION FairSpec
CONSTANTS
    Scenarios <- MCPeer
    MaxInput = 3
PROPERTY ConnectSettles
CHECK_DEADLOCK FALSE
