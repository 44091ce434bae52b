CONSTANTS
    Addresses <- MCAddresses
    SessionCount = 2
    CIDs <- MCCIDs
    QueueSize = 1
    Worlds <- MCQuietWorlds
    MaxConnectionIDs = 3
    MaxBuffered = 1
    MaxPending = 8
    Span = 13
SPECIFICATION Spec
INVARIANT AppDataReleased
CHECK_DEADLOCK FALSE
