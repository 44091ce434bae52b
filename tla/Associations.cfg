CONSTANTS
    Addresses <- MCAddresses
    SessionCount = 2
    CIDs <- MCCIDs
    QueueSize = 1
    Worlds <- MCWorlds
    MaxConnectionIDs = 3
    MaxBuffered = 1
    MaxPending = 8
    Span = 13
SPECIFICATION Spec
INVARIANTS
    ListenerTypeOK
    RoutesAreLive
    SecretsCleared
    QueuesReleased
    ShutdownClosesAll
    RoutableIDs
    NothingForgotten
    AuthAnswered
    TicketOnce
    PairFailuresExplained
PROPERTIES
    ReplacedByValidated
    PathProved
CHECK_DEADLOCK FALSE
