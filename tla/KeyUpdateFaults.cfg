SPECIFICATION Spec
CONSTANTS
    Client = Client
    Server = Server
    MaxSendingEpoch = 5
    MessageSequences = 1
    RecordLimit = 3
    MaxSpurious = 1
    MaxLosses = 1
    MaxWriteErrors = 1
    MaxDatagrams = 1
    MaxCalls = 2
SYMMETRY PeerSymmetry
INVARIANTS
    TypeOK
    NumbersUnique
    FailuresExplained
CHECK_DEADLOCK FALSE
