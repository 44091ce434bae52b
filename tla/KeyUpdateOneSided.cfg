SPECIFICATION Spec
CONSTANTS
    Client = Client
    Server = Server
    MaxSendingEpoch = 5
    MessageSequences = 2
    RecordLimit = 9
    MaxSpurious = 0
    MaxLosses = 0
    MaxWriteErrors = 0
    MaxDatagrams = 0
    MaxCalls = 2
CONSTRAINT NoneRequested
INVARIANTS
    UpdatesAreReliable
CHECK_DEADLOCK FALSE
