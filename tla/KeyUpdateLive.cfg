SPECIFICATION FairSpec
CONSTANTS
    Client = Client
    Server = Server
    MaxSendingEpoch = 5
    MessageSequences = 2
    RecordLimit = 9
    MaxSpurious = 0
    MaxLosses = 1
    MaxWriteErrors = 0
    MaxDatagrams = 0
    MaxCalls = 2
PROPERTIES
    UpdatesComplete
    DeferredResponsesComplete
CHECK_DEADLOCK FALSE
