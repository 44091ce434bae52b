SPECIFICATION Spec
CONSTANTS
    Client = Client
    Server = Server
    MaxSendingEpoch = 6
    MessageSequences = 3
    RecordLimit = 9
    MaxSpurious = 0
    MaxLosses = 1
    MaxWriteErrors = 0
    MaxDatagrams = 0
    MaxCalls = 3
INVARIANTS
    KeysHeld
    AckGated
    RetainedEpochsBounded
PROPERTIES
    RefinesRatchet
CHECK_DEADLOCK FALSE
