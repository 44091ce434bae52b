SPECIFICATION Spec
CONSTANTS
    Windows = {6, 12}
    SequenceLimit = 12
    RecordLimit = 12
    BitmapBits = 2
    ReplaySize = 2
    AuthFailureLimit = 2
    MaxDamaged = 1
INVARIANTS
    TypeOK
    AtMostOnce
    WindowExact
    NearRecordsOpen
    RequestedBeforeLimit
CHECK_DEADLOCK FALSE
