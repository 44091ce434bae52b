SPECIFICATION Spec
CONSTANTS
    Length <- ClientAuthenticates
    FragmentSizes <- UnevenSizes
    Window = 2
    MaxBuffered = 1
    MaxLosses = 1
    MaxSpurious = 1
    MaxRefusals = 1
INVARIANTS TypeOK AckedWereReceived WindowRespected ClientCompletesLast
PROPERTIES InboxFailsWhenFull
CHECK_DEADLOCK FALSE
