SPECIFICATION FairSpec
CONSTANTS
    Length <- ServerAuthenticates
    FragmentSizes <- OneSize
    Window = 3
    MaxBuffered = 4
    MaxLosses = 2
    MaxSpurious = 0
    MaxRefusals = 0
PROPERTIES HandshakeCompletes
CHECK_DEADLOCK FALSE
