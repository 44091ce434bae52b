SPECIFICATION FairSpec
CONSTANTS
    Length <- ServerAuthenticates
    FragmentSizes <- TwoSizes
    Window = 3
    MaxBuffered = 4
    MaxLosses = 1
    MaxSpurious = 1
    MaxRefusals = 0
PROPERTIES HandshakeCompletes
CHECK_DEADLOCK FALSE
