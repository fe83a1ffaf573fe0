SPECIFICATION FairClockSpec
CONSTANTS
    Capacity = 2
    SeqMod = 64
    PeerIsn = 61
    LocalIsn = 62
    PeerBytes = 2
    Cuts = {0, 2}
    MaxSegment = 3
    AppBytes = 0
    Windows = {0, 2}
    Retries = 3
    RetryTicks = 1
    MinRto = 1
    IdleTicks = 1
    Faults = {FALSE}
    NoValue = NoValue
PROPERTIES
    HandshakeIsReleased
CHECK_DEADLOCK FALSE
