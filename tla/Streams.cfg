SPECIFICATION MCSpec
CONSTANTS
    Capacity = 2
    SeqMod = 64
    PeerIsn = 61
    LocalIsn = 62
    PeerBytes = 3
    Cuts <- AllCuts
    MaxSegment = 3
    AppBytes = 0
    Windows = {2}
    Retries = 2
    RetryTicks = 1
    MinRto = 1
    IdleTicks = 1
    Faults <- NoFaults
    NoValue = NoValue
INVARIANTS
    AcknowledgedIsHeld
    SentIsAcknowledged
PROPERTIES
    SlotRefined
    RetransmissionNotPostponed
CHECK_DEADLOCK FALSE
