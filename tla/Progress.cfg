SPECIFICATION MCSpec
CONSTANTS
    Capacity = 2
    SeqMod = 64
    PeerIsn = 61
    LocalIsn = 62
    PeerBytes = 4
    Cuts <- PairCuts
    MaxSegment = 3
    AppBytes = 0
    Windows = {2}
    Retries = 2
    RetryTicks = 1
    MinRto = 1
    IdleTicks = 1
    Faults <- NoFaults
    NoValue = NoValue
INVARIANTS
    SlicesAreFair
PROPERTIES
    StreamProgresses
    ProcessesProgress
CHECK_DEADLOCK FALSE
