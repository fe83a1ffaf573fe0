SPECIFICATION MCSpec
CONSTANTS
    N = 2
    W = 4
    POLL_LIMIT = 3
    RECOVERY_POLL_INTERVAL = 2
    MaxFrames = 4
    MaxSends = 0
    Lossy = FALSE
    Rogue = FALSE
INVARIANTS
    BufferHasOneOwner
    FramesInOrder
    ReadinessKept
    RunsOnlyPrepared
PROPERTIES
    SharedMemoryDiscipline
    FrameIsTaken
CHECK_DEADLOCK FALSE
