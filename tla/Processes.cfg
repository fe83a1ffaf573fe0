CONSTANTS
  p1 = p1
  p2 = p2
  p3 = p3
  Pids <- ThreePids
  Slots = {1, 2, 3}
  HandleCapacity = 2
  QueueCapacity = 2
  GenerationMax = 2
  TableCapacity = 6
  ProcHandleCapacity = 2
  ProcHandleGenMax = 4
  IncarnationMax = 2
  RequestMax = 3
  NoCap = NoCap
  NoHandle = NoHandle
  NoProc = NoProc
  NoKey = NoKey
  NoRequest = NoRequest
SPECIFICATION MCSpec
SYMMETRY PidSymmetry
CHECK_DEADLOCK FALSE
INVARIANTS TypeOK SendAuthority BlockedIsWoken FairQueue RegistryAgrees HandleControlsOwnChild EndedLeavesNothing
