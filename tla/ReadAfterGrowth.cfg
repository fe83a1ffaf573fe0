SPECIFICATION MCSpec
CONSTANTS
  NoValue = NoValue
  Fold <- Spellings
  UserName = "USER"
  PathMax = 3
  MaxNodes = 6
  MaxFileBytes = 2
  ProcSlots = {1, 2}
  FileSlots = {1, 2}
  MaxIncarnation = 1
  RequestMax = 4
  Paths <- DataPaths
  Names = {}
  RightSets <- DataRights
  Payloads <- OneByte
  Capacities = {2}
  Cursors = {0}
  MountModes = {FALSE}
  BootTree <- Boot
  Seeded <- OneFile
  MemoryPath <- Memory
  Reports <- Samples
  StatusPath <- Status
PROPERTIES ReadAdvances
CHECK_DEADLOCK FALSE
