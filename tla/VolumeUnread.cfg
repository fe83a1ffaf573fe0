\* The newest slot cannot be read at one mount.
CONSTANTS
  PayloadSectors = 3
  Zero = Zero
  Data = Data
  Garbage = Garbage
  Pieces <- MCPieces
  Seed <- MCSeed
  CacheEntries = 2
  GenerationMax = 3
  MountFaults = {TRUE}
  NotCached = NotCached
  Nothing = Nothing
  NoSlot = NoSlot
SPECIFICATION StorageSpec
PROPERTIES MountFindsCommitted
