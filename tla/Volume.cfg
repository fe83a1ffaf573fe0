\* Devices that may fail reads at mount and devices that do not.
CONSTANTS
  PayloadSectors = 3
  Zero = Zero
  Data = Data
  Garbage = Garbage
  Pieces <- MCPieces
  Seed <- MCSeed
  CacheEntries = 2
  GenerationMax = 3
  MountFaults = {TRUE, FALSE}
  NotCached = NotCached
  Nothing = Nothing
  NoSlot = NoSlot
SPECIFICATION StorageSpec
INVARIANTS ActiveSlotIntact CacheCoherent CreatesOnlyFresh
PROPERTIES ImplementsStore
