SPECIFICATION MCSpec
CONSTANTS
  NoValue = NoValue
  WordValues = 65536
  U32 = 32767
  U16 = 16383
  U8 = 255
  Page = 256
  UserBase = 1024
  UserEnd = 4096
  MaxCopy = 256
  Code = 1024
  Data = 1536
  StackTop = 2304
  UserPages <- Mapped
  Struct = 16
  Inputs <- Registers
INVARIANTS
  MemoryIsOwned
  BootMapIsSealed
  HandoffIsRetained
  ImagesLoadExactly
  CallsAreServed
  PromptMirrorsEditor
  ClientsAreAnswered
  AddressesAreVerified
  ShellIsFaithful
CHECK_DEADLOCK FALSE
