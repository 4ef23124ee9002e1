SPECIFICATION TypingSpec
CONSTANTS
  Base = 2
  BufferSize = 2
  NoByte = NoByte
  Files <- MCFiles
  HostFaults = {TRUE, FALSE}
CHECK_DEADLOCK FALSE
INVARIANTS
  TypeOK
  Lockstep
  WithinLength
PROPERTIES
  CompleteIsTheFile
  TransferFinishes
