SPECIFICATION FairSpec
CONSTANTS
  Base = 2
  BufferSize = 2
  NoByte = NoByte
  Files <- MCOneFile
  HostFaults = {FALSE}
CHECK_DEADLOCK FALSE
PROPERTY
  TransferFinishes
