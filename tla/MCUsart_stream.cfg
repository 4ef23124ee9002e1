SPECIFICATION SteadySpec
CONSTANTS
  zero = zero
  x = x
  brk = brk
  NoByte = NoByte
  Bytes <- MCBytes
  Zero = zero
  CtrlC = brk
  BufferSize = 3
  LenMod = 5
  Debugging = FALSE
INVARIANTS
  QueueConsistent
PROPERTIES
  ImplementsStream
  GetByteReturns
