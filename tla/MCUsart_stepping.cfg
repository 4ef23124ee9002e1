SPECIFICATION Spec
CONSTANTS
  zero = zero
  x = x
  brk = brk
  NoByte = NoByte
  Bytes <- MCBytes
  Zero = zero
  CtrlC = brk
  BufferSize = 2
  LenMod = 4
  Debugging = TRUE
INVARIANT
  QueueConsistent
