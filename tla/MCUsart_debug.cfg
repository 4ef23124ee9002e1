SPECIFICATION Spec
CONSTANTS
  zero = zero
  x = x
  brk = brk
  NoByte = NoByte
  Bytes <- MCBytes
  Zero = zero
  CtrlC = brk
  BufferSize = 2
  LenMod = 4
  Debugging = TRUE
INVARIANTS
  TypeOK
  QueueSoundUnlessInterrupted
  MenuOwnsReceiver
  ReceiverArmed
PROPERTIES
  ZeroOnlyWhenInterrupted
