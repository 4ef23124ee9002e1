SPECIFICATION Spec
CONSTANTS
  Regs <- MCRegs
  Imms <- MCImms
  Offsets <- MCOffsets
  Labels <- MCLabels
  Conds = {0, 1, 14, 15}
  Shifts <- MCShifts
  RegLists <- MCRegLists
  OtherWords <- MCOtherWords
INVARIANTS
  TypeOK
  WidthAsAsked
  ListedAsAsked
  RetypedIsSame
  PrintableUnlessFar
