SPECIFICATION EditingSpec
CONSTANTS
  SectionStart = 1
  Top = 5
  DigitsPerHalfword = 2
  GroupDigits = 2
  RowDigits = 8
INVARIANTS
  EditingTypeOK
  CursorInSession
  OnInstructions
  SectionCoversSession
  LineShowsMemory
  RowIsOneInstruction
PROPERTIES
  OnlyTypedChanges
