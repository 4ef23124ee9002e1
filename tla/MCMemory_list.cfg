SPECIFICATION Spec
CONSTANTS
  a = a
  b = b
  long = long
  NoName = NoName
  Names <- MCNames
  NameLen <- MCNameLen
  MaxNameLen = 2
  EntrySize = 4
  Ceiling = 32
  UserStart = 0
  Floor = 8
  Pointers = {0, 1}
  Sizes = {3, 4, 5}
  SectionSizes = {0, 2}
INVARIANTS
  TypeOK
  Tiled
  UniqueNames
  HeldAlone
  
  LabelsFoundByAddress
