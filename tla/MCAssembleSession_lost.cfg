SPECIFICATION Spec
CONSTANTS
  SectionStart = 1
  Top = 5
INVARIANT
  PreviousIsFound
