SPECIFICATION Spec
CONSTANTS
  Alphabet <- MCAlphabet
  Needles <- MCNeedles
  MaxLength = 6
INVARIANTS SearchExact FormsExact FilesExact
CHECK_DEADLOCK FALSE
