SPECIFICATION Spec
CONSTANTS
  ByteBits = 2
  ShortBits = 3
  IntBits = 4
  CharBits = 2
  MaxLetters = 2
  MaxOperands = 2
  MaxStatements = 5
INVARIANTS NeverFallsOff AgreesWithLanguage FoldsAsJava
PROPERTIES LinkedOnce WalkEnds
CHECK_DEADLOCK FALSE
