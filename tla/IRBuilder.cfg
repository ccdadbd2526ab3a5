SPECIFICATION Spec
CONSTANTS
  MaxNodes = 6
  MaxDecisions = 4
INVARIANTS SameAsJava RaisesNoLater JumpsFallThrough
CHECK_DEADLOCK FALSE
