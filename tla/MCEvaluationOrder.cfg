SPECIFICATION Spec
CONSTANTS
  MaxNodes = 6
  MaxDecisions = 4
INVARIANT CompletesAsJava
CHECK_DEADLOCK FALSE
