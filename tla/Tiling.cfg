SPECIFICATION Spec
CONSTANTS
  MaxNodes = 6
  MaxArguments = 2
INVARIANTS SameMeaning Canonical GeneratedTempsSetOnce TilesDoTheSame
CHECK_DEADLOCK FALSE
