CONSTANTS
  None = None
  Names <- MCNames
  Parameters <- MCParameters
  MaxItems = 5
  MaxUses = 2
SPECIFICATION Spec
INVARIANTS
  TypeOK
  MeansInnermost
  RejectsOnlyInvalid
CHECK_DEADLOCK FALSE
