SPECIFICATION HierarchySpec
CONSTANTS
  A = A
  B = B
  I = I
  J = J
  Object = Object
  None = None
  Type <- MCType
  Signature <- MCSignature
  Result <- MCResult
  Units <- MCUnits
  Linked <- MCLinked
INVARIANTS NoAbstractObject ImplementationStandsForAll ImplementationListed
CHECK_DEADLOCK FALSE
