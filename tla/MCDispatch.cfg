SPECIFICATION MCSpec
CONSTANTS
  A = A
  B = B
  I = I
  J = J
  Object = Object
  None = None
  Type <- MCDispatchType
  Signature <- MCSignature
  Result <- MCResult
  Units <- MCDispatchUnits
  Linked <- MCDispatchLinked
  Fields <- MCFields
  Static <- MCStatic
  NoParameters <- MCNoParameters
  Initialisers <- MCInitialisers
  Value = Value
  ArraysClass <- MCArraysClass
  Limit = 32
  Sizes <- MCSizes
  Indices <- MCIndices
  MaxObjects = 1
  MaxMethods = 4
INVARIANTS SlotsApart ColouringSucceeds DVHoldsImplementation FieldOffsetsAgree
  ObjectsDispatch ConstructedInOrder FieldsAsJava ArraysAsJava
CHECK_DEADLOCK FALSE
