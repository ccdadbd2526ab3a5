SPECIFICATION Spec
CONSTANTS
  ObjectC = ObjectC
  StringC = StringC
  C = C
  D = D
  E = E
  I = I
  Cloneable = Cloneable
  Class <- MCClass
  Interface <- MCInterface
  Supers <- MCSupers
  Final = {StringC}
  Object = ObjectC
  String = StringC
  ArraySuper = {Cloneable}
  Element <- MCElement
  CurrentClass = D
  PackageOf <- MCPackageOf
  Abstract = {}
  Fields <- MCFields
  Methods <- MCMethods
  MaxDepth = 2
INVARIANTS ValuesFit RejectsOnlyHopeless
CHECK_DEADLOCK FALSE
