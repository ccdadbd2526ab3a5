CONSTANTS
  None = None
  Member = "m"
  Local = "x"
  MaxUnits = 3
  MaxOnDemand = 2
  MaxSingle = 2
  UnitPackages <- MCPackages
  TypeNames <- MCTypeNames
  LangTypes <- MCLangTypes
  OnDemandNames <- MCOnDemand
  ImportNames <- MCImports
  SuperNames <- MCSupers
  Names <- MCNames
SPECIFICATION Spec
INVARIANTS
  TypeOK
  ClashFoundInAnyOrder
  NamesMeanWhatIsWritten
  PassesAgree
CHECK_DEADLOCK FALSE
