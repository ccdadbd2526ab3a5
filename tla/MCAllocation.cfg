CONSTANTS
  t1 = t1
  t2 = t2
  t3 = t3
  LoopStart = LoopStart
  Exception = Exception
  Callee = Callee
  EAX = EAX
  EBX = EBX
  ECX = ECX
  EDX = EDX
  ESI = ESI
  EDI = EDI
  ESP = ESP
  EBP = EBP
  None = None
  MaxTiles = 5
  MaxInstructions = 12
  MaxSpilled = 9
  Temps <- MCTemps
  Labels <- MCLabels
  Bodies <- MCBodies
SPECIFICATION MCSpec
INVARIANTS
  TypeOK
  NoSharedLocation
  NoRealUseInside
  SavesAreApart
  ReplacesEveryTemp
  FrameCovers
  OwnSlotInFrame
PROPERTY ImplementsTempMachine
CHECK_DEADLOCK FALSE
