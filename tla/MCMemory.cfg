SPECIFICATION Spec
CONSTANTS
  MaxOrder = 3
  Maps <- SmallMaps
  MaxRegions = 4
  MaxUsable = 3
  HhdmMax = 9
  U64Max = 30
  DescsPerFrame = 4
  MaxTables = 1
  UntypedOrder = 1
  HeapOrder = 0
  Word = 4
  PageSize = 16
  ObjSizes = {0, 3, 5}
  Aligns = {1, 8}
INVARIANTS ListsSound OnlyUsable ObjectsApart
PROPERTIES ImplementsPool
