SPECIFICATION Spec
CONSTANTS
  o1 = o1
  o2 = o2
  o3 = o3
  x = x
  va = va
  Obj = {o1, o2}
  Ids = {va, x}
  VaArgs = va
  Lib = Lib
  NoId = NoId
  Pending = Pending
  Forms <- All
  Literals = {"bool", "none"}
  GC_INIT_THRESHOLD = 1
  GC_GROWTH_FACTOR = 2
  GC_MIN_GROWTH = 1
  CP_DA_INIT_CAP = 16
  MaxDepth = 3
  MaxStack = 3
  MaxItems = 1
  MaxArgs = 2
SYMMETRY Symmetry
INVARIANTS
  TypeOK
  NoEvalWhileUnwinding
  HeapBounded
  StackDiscipline
PROPERTIES
  EnclosingScopeUntouched
  Protocol
  TempsStay
