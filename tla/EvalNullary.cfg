SPECIFICATION Spec
CONSTANTS
  o1 = o1
  o2 = o2
  o3 = o3
  x = x
  va = va
  Obj = {o1, o2, o3}
  Ids = {va, x}
  VaArgs = va
  Lib = Lib
  NoId = NoId
  Pending = Pending
  Forms = {"str", "list", "bin", "concat", "call", "fn", "ret", "def", "var", "each", "while", "error"}
  Literals = {"bool"}
  GC_INIT_THRESHOLD = 1
  GC_GROWTH_FACTOR = 2
  GC_MIN_GROWTH = 1
  CP_DA_INIT_CAP = 1
  MaxDepth = 4
  MaxStack = 4
  MaxItems = 1
  MaxArgs = 1
SYMMETRY Symmetry
INVARIANTS
  NoWildAccess
PROPERTIES
  LeavesNoName
