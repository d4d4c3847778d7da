SPECIFICATION FairSpec
CONSTANTS
  o1 = o1
  o2 = o2
  o3 = o3
  x = x
  va = va
  Obj = {o1}
  Ids = {va, x}
  VaArgs = va
  Lib = Lib
  NoId = NoId
  Pending = Pending
  Forms = {"call", "fn", "param", "ret", "scalar_result", "if", "while", "for", "each", "break", "list", "dict", "def", "error"}
  Literals = {"bool", "num"}
  GC_INIT_THRESHOLD = 1
  GC_GROWTH_FACTOR = 2
  GC_MIN_GROWTH = 1
  CP_DA_INIT_CAP = 16
  MaxDepth = 4
  MaxStack = 3
  MaxItems = 2
  MaxArgs = 1
PROPERTIES
  ErrorStops
  JumpEnds
