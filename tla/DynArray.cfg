SPECIFICATION Spec
CONSTANTS
  Value = {0, 1}
  Marked = 1
  Junk = Junk
  N = 2
  CP_DA_INIT_CAP = 2
  CP_ARENA_INIT_CAP = 2
  MaxLen = 3
  MaxBlocks = 2
INVARIANTS
  Apart
  Inside
PROPERTIES
  Keeps
