SPECIFICATION Spec
CONSTANTS
  Inputs <- Elements
  N = 2
  M = 4
INVARIANTS
  InBounds
