SPECIFICATION Spec
CONSTANTS
  o1 = o1
  o2 = o2
  o3 = o3
  o4 = o4
  Obj = {o1, o2, o3}
  GC_INIT_THRESHOLD = 1
  GC_GROWTH_FACTOR = 2
  GC_MIN_GROWTH = 1
  ClientScalars = {}
  MaxRoots = 2
  MaxItems = 2
SYMMETRY Symmetry
INVARIANTS
  DataSurvives
  NothingForgotten
PROPERTIES
  Promise
  AllocReturns
