SPECIFICATION Spec
CONSTANTS
  Inputs <- Sources
  N = 4
  M = 7
INVARIANTS
  TypeOK
  ByPrecedence
  Accepted
  NothingLost
  FaultsOnEmpty
PROPERTIES
  Answers
