SPECIFICATION Spec
CONSTANTS
  Texts <- Sources
  N = 3
  M = 4
INVARIANTS
  TypeOK
  InBuffer
  NothingLost
  LongestMatch
  Located
PROPERTIES
  Answers
