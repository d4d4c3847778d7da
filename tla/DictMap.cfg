SPECIFICATION Spec
CONSTANTS
  Plain = {"a", "b", "c", "d"}
  Zeros = {}
  Lists = {"l1"}
  Strings = {"s1"}
  Mutated = {}
  Content = {"empty", "one"}
  BitsHash <- Hashes
  StrHash <- ContentHashes
  Value = {1, 2}
  Missing = Missing
  CP_HT_INIT_CAP = 1
  MaxCount = 7
PROPERTIES
  IsMap
