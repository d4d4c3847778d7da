SPECIFICATION Spec
CONSTANTS
  Plain = {"a"}
  Zeros = {"pz", "nz"}
  Lists = {"l1", "l2"}
  Strings = {"s1", "s2"}
  Mutated = {"l1", "l2", "s1", "s2"}
  Content = {"empty", "one"}
  BitsHash <- Hashes
  StrHash <- ContentHashes
  Value = {1}
  Missing = Missing
  CP_HT_INIT_CAP = 1
  MaxCount = 4
INVARIANTS
  TypeOK
  StoredIsFound
PROPERTIES
  CollectKeepsKeys
  CollectRepairs
