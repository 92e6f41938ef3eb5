CONSTANTS
  Keys = {k1, k2, k3}
  Values = {1, 2}
  SizeOf <- MCSizeOf
  NoValue = NoValue
  TTLs = {0, 1}
  Capacity = 2
  MaxTime = 2
  Policies = {"lru", "lfu", "arc"}
  Nil = Nil
  MaxFreq = 2
SPECIFICATION BaseSpec
SYMMETRY KeySymmetry
INVARIANTS BytesStoredExact
PROPERTY ImplementsPromise
