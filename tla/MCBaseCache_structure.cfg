CONSTANTS
  Keys = {k1, k2, k3, k4, k5, k6, k7}
  Values = {1}
  SizeOf <- MCSizeOf
  NoValue = NoValue
  TTLs = {0}
  Capacity = 3
  MaxTime = 0
  Policies = {"lru", "lfu", "arc"}
  Nil = Nil
  MaxFreq = 4
SPECIFICATION BaseSpec
SYMMETRY KeySymmetry
INVARIANTS TypeOK ListsMatchMap ListBounds ListIsRecencyOrder FrequenciesExact
PROPERTY EvictsTheRightOne
