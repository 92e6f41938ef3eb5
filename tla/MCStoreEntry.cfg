CONSTANTS
  Keys = {k1, k2}
  Values = {v1, v2}
  NoValue = NoValue
  TTLs = {0, 1}
  Capacity = 1
  Clients = {c1, c2}
  WritePolicies = {"write-through", "write-around"}
  StoreFails = TRUE
  MaxTime = 1
SPECIFICATION Spec
SYMMETRY Symmetry
INVARIANTS TypeOK NeverAheadOfStore ReadsLastWrite
