CONSTANTS
  k1 = k1
  k2 = k2
  k3 = k3
  k4 = k4
  k5 = k5
  c1 = c1
  c2 = c2
  Keys = {k1, k2, k3, k4, k5}
  NumShards = 2
  shardFor <- MCshardFor
  Total = 4
  SnapLimit = 1
  Visitors = {c1, c2}
  Calls <- MCCalls
SPECIFICATION Spec
SYMMETRY KeySymmetry
INVARIANTS TypeOK WithinCapacity VisitsExact
