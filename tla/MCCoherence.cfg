CONSTANTS
  Keys = {k1}
  Nodes = {a, b}
  Watchers = {s}
  Writers = {w1, w2}
  Buffer = 1
SPECIFICATION FairSpec
INVARIANTS TypeOK SendsAreSafe CopiesAreTransient
PROPERTY CopiesConverge
