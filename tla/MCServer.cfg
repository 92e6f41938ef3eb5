CONSTANTS
  Stores = {a, b}
  Standard = {a}
  Policies = {"write-through", "write-back"}
  Wanted = {"write-through", "unknown"}
  Main = main
  r1 = r1
  r2 = r2
  r3 = r3
  Requests = {r1, r2, r3}
  Kinds <- MCKinds
SPECIFICATION FairSpec
CHECK_DEADLOCK FALSE
INVARIANTS TypeOK WritesSurvive PanicsOnlyIfForced LocksGivenBack
PROPERTIES RequestsEnd ShutdownEnds
