CONSTANTS
  Keys = {k1}
  Values = {v1, v2}
  NoValue = NoValue
  TTLs = {0}
  Capacity = 1
  Clients = {c1, c2}
  Tickers = {t1}
  Ops = {"Set", "Delete", "Close"}
  StoreFails = TRUE
  MaxTime = 0
  MaxDrift = 1
SPECIFICATION FairSpec
CHECK_DEADLOCK FALSE
INVARIANTS CleanIsStored
PROPERTY EventuallyStored
