CONSTANTS
  Keys = {k1, k2}
  Values = {v1}
  NoValue = NoValue
  TTLs = {1}
  Capacity = 1
  Clients = {c1}
  Tickers = {t1}
  Ops = {"Set", "Get", "Delete", "Purge", "Close"}
  StoreFails = FALSE
  MaxTime = 1
  MaxLate = 1
  MaxDrift = 1000
  WritePolicies = {"write-back", "write-through", "write-around"}
SPECIFICATION PSpec
SYMMETRY Symmetry
VIEW WithoutCount
CHECK_DEADLOCK FALSE
INVARIANTS UndisturbedReads ClosedDurably
