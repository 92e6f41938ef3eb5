CONSTANTS
  Keys = {k1, k2}
  Values = {v1}
  NoValue = NoValue
  TTLs = {0}
  Capacity = 1
  Clients = {c1}
  Tickers = {t1}
  Ops = {"Set"}
  StoreFails = FALSE
  MaxTime = 0
  MaxDrift = 1
SPECIFICATION Spec
INVARIANTS ReadsLatest
