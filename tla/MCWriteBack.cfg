CONSTANTS
  Keys = {k1, k2}
  Values = {v1}
  NoValue = NoValue
  TTLs = {1}
  Capacity = 1
  Clients = {c1}
  Tickers = {t1}
  Ops = {"Set", "Get", "Delete", "Flush", "Purge"}
  StoreFails = TRUE
  MaxTime = 2
  MaxDrift = 1
SPECIFICATION Spec
SYMMETRY KeySymmetry
VIEW WithoutHistory
INVARIANTS TypeOK CountNeverAbove DeadlinesKept
CONSTRAINT NoLateFlush
