CONSTANTS
  Keys = {k1, k2}
  TTLs = {1, 3}
  Clients = {c1, c2}
  Hour = 4
  MaxSlip = 1
SPECIFICATION FairSpec
INVARIANTS TypeOK NoLostWakeup
PROPERTY DueExpires
