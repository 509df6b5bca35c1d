SPECIFICATION Spec
CONSTANTS
  t1 = t1
  t2 = t2
  k1 = k1
  k2 = k2
  None = None
  Threads = {t1, t2}
  Keys = {k1, k2}
  Estimates = {1, 2}
  Actuals = {0, 2}
  Capacity = 2
  Unit = 2
  RefillPerMs = 3
  ReservationTimeout = 2
  MaxKeys = 1
  MaxActive = 2
  ScanLimit = 1
  MaxClock = 2
  MaxId = 3
INVARIANTS
  GrantedWithinRate
  Bookkeeping
  DenialDelaySuffices
SYMMETRY Symmetry
