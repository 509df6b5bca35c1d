SPECIFICATION Spec
CONSTANTS
  t1 = t1
  t2 = t2
  k1 = k1
  k2 = k2
  None = None
  Threads = {t1, t2}
  Keys = {k1}
  Estimates = {1}
  Actuals = {}
  Capacity = 1
  Unit = 1
  RefillPerMs = 1
  ReservationTimeout = 2
  MaxKeys = 1
  MaxActive = 2
  ScanLimit = 1
  MaxClock = 2
  MaxId = 4
INVARIANT ForgettingIsNeutral
