SPECIFICATION Spec
CONSTANTS
  t1 = t1
  t2 = t2
  k1 = k1
  k2 = k2
  None = None
  Threads = {t1, t2}
  Keys = {k1, k2}
  Estimates = {0, 1}
  Actuals = {3}
  Budgets <- TwoBudgets
  ReservationTimeout = 2
  MaxKeys = 1
  MaxActive = 2
  ScanLimit = 1
  MaxClock = 3
  MaxId = 3
INVARIANTS
  UsageExact
  Bookkeeping
  NoLockCycle
PROPERTY
  ImplementsPromise
SYMMETRY Symmetry
