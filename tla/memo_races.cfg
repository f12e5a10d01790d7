CONSTANTS
  Threads = {t1, t2}
  Tickers = {k1, k2, k3, k4, k5, k6}
  MaxEntries = 3
  NoTicker = NoTicker
SPECIFICATION Spec
SYMMETRY Interchangeable
INVARIANTS TypeOK SizeBounded
PROPERTIES LoneCallRestores LoneCallDropsOldest
