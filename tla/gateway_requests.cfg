CONSTANTS
  Workers = {w1, w2}
  MaxInflight = 1
  Routes = {"ohlcv", "corp_catalogue"}
  Symbols = {s1}
  Funds = {s1}
  NegativeTTL = 1
  DataTTL = 2
  NavTTL = 3
  Nothing = Nothing
SPECIFICATION Spec
SYMMETRY WorkerSymmetry
INVARIANTS TypeOK EntryLifetimes EntriesFitReaders
PROPERTY KeepsPromise
