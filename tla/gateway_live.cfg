CONSTANTS
  Workers = {w1, w2}
  MaxInflight = 1
  Routes = {"fund_history", "fund_search"}
  Symbols = {s1}
  Funds = {}
  NegativeTTL = 2
  DataTTL = 3
  NavTTL = 4
  Nothing = Nothing
SPECIFICATION FairSpec
INVARIANT GateConserved
PROPERTIES BurstFinishes RecoveryHeals OutageDrains
