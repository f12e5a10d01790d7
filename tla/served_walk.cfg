CONSTANTS
  yfinance = yfinance
  fmp = fmp
  Workers = {w1, w2}
  MaxInflight = 1
  Routes = {"symbol"}
  Symbols = {s1}
  Funds = {}
  NegativeTTL = 1
  DataTTL = 2
  NavTTL = 3
  Nothing = Nothing
  KindOf <- PriceRoute
  Payers = {}
  London = {s1}
  PenceLines = {s1}
  Providers = {yfinance, fmp}
  Order <- TwoProviders
  DividendMax = fmp
  YFinance = yfinance
  BlockTTL = 1
SPECIFICATION ServedSpec
PROPERTIES GatewayIsFair LiveSymbolHeals PenceHeal BlocksHeal
