CONSTANTS
  yfinance = yfinance
  dividendmax = dividendmax
  Threads = {t1}
  Tickers = {payer}
  Payers = {payer}
  London = {payer}
  PenceLines = {payer}
  Providers = {yfinance, dividendmax}
  Order <- ShortOrder
  DividendMax = dividendmax
  YFinance = yfinance
  BlockTTL = 1
  Idle = Idle
SPECIFICATION Spec
PROPERTY PayerIsKept
