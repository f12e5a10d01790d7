CONSTANTS
  yfinance = yfinance
  dividendmax = dividendmax
  Threads = {t1, t2}
  Tickers = {payer, other}
  Payers = {payer}
  London = {payer, other}
  PenceLines = {payer}
  Providers = {yfinance, dividendmax}
  Order <- ShortOrder
  DividendMax = dividendmax
  YFinance = yfinance
  BlockTTL = 1
  Idle = Idle
SPECIFICATION Spec
SYMMETRY ThreadSymmetry
INVARIANTS TypeOK PayersPay NeverShrunk
PROPERTY VerdictNeedsAnswer
