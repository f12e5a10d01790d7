CONSTANTS
  Requests = {r1, r2}
  PageSize = 2
  First = 1
  Listed = 2
  Horizon = 5
  Windows <- SomeWindows
  None = None
SPECIFICATION FairSpec
INVARIANTS TypeOK NothingMissing RepeatsNeedGrowth
PROPERTIES NavLateByGrowth ScrapesEnd
