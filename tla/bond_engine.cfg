CONSTANTS
  Bonds <- SomeBonds
  Nominal = 100
  Unit = 400
  Periods = 3
  Boundary <- Calendar
  OtsMonths = 3
  Inflation <- Deflation
  Missing = Missing
  Dates <- Around
SPECIFICATION Spec
INVARIANTS TypeOK NeverBelowNominal WaitingPays GapsAreReported
