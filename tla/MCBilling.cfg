CONSTANTS
  Sessions = {r1}
  Subtotals <- OddAndDeductive
  HoldbackRates <- HalfOrAll
  FullPercent = 2
  Percents = {1}
  Cents = {1}
  TaxSettings = {TRUE}
  MaxQuotes = 2
  MaxInvoices = 3
SPECIFICATION Spec
PROPERTIES
  DepositIsSpentOnce
  RowsFollowTheEngine
  FinalSettlesTheContract
