CONSTANTS
  Sessions = {r1, r2}
  Subtotals = {3}
  HoldbackRates <- NoneOrHalf
  FullPercent = 2
  Percents = {1}
  Cents <- ChargeOrCredit
  TaxSettings = {FALSE, TRUE}
  MaxQuotes = 1
  MaxInvoices = 2
SPECIFICATION Spec
SYMMETRY RequestSymmetry
INVARIANTS
  TypeOK
  LedgerAgreesWithInvoices
  EveryDollarIsTaxedOnce
