SPECIFICATION Spec
CONSTANTS
  Prices = {0, 2}
  FillQtys = {1, 3}
  FillFees = {0, 2}
  MaxFills = 4
  InitialCash = 2
  MaxAmount = 4
  MaxPriceSum = 100
  MarkBooks <- MCMarkBooks
VIEW PortfolioView
INVARIANTS
  PortfolioTypeOK
  AccountingIdentity
  FifoToTheUnit
