SPECIFICATION Spec
CONSTANTS
  Prices = {1, 3}
  FillQtys = {1, 2}
  FillFees = {0, 1}
  MaxFills = 4
  InitialCash = 5
  MaxAmount = 11
  MaxPriceSum = 100
  MarkBooks <- MCMarkBooks
INVARIANTS
  AcceptedCanBeMarked
