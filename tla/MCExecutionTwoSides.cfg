SPECIFICATION ExecSpec
CONSTANTS
  Prices = {1, 2}
  MaxQty = 3
  MaxOrders = 2
  MaxTimestamp = 1
  MaxPriceSum = 100
  QueueFractionPpm = 500000
  MaxFills = 2
  MaxFee = 1
  FeePpm = 500000
  MCSides = {"buy", "sell"}
  MCTypes = {"market", "limit"}
  MCQtys = {1, 3}
  MaxIntents = 1
  Latencies = {0, 2}
  Times = {0}
  IntentLists <- MCIntentLists
  BookStates <- MCBooks
VIEW CallsView
INVARIANTS
  ExecTypeOK
  StatusMatchesQuantity
  FillsAddUp
  FillsWithinLimit
PROPERTIES
  RegistryMatchesStatus
  OrdersFollowLifecycle
