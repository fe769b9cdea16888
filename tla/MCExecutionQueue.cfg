SPECIFICATION ExecSpec
CONSTANTS
  Prices = {1, 2}
  MaxQty = 2
  MaxOrders = 3
  MaxTimestamp = 0
  MaxPriceSum = 100
  QueueFractionPpm = 1000000
  MaxFills = 4
  MaxFee = 100
  FeePpm = 100000
  MCSides = {"buy"}
  MCTypes = {"limit"}
  MCQtys = {2}
  MaxIntents = 1
  Latencies = {0}
  Times = {0}
  IntentLists <- MCIntentLists
  BookStates <- MCQueueBooks
VIEW QueueView
PROPERTIES
  QueueRespected
  TimePriority
