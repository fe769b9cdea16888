SPECIFICATION EngineSpec
CONSTANTS
  Prices = {1, 2}
  MaxQty = 2
  MaxOrders = 2
  MaxTimestamp = 3
  MaxPriceSum = 100
  QueueFractionPpm = 500000
  MaxFills = 4
  MaxFee = 100
  FeePpm = 500000
  InitialCash = 3
  MaxAmount = 6
  MaxTime = 2
  MaxFeed = 3
  MaxIntents = 1
  MCTypes = {"limit"}
  Payloads <- MCPayloads
  Feeds <- MCFeeds
  Configs <- MCConfigs
  IntentLists <- MCIntentLists
INVARIANTS
  RunsToTheEnd
