SPECIFICATION EngineSpec
CONSTANTS
  Prices = {1, 2}
  MaxQty = 2
  MaxOrders = 2
  MaxTimestamp = 2
  MaxPriceSum = 100
  QueueFractionPpm = 500000
  MaxFills = 4
  MaxFee = 1
  FeePpm = 500000
  InitialCash = 3
  MaxAmount = 6
  MaxTime = 2
  MaxFeed = 3
  MaxIntents = 1
  MCTypes = {"limit", "market"}
  Payloads <- MCPayloads
  Feeds <- MCFeeds
  Configs <- MCConfigs
  IntentLists <- MCIntentLists
INVARIANTS
  ArrivalsMatchOrders
  OrdersResolved
  AbortExplained
  PortfolioFollowsOrders
  QueueEarned
PROPERTIES
  TradeVolumeShared
  ArrivalSeesBookAsOf
