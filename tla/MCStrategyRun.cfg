SPECIFICATION Spec
CONSTANTS
  Prices = {1, 2, 3}
  MaxPriceSum = 100
  MaxQuantity = 3
  MaxFeed = 3
  MaxLevel = 2
  MaxScript = 2
  MaxTimers = 1
  NoLimit = NoLimit
  Divide <- MCDivide
  TimerTimes = {1}
  Feeds <- MCFeeds
  Cases <- MCCases
INVARIANTS
  StrategyTypeOK
  DepthShowsLastReports
  ScriptFollowed
  SignalsMatchDepth
