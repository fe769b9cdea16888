SPECIFICATION Spec
CONSTANTS
  e1 = e1
  MaxTime = 2
  MaxSeq = 1
  MaxFeed = 2
  MaxRequests = 2
  MaxScheduled = 3
  Events <- MCEvents
  Feeds <- AnyFeeds
  Handlers <- MCHandlers
INVARIANTS
  TypeOK
  QueueNotInPast
  OrderedFeedNeverBackward
  ExactlyOnce
  NoLookAhead
PROPERTIES
  OneTotalOrder
  RunEnds
