\* Pages of two items, two moves of a list in a run, two tries per request.
CONSTANTS
  a = a
  b = b
  c = c
  x = x
  y = y
  Unknown = Unknown
  Item <- MCItem
  Walks <- MCWalks
  Feeds <- MCFeeds
  SizesOf <- MCSizesOf
  PageSize = 2
  MaxTries = 2
  MaxMoves = 2
  MaxAttempts = 2
SPECIFICATION Spec
CHECK_DEADLOCK FALSE
INVARIANTS ScrapeTypeOK SteadyItemsAreFetched SnapshotsJoinTheirOwn
PROPERTIES ScrapeEnds
