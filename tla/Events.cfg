SPECIFICATION FairSpec
CONSTANTS
  Receivers = {r1, r2, r3}
  HistoryCapacity = 2
  LiveCapacity = 2
  MaxSubscribers = 2
  MaxSeq = 5
CHECK_DEADLOCK FALSE
INVARIANTS
  HistoryGapFree
  DeliveryExact
  CloseIsTruthful
PROPERTIES
  ReaderIsServed
