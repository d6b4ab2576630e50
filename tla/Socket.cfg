SPECIFICATION FairSocketSpec
CONSTANTS
  Receivers = {c1}
  HistoryCapacity = 2
  LiveCapacity = 1
  MaxSubscribers = 1
  MaxSeq = 3
CHECK_DEADLOCK FALSE
INVARIANTS
  RevokedAfterOneFrame
  SubscriptionIsOwned
PROPERTIES
  ImplementsStreamContract
  RevokedConnectionEnds
