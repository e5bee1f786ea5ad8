SPECIFICATION FairSpec
CONSTANTS
  w1 = w1
  w2 = w2
  s1 = s1
  s2 = s2
  NoSession = NoSession
  NoEvent = NoEvent
  Workers = {w1, w2}
  Sessions = {s1, s2}
  Delayed = {}
  Calls = {"cancel", "expire", "retry"}
  Faults = {}
PROPERTY ChargesSettle
PROPERTY CancelReleasesStock
PROPERTY PaidIsExported
PROPERTY AwaitingEnds
CHECK_DEADLOCK FALSE
