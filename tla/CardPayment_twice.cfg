SPECIFICATION Spec
CONSTANTS
  w1 = w1
  w2 = w2
  s1 = s1
  s2 = s2
  NoSession = NoSession
  NoEvent = NoEvent
  Workers = {w1, w2}
  Sessions = {s1, s2}
  Delayed = {}
  Calls = {"sync", "cancel", "expire", "retry"}
  Faults = {}
INVARIANT ChargedOnce
CHECK_DEADLOCK FALSE
