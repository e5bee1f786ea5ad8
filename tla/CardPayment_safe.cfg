SPECIFICATION Spec
CONSTANTS
  w1 = w1
  w2 = w2
  s1 = s1
  s2 = s2
  NoSession = NoSession
  NoEvent = NoEvent
  Workers = {w1, w2}
  Sessions = {s1, s2}
  Delayed = {s2}
  Calls = {"sync", "expire", "retry"}
  Faults = {"crash", "pspFails"}
SYMMETRY MCSymmetry
INVARIANT TypeOK
INVARIANT RefundMeansCancelled
INVARIANT RefundRecordIsTrue
INVARIANT FulfilledMeansPaid
PROPERTY KeepsPromise
CHECK_DEADLOCK FALSE
