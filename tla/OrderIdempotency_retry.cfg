SPECIFICATION Spec
CONSTANTS
  r1 = r1
  r2 = r2
  r3 = r3
  r4 = r4
  k1 = k1
  NoKey = NoKey
  NoRecord = NoRecord
  NoAnswer = NoAnswer
  Refused = Refused
  Requests <- MCRequests
  Keys = {k1}
  KeyOf <- MCKeyOf
  FpOf <- MCFpOf
  Faults = {"throwsLate"}
INVARIANT OneOrderPerKey
CHECK_DEADLOCK FALSE
