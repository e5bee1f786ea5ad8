SPECIFICATION Spec
CONSTANTS
  Objects = {"cenik:1"}
  MaxVersion = 2
  MaxTries = 2
  MaxFails = 0
  Calls = {"hook", "poll"}
  Faults = {"hookLost"}
  Calm = FALSE
INVARIANT StaleIsRemembered
CHECK_DEADLOCK FALSE
