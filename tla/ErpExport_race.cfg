SPECIFICATION FairSpec
CONSTANTS
  Methods = {"cod"}
  Immediates = {FALSE}
  Offlines = {TRUE}
  Calls = {"cancel"}
  Overlap = TRUE
  Faults = {}
  MaxFaults = 0
  MaxTries = 3
PROPERTY CancelReachesErp
CHECK_DEADLOCK FALSE
