SPECIFICATION FairSpec
CONSTANTS
  Methods = {"card"}
  Immediates = {FALSE}
  Offlines = {TRUE}
  Calls = {"pay"}
  Overlap = FALSE
  Faults = {}
  MaxFaults = 0
  MaxTries = 3
PROPERTY ExportSettles
CHECK_DEADLOCK FALSE
