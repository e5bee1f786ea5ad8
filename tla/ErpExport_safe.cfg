SPECIFICATION Spec
CONSTANTS
  Methods = {"card", "cod"}
  Immediates = {FALSE}
  Offlines = {FALSE, TRUE}
  Calls = {"pay", "cancel", "syncErp", "restart", "forget"}
  Overlap = TRUE
  Faults = {"transport", "lost", "business", "permanent", "refused", "noNative"}
  MaxFaults = 2
  MaxTries = 2
INVARIANT TypeOK
INVARIANT SyncedHasDocument
INVARIANT CancelSyncedIsStorno
PROPERTY QueueSendsPaid
CHECK_DEADLOCK FALSE
