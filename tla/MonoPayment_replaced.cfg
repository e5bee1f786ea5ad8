SPECIFICATION FairSpec
CONSTANTS
  Invoices = {"i1", "i2"}
  Workers = {"m1"}
  MaxDate = 3
  Calls = {"cancel", "retry"}
  Faults = {}
PROPERTY ChargeIsAnswered
CHECK_DEADLOCK FALSE
