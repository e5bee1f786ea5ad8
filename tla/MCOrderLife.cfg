SPECIFICATION LifeSpec
CONSTANTS
  r1 = r1
  r2 = r2
  r3 = r3
  r4 = r4
  k1 = k1
  NoKey = NoKey
  NoRecord = NoRecord
  NoAnswer = NoAnswer
  Refused = Refused
  Requests <- MCRequests
  Keys = {k1}
  KeyOf <- MCKeyOf
  FpOf <- MCFpOf
  Faults = {"lockCallFails", "writeFails", "rejects", "erpRejects", "crash"}
  LateRequests <- MCLateRequests
  CardWorkers = {"w1", "w2"}
  Sessions = {"s1"}
  NoSession = NoSession
  NoEvent = NoEvent
  Delayed = {"s1"}
  CardCalls = {"sync"}
  CardFaults = {"crash", "pspFails", "ackLost"}
  Orders = {"o1", "o2"}
  Variants = {"a", "b"}
  Lines <- MCLines
  Quantity <- MCQuantity
  Initial <- MCInitial
  ErpHas <- MCErpHas
  Externals = {TRUE, FALSE}
  Callers <- MCCallers
  ShelfFaults = {"crash", "keep", "transport"}
  MailEvents = {"pay"}
  MailRequests = {}
  MailTries = 2
  MailFaultKinds = {"refused", "crash", "lost"}
  MaxMailFaults = 2
  Invoices = {"i1"}
  MonoWorkers = {"m1"}
  MaxDate = 4
  MonoCalls = {"sync", "cancel"}
  MonoFaults = {"again", "removeFails"}
  Checkouts = {"c1", "c2"}
  Friends = {"f1", "f2"}
  Credits <- MCCredits
  For <- MCFor
  Wish = 3
  Reward = 2
  Opening = 5
  Overlap = FALSE
  PointsFaults = {"short", "refused"}
INVARIANT TypesHold
INVARIANT OneOrderPerKey
INVARIANT AnswersAreRight
INVARIANT ExportedOnce
INVARIANT StockAddsUp
INVARIANT CheckoutsDoNotDeadlock
INVARIANT PaidStaysPaid
INVARIANT EachMailOnce
INVARIANT BalanceIsTheSum
PROPERTY KeepsPromise
PROPERTY AllAreAnswered
PROPERTY ExportSettles
PROPERTY CancelReachesErp
PROPERTY ChargeIsAnswered
PROPERTY PaidIsConfirmed
CHECK_DEADLOCK FALSE
