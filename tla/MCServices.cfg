SPECIFICATION ServicesSpec
CONSTANTS
  Week = 7
  Bases = {0, 5}
  Counts = {0, 1, 3}
  Weekends <- MCWeekends
  Closed <- MCClosed
  MaxGuard = 12
  Carts <- MCCarts
  Promos <- MCPromos
  Shops <- SomeShops
  Taxes <- MCTaxes
  Objects = {"cenik:1"}
  MaxVersion = 2
  FlexiTries = 2
  MaxFails = 1
  FlexiCalls = {"hook", "poll"}
  FlexiFaults = {"crash"}
  Calm = FALSE
  CartIds = {"c1", "c2", "c3"}
  Orders = {"o1", "o2"}
  Lines = {"l1"}
  Syncs = 2
  Strategies = {"keep_guest", "keep_user", "merge", "clear"}
  CartFaults = {"closeFails"}
  Workers = {"w1", "w2", "w3"}
  Protocols = {"flexi", "plant"}
  LockFaults = {"overrun", "crash"}
  Images = {"i1", "i2"}
  MaxImages = 1
  Submits = {"s1", "s2"}
  MediaTries = 2
  MaxFaults = 2
  MediaFaults = {"redis", "storage", "queue", "crash"}
INVARIANT TypesHold
INVARIANT LandsOnOpenDay
INVARIANT StaleIsRemembered
INVARIANT ClosedForItsOrder
INVARIANT LiveHoldersExclude
INVARIANT AttachedIsKept
INVARIANT NeverTooMany
INVARIANT DiscountIsTrue
INVARIANT DocumentIsTheOrder
PROPERTY ChangesArrive
PROPERTY OrderedCartEnds
PROPERTY OrphansGo
CHECK_DEADLOCK FALSE
