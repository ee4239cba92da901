CONSTANTS
  u1 = u1
  o1 = o1
  o2 = o2
  None = None
  Users <- OneUser
  Orders <- TwoOrders
  Owner <- OwnedByOne
  LegacyOrders = {}
  Total = 1
  Consumers = {c1}
  Tasks = {t1}
  Modes = {"async", "sync"}
  MaxRetry = 0
  MaxRepublish = 0
  MaxAttempts = 1
  MaxFaults = 1
  CanReturn = FALSE
  CanExpire = FALSE
SPECIFICATION FairPubSpec
INVARIANTS
  ListedIsOnSale
PROPERTIES
  OnlyFaultsLoseMessages
  PhantomSlotsReturn
CHECK_DEADLOCK FALSE
