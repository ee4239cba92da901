CONSTANTS
  u1 = u1
  u2 = u2
  o1 = o1
  o2 = o2
  None = None
  Users <- OneUser
  Orders <- OneOrder
  Owner <- OwnedByOne
  LegacyOrders = {}
  Total = 1
  Consumers = {c1}
  Tasks = {t1}
  Modes = {"async", "sync"}
  MaxRetry = 1
  MaxRepublish = 1
  MaxAttempts = 1
  MaxFaults = 3
  CanReturn = FALSE
  CanExpire = FALSE
SPECIFICATION FairSpec
PROPERTIES
  EventuallyResolved
CHECK_DEADLOCK FALSE
