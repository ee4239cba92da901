CONSTANTS
  u1 = u1
  o1 = o1
  o2 = o2
  None = None
  Users <- OneUser
  Orders <- OneOrder
  Owner <- OwnedByOne
  LegacyOrders = {}
  Total = 1
  Consumers = {c1}
  Tasks = {t1}
  Modes = {"async"}
  MaxRetry = 0
  MaxRepublish = 1
  MaxAttempts = 1
  MaxFaults = 0
  CanReturn = FALSE
  CanExpire = FALSE
SPECIFICATION FairStatusSpec
PROPERTY PollersAreAnswered
CHECK_DEADLOCK FALSE
