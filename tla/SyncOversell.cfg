CONSTANTS
  u1 = u1
  u2 = u2
  o1 = o1
  o2 = o2
  None = None
  Users <- TwoUsers
  Orders <- TwoOrders
  Owner <- OneEach
  LegacyOrders = {}
  Total = 1
  Consumers = {c1}
  Tasks = {t1}
  Modes = {"sync"}
  MaxRetry = 0
  MaxRepublish = 0
  MaxAttempts = 1
  MaxFaults = 1
  CanReturn = FALSE
  CanExpire = FALSE
SPECIFICATION Spec
INVARIANT NeverOversold
CHECK_DEADLOCK FALSE
