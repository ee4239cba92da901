CONSTANTS
  u1 = u1
  u2 = u2
  o1 = o1
  o2 = o2
  None = None
  Users <- TwoUsers
  Orders <- TwoOrders
  Owner <- OneEach
  LegacyOrders = {o1}
  Total = 1
  Consumers = {c1}
  Tasks = {t1}
  Modes = {"async"}
  MaxRetry = 0
  MaxRepublish = 0
  MaxAttempts = 2
  MaxFaults = 4
  CanReturn = TRUE
  CanExpire = TRUE
SPECIFICATION Spec
INVARIANTS
  RedisConservation
  TypeOK
  DbConservation
PROPERTIES
  ImplementsSale
CHECK_DEADLOCK FALSE
