CONSTANTS
  u1 = u1
  o1 = o1
  o2 = o2
  None = None
  Users <- OneUser
  Orders <- TwoOrders
  Owner <- OwnedByOne
  LegacyOrders = {o1}
  Total = 2
  Consumers = {c1}
  Tasks = {t1}
  Modes = {"async", "sync"}
  MaxRetry = 0
  MaxRepublish = 0
  MaxAttempts = 1
  MaxFaults = 3
  CanReturn = FALSE
  CanExpire = FALSE
SPECIFICATION StatusSpec
INVARIANTS
  OneOrderPerUser
  CompletedHasOrder
  AcceptedNeverLost
  FailedHoldsNothing
  VerdictStaysTrue
  AcceptedIsKnown
PROPERTIES
  SlotFreedByItsOrder
CHECK_DEADLOCK FALSE
