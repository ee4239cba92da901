CONSTANTS
  q1 = q1
  q2 = q2
  l1 = l1
  l2 = l2
  h1 = h1
  h2 = h2
  None = None
  Requests <- TwoRequests
  Logins <- TwoLogins
  Threads <- TwoThreads
  Phones = {p1}
  Window = 3
  MaxCount = 1
  Interval = 1
  Day = 3
  DailyMax = 1
  CodeTtl = 2
  MaxLag = 1
  MaxLead = 0
  MaxTime = 4
  MaxArrivals = 4
  MaxFaults = 1
SPECIFICATION Spec
SYMMETRY Symmetry
INVARIANTS
  TypeOK
  WindowBound
  DailyBound
  DeliveredCodeWorks
  SessionOfItsPhone
  HandlerSeesItsUser
CHECK_DEADLOCK FALSE
