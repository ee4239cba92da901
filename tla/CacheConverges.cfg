CONSTANTS
  i1 = i1
  i2 = i2
  r1 = r1
  r2 = r2
  Absent = Absent
  Instances <- OneInstance
  Readers <- OneReader
  Home <- OneEach
  LocalEnabled <- FirstInstance
  PromptReaders = FALSE
  CanDisconnect = TRUE
  LocalCacheFails = TRUE
  MaxVersion = 2
  MaxRetries = 2
  MaxAttempts = 2
  MaxFaults = 3
SPECIFICATION FairSpec
INVARIANTS
  TypeOK
  DeadAfterRetries
PROPERTIES
  EventuallyFinished
  EventuallyFresh
CHECK_DEADLOCK FALSE
