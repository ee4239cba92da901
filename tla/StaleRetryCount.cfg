CONSTANTS
  i1 = i1
  i2 = i2
  r1 = r1
  r2 = r2
  Absent = Absent
  Instances <- TwoInstances
  Readers <- OneReader
  Home <- OneEach
  LocalEnabled <- FirstInstance
  PromptReaders = TRUE
  CanDisconnect = FALSE
  LocalCacheFails = FALSE
  MaxVersion = 2
  MaxRetries = 2
  MaxAttempts = 1
  MaxFaults = 2
SPECIFICATION Spec
INVARIANT DeadAfterRetries
CHECK_DEADLOCK FALSE
