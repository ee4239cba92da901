CONSTANTS
  i1 = i1
  i2 = i2
  r1 = r1
  r2 = r2
  Absent = Absent
  Instances <- TwoInstances
  Readers <- TwoReaders
  Home <- OneEach
  LocalEnabled <- FirstInstance
  PromptReaders = TRUE
  CanDisconnect = FALSE
  LocalCacheFails = FALSE
  MaxVersion = 2
  MaxRetries = 1
  MaxAttempts = 1
  MaxFaults = 1
SPECIFICATION Spec
INVARIANTS
  RedisFresh
  LocalFresh
PROPERTIES
  FinalIsFinal
CHECK_DEADLOCK FALSE
