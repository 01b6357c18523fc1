SPECIFICATION Spec
CONSTANTS
  MaxRetries = 0
  RunnableFor = 0
  Duration = 1
  r1 = r1
  r2 = r2
  Req <- MCReq
  Kind <- ScriptAndUpdate
  None = None
  Flags <- Normal
  MaxTime = 2
  MaxAttempts = 2
INVARIANTS
  TypeOK
  RetryLimit
  RunsInMaintenance
PROPERTIES
  LifecycleKept
