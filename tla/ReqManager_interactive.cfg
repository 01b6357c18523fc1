SPECIFICATION Spec
CONSTANTS
  MaxRetries = 0
  RunnableFor = 0
  Duration = 1
  r1 = r1
  r2 = r2
  Req <- MCReq
  Kind <- RebootAndVMChange
  None = None
  Flags <- Interactive
  MaxTime = 2
  MaxAttempts = 2
PROPERTIES
  LifecycleKept
