SPECIFICATION FairSpec
CONSTANTS
  a = a
  b = b
  a1 = a1
  a2 = a2
  b1 = b1
  Host = {a, b}
  Osd = {a1, a2, b1}
  HostOf <- Placement
  None = None
  UNLOCK_MAX_RETRIES = 2
  MaxFailures = 2
INVARIANTS
  TypeOK
  DownOnOneHost
PROPERTIES
  TurnsKept
  LockReleased
  OsdsReturn
