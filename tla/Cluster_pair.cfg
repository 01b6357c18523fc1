SPECIFICATION FairSpec
CONSTANTS
  m1 = m1
  m2 = m2
  Machine = {m1, m2}
  Required <- AllOthers
  FailureExitCode <- Mixed
  MaxCrashes = 2
INVARIANTS
  TypeOK
  MutualExclusion
PROPERTIES
  DueIsSettled
