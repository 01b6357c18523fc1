SPECIFICATION Spec
CONSTANTS
  n1 = n1
  n2 = n2
  db = db
  controller = controller
  SlurmNode = {n1, n2}
  Dependency = {db}
  Controller = controller
  K3sNode = {n1, n2}
  Router = {n1, n2}
  SlurmBounds <- SlurmSafety
  K3sBounds <- K3sSafety
  RouterBounds <- RouterSafety
  VmBounds <- VmSafety
INVARIANTS
  TypeOK
  NoJobDuringMaintenance
  OneCordoned
  OneLowered
  NotifyRepairs
PROPERTIES
  NoJobKilled
