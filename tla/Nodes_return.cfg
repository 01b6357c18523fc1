SPECIFICATION FairSpec
CONSTANTS
  n1 = n1
  n2 = n2
  db = db
  controller = controller
  SlurmNode = {n1}
  Dependency = {db}
  Controller = controller
  K3sNode = {n1, n2}
  Router = {n1, n2}
  SlurmBounds <- SlurmLiveness
  K3sBounds <- K3sLiveness
  RouterBounds <- RouterLiveness
  VmBounds <- VmLiveness
PROPERTIES
  ReadyInTheEnd
  UncordonedInTheEnd
  PriorityReturns
  Settles
