SPECIFICATION Spec
CONSTANTS
  c1 = c1
  c2 = c2
  dev = dev
  t1 = t1
  t2 = t2
  t3 = t3
  None = None
  Channel = {c1, c2, dev}
  Local = {dev}
  Content <- Contents
  Release <- Releases
  Kernel <- Kernels
  InitialChannel = c1
  UpdateInMaintenance = {TRUE}
  Operator = FALSE
  MaxChanges = 1
  MaxFailures = 0
  MaxPowerFailures = 1
PROPERTIES
  RebootsOnce
