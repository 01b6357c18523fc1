SPECIFICATION Spec
CONSTANTS
  Tool = {"osd"}
  Version = {1, 2}
  VM = {u, v}
  MaxId = 2
  User = {alice}
  Cleanup = cleanup
  Together = 1
  Osd = {0, 1}
  Disk = {d, e}
  Vol = {x, y}
  Key = {k1, k2, k3}
  Phrase = {p1, p2}
  Host = {a, b}
  Release = {s1, s2, s3}
  S3User = {m, n}
  Pair = {k1, k2}
  Node = {a}
  Mon = {i, j}
  Salt = {s1, s2}
  Vtep = {v, w}
  Check = {"manage", "slurm", "unit", "units", "snapshots", "cluster", "luks", "megaraid", "disk", "interfaces",
           "lvm", "clamav", "bgp", "tls", "mongodb", "skvaider", "neighbours", "steal", "routes"}
  S3Bounds <- S3Failures
  KeysBounds <- KeysFailures
  PostgresBounds <- PostgresFaults
  DevhostBounds <- DevhostFaults
  OsdBounds <- OsdInterrupts
  LuksBounds <- LuksInterrupts
  ImageBounds <- ImageKills
PROPERTY
  Deactivated
CHECK_DEADLOCK FALSE
