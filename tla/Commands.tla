------------------------------ MODULE Commands ------------------------------
(***************************************************************************)
(* Commands that administrators, timers and monitoring run on one machine  *)
(* or against one cluster: each behaviour is about one of them.            *)
(***************************************************************************)
EXTENDS Integers, FiniteSets

CONSTANTS
  Tool,        \* the commands that behaviours are about
  Version,     \* of PostgreSQL
  VM, User, Cleanup, Together, MaxId,  \* of the development host
  Osd, Disk, Vol, Key, Phrase, Host, Release,
  S3User, Pair, Node, Mon, Salt, Check, Vtep,
  PostgresBounds, DevhostBounds, OsdBounds, LuksBounds, ImageBounds, S3Bounds, KeysBounds

VARIABLES
  tool,  \* what the behaviour is about
  dir, data, prepared, migrated_from, stopper, package, migrated_to, role, auto, running,
  auto_done, committed,
  config, nix, torn, disk, tmp, nbd, units,
  known, full, elsewhere, up, vg, lv, journal, made, ignored,
  local, admin, formatted, key_file, fingerprint,
  current, head, snap, protected, clones, locker, run,
  wanted, gateway, stamp, sync,
  nodes, auth, mon,
  check, given, level,
  table, kernel, zebra, bgp, another,
  job, command, left

Postgres == INSTANCE PostgresUpgrade WITH Bounds <- PostgresBounds
Vms == INSTANCE Devhost WITH Bounds <- DevhostBounds
Osds == INSTANCE CephOsd WITH Bounds <- OsdBounds
Luks == INSTANCE LuksKeys WITH Bounds <- LuksBounds
Images == INSTANCE VmImages WITH Bounds <- ImageBounds
S3 == INSTANCE S3Users WITH Bounds <- S3Bounds
Keys == INSTANCE CephKeys WITH Bounds <- KeysBounds
Monitoring == INSTANCE Checks
Routes == INSTANCE RouteChecks

ASSUME CommandsAssumption ==
  /\ Osds!OsdAssumption /\ Luks!LuksAssumption /\ Images!ImagesAssumption
  /\ S3!S3Assumption /\ Keys!KeysAssumption /\ Vms!DevhostAssumption
  /\ Routes!RoutesAssumption /\ Monitoring!ChecksAssumption /\ Postgres!PostgresAssumption

postgres == <<dir, data, prepared, migrated_from, stopper, package, migrated_to, role, auto,
              running, auto_done, committed>>
devhost == <<config, nix, torn, disk, tmp, nbd, units>>
osd == <<known, full, elsewhere, up, vg, lv, journal, made, ignored>>
luks == <<local, admin, formatted, key_file, fingerprint>>
images == <<current, head, snap, protected, clones, locker, run>>
s3 == <<wanted, gateway, stamp, sync>>
keys == <<nodes, auth, mon>>
checks == <<check, given, level>>
routes == <<table, kernel, zebra, bgp, another>>
vars == <<tool, postgres, devhost, osd, luks, images, s3, keys, checks, routes, job, command, left>>

\* The variables of the commands that a behaviour is not about.
NoPostgres ==
  /\ dir = 0 /\ data = 0 /\ prepared = 0 /\ migrated_from = 0 /\ stopper = 0 /\ package = 0
  /\ migrated_to = 0 /\ role = 0 /\ auto = 0 /\ running = 0 /\ auto_done = 0 /\ committed = 0
NoDevhost ==
  config = 0 /\ nix = 0 /\ torn = 0 /\ disk = 0 /\ tmp = 0 /\ nbd = 0 /\ units = 0
NoOsd ==
  /\ known = 0 /\ full = 0 /\ elsewhere = 0 /\ up = 0 /\ vg = 0 /\ lv = 0 /\ journal = 0
  /\ made = 0 /\ ignored = 0
NoLuks == local = 0 /\ admin = 0 /\ formatted = 0 /\ key_file = 0 /\ fingerprint = 0
NoImages ==
  current = 0 /\ head = 0 /\ snap = 0 /\ protected = 0 /\ clones = 0 /\ locker = 0 /\ run = 0
NoS3 == wanted = 0 /\ gateway = 0 /\ stamp = 0 /\ sync = 0
NoKeys == nodes = 0 /\ auth = 0 /\ mon = 0
NoChecks == check = 0 /\ given = 0 /\ level = 0
NoRoutes == table = 0 /\ kernel = 0 /\ zebra = 0 /\ bgp = 0 /\ another = 0

Init ==
  /\ tool \in Tool
  /\ IF tool = "postgres" THEN Postgres!Init ELSE NoPostgres
  /\ IF tool = "devhost" THEN Vms!Init ELSE NoDevhost
  /\ IF tool = "osd" THEN Osds!Init ELSE NoOsd
  /\ IF tool = "luks" THEN Luks!Init ELSE NoLuks
  /\ IF tool = "images" THEN Images!Init ELSE NoImages
  /\ IF tool = "s3" THEN S3!Init ELSE NoS3
  /\ IF tool = "keys" THEN Keys!Init ELSE NoKeys
  /\ IF tool = "checks" THEN Monitoring!Init ELSE NoChecks
  /\ IF tool = "routes" THEN Routes!Init ELSE NoRoutes
  /\ tool \notin {"postgres", "devhost"} => job = 0
  /\ tool \notin {"osd", "luks"} => command = 0
  /\ tool \in {"checks", "routes"} => left = 0

PostgresNext ==
  /\ tool = "postgres" /\ Postgres!Next
  /\ UNCHANGED <<tool, devhost, osd, luks, images, s3, keys, checks, routes, command>>
DevhostNext ==
  /\ tool = "devhost" /\ Vms!Next
  /\ UNCHANGED <<tool, postgres, osd, luks, images, s3, keys, checks, routes, command>>
OsdNext ==
  /\ tool = "osd" /\ Osds!Next
  /\ UNCHANGED <<tool, postgres, devhost, luks, images, s3, keys, checks, routes, job>>
LuksNext ==
  /\ tool = "luks" /\ Luks!Next
  /\ UNCHANGED <<tool, postgres, devhost, osd, images, s3, keys, checks, routes, job>>
ImagesNext ==
  /\ tool = "images" /\ Images!Next
  /\ UNCHANGED <<tool, postgres, devhost, osd, luks, s3, keys, checks, routes, job, command>>
S3Next ==
  /\ tool = "s3" /\ S3!Next
  /\ UNCHANGED <<tool, postgres, devhost, osd, luks, images, keys, checks, routes, job, command>>
KeysNext ==
  /\ tool = "keys" /\ Keys!Next
  /\ UNCHANGED <<tool, postgres, devhost, osd, luks, images, s3, checks, routes, job, command>>
ChecksNext ==
  /\ tool = "checks" /\ Monitoring!Next
  /\ UNCHANGED <<tool, postgres, devhost, osd, luks, images, s3, keys, routes, job, command, left>>
RoutesNext ==
  /\ tool = "routes" /\ Routes!Next
  /\ UNCHANGED <<tool, postgres, devhost, osd, luks, images, s3, keys, checks, job, command, left>>

Next ==
  \/ PostgresNext \/ DevhostNext \/ OsdNext \/ LuksNext \/ ImagesNext
  \/ S3Next \/ KeysNext \/ ChecksNext \/ RoutesNext

Spec == Init /\ [][Next]_vars

---------------------------------------------------------------------------
\* Each command has the types of its own module.
TypeOK ==
  /\ tool = "postgres" => Postgres!TypeOK
  /\ tool = "devhost" => Vms!TypeOK
  /\ tool = "osd" => Osds!TypeOK
  /\ tool = "luks" => Luks!TypeOK
  /\ tool = "images" => Images!TypeOK
  /\ tool = "s3" => S3!TypeOK
  /\ tool = "keys" => Keys!TypeOK
  /\ tool = "checks" => Monitoring!TypeOK
  /\ tool = "routes" => Routes!TypeOK

\* PostgreSQL serves nothing but the newest data.
ServesNewest == tool = "postgres" => Postgres!ServesNewest

\* The markers of an upgrade lock PostgreSQL out only when something has failed or was killed.
NotLockedOut == tool = "postgres" => Postgres!NotLockedOut

\* Two VMs of a development host run with the same id only if one of them was left over when its
\* destroy was cut short.
DistinctIds == tool = "devhost" => Vms!DistinctIds

\* When ensure reports success, the VM has what its configuration says: the id, and an image of its
\* own unless another VM answered for it.
Delivers == [][tool = "devhost" => Vms!Delivers]_vars

\* A VM that was deployed lately stays, unless it is destroyed by name or just being made.
KeepsFresh == [][tool = "devhost" => Vms!KeepsFresh]_vars

\* Destroying and rebuilding OSDs never removes the last complete copy of the data.
DataKept == tool = "osd" => Osds!DataKept

\* What an interrupted destroy leaves of an OSD can be destroyed by a second one, as long as no
\* failed removal was ignored.
Removable == tool = "osd" => Osds!Removable

\* When deactivate reports success, no OSD that it was given runs.
Deactivated == [][tool = "osd" => Osds!Deactivated]_vars

\* Every encrypted volume can be opened, whatever was interrupted or mistyped.
Openable == tool = "luks" => Luks!Openable

\* A snapshot has the image of the release that it is named after, and clones have theirs.
Named == tool = "images" => Images!Named

\* When a run of fc-s3users writes its stamp, the gateway's users are as the directory says.
Synced == [][tool = "s3" => S3!Synced]_vars

\* A run through which no other one got in between leaves the cluster's keys as it should.
Installed == tool = "keys" => Keys!Installed

\* As long as a check looks at the same things, and none of them is better than it was, its exit
\* code does not fall.
NeverBetter == [][tool = "checks" => Monitoring!NeverBetter]_vars

\* A check is not OK when a fact that it looks at is as bad as it gets, and was not reported before
\* as news; nor when the kernel's routes are not among those that FRR knows.
Alarmed == (tool = "checks" => Monitoring!Alarmed) /\ (tool = "routes" => Routes!Alarmed)
=============================================================================
