---------------------------- MODULE PostgresUpgrade ----------------------------
(***************************************************************************)
(* Major upgrades of PostgreSQL: the administrator prepares and runs them  *)
(* with fc-postgresql, or fc-postgresql-autoupgrade.service does before    *)
(* postgresql.service starts. Each version has a data directory of its     *)
(* own; marker files in these directories are all that the commands and    *)
(* the service know of each other and of earlier, unfinished attempts.     *)
(* Version v+1 is newer than v.                                            *)
(***************************************************************************)
EXTENDS Naturals, FiniteSets

CONSTANTS
  Version,  \* the versions, 1 is the one in use at first
  Bounds    \* bounds: transactions, commands, failing steps, power failures,
            \* and repairs by hand

\* Versions are numbers, and 0 is none.
PostgresAssumption ==
  /\ IsFiniteSet(Version) /\ Version \subseteq Nat \ {0} /\ 1 \in Version
  /\ Bounds \subseteq [writes : Nat, commands : Nat, failures : Nat, crashes : Nat, repairs : Nat]

VARIABLES
  dir,      \* what is in each data directory
  data,     \* the transactions in it
  prepared, migrated_from, stopper, package,  \* directories with this marker
  migrated_to,  \* where the link in each directory leads, or 0
  role,     \* the version the system is configured for
  auto,     \* autoUpgrade.enable
  running,  \* the version that the service runs, or 0
  auto_done,  \* the autoupgrade unit is active (RemainAfterExit)
  job,      \* the administrator's command and that of the autoupgrade unit
  committed,  \* the transactions that users believe in
  left      \* what remains of the bounds

markers == <<prepared, migrated_from, migrated_to, stopper, package>>
service == <<role, auto, running, auto_done>>
vars == <<dir, data, markers, service, job, committed, left>>

Who == {"manual", "auto"}
Idle == [pc |-> "idle", new |-> 1, old |-> 1]

\* A "broken" directory is left by an interrupted initdb, a "partial" one by pg_upgrade;
\* a "fresh" one is what initdb made for an upgrade, a "full" one has the users' data.
Content == {"absent", "empty", "broken", "fresh", "partial", "full"}

Phase == {"idle", "find", "prepare", "initdb", "prepared", "ready", "stop", "stopper",
          "pg_upgrade", "copy", "from", "to", "unprepare", "unpackage", "unstop", "checksums"}

TypeOK ==
  /\ dir \in [Version -> Content] /\ data \in [Version -> Nat]
  /\ prepared \cup migrated_from \cup stopper \cup package \subseteq Version
  /\ migrated_to \in [Version -> Version \cup {0}]
  /\ role \in Version /\ running \in Version \cup {0}
  /\ auto \in BOOLEAN /\ auto_done \in BOOLEAN
  /\ job \in [Who -> [pc : Phase, new : Version, old : Version]]
  /\ committed \in Nat
  /\ left \in [writes : Nat, commands : Nat, failures : Nat, crashes : Nat, repairs : Nat]

Init ==
  /\ dir = [v \in Version |-> IF v = 1 THEN "full" ELSE "absent"]
  /\ data = [v \in Version |-> 0]
  /\ prepared = {} /\ migrated_from = {} /\ stopper = {}
  /\ migrated_to = [v \in Version |-> 0]
  /\ package = {1} /\ role = 1 /\ running = 1
  /\ auto \in BOOLEAN /\ auto_done = FALSE
  /\ job = [w \in Who |-> Idle]
  /\ committed = 0
  /\ left \in Bounds

Use(bound) == left[bound] > 0 /\ left' = [left EXCEPT ![bound] = @ - 1]

---------------------------------------------------------------------------
(* postgresql.service.                                                     *)
Write ==
  /\ running # 0 /\ Use("writes")
  /\ data' = [data EXCEPT ![running] = @ + 1]
  /\ committed' = committed + 1
  /\ UNCHANGED <<dir, markers, service, job>>

AutoUpgradeNeeded ==
  auto /\ ~auto_done /\ role \notin migrated_from \cup package

Unlocked(v) == v \notin prepared /\ migrated_to[v] = 0 /\ dir[v] \in {"empty", "fresh", "full"}
MayStart(v) == v \notin stopper /\ Unlocked(v)

(* Whenever systemd, a boot or a user wants it. An empty directory is       *)
(* initialised. Once it runs, the service leaves the package link.         *)
StartService ==
  /\ running = 0 /\ job["auto"].pc = "idle" /\ ~AutoUpgradeNeeded
  /\ MayStart(role)
  /\ dir' = [dir EXCEPT ![role] = "full"]
  /\ package' = package \cup {role} /\ running' = role
  /\ UNCHANGED <<data, prepared, migrated_from, migrated_to, stopper, role, auto, auto_done,
                 job, committed, left>>

StartAutoUpgrade ==
  /\ running = 0 /\ job["auto"].pc = "idle" /\ AutoUpgradeNeeded
  /\ job' = [job EXCEPT !["auto"] = [Idle EXCEPT !.pc = "find", !.new = role]]
  /\ UNCHANGED <<dir, data, markers, service, committed, left>>

(* The administrator switches to a newer role, as documented: after the    *)
(* upgrade, or when the upgrade is automatic and the version in use has    *)
(* been started. The activation script makes the directory.                *)
SwitchRole(v) ==
  /\ v > role /\ job["auto"].pc = "idle"
  /\ job["manual"].pc = "idle" \/ job["manual"].new = v
  /\ v \in migrated_from \ prepared \/ (auto /\ role \in package)
  /\ role' = v /\ running' = 0 /\ auto_done' = FALSE
  /\ dir' = [dir EXCEPT ![v] = IF @ = "absent" THEN "empty" ELSE @]
  /\ UNCHANGED <<data, markers, auto, job, committed, left>>

---------------------------------------------------------------------------
(* fc-postgresql upgrade and prepare-autoupgrade.                          *)
GoTo(w, phase) == job' = [job EXCEPT ![w].pc = phase]

(* The command ends without having finished. The unit of the auto upgrade  *)
(* has then failed, and postgresql.service is not started.                 *)
Fail(w) == job' = [job EXCEPT ![w] = Idle]

Quiet == UNCHANGED <<dir, data, markers, service, committed>>

(* The administrator looks at the versions first: the one in use is to be  *)
(* upgraded, or the one that could not be.                                 *)
StartCommand(v) ==
  /\ job["manual"].pc = "idle" /\ Use("commands")
  /\ v = role \/ (v > role /\ role \in package)
  /\ job' = [job EXCEPT !["manual"] = [Idle EXCEPT !.pc = "find", !.new = v]]
  /\ Quiet

OldDirs(v) == {u \in package : u < v}

FindOld(w) ==
  /\ job[w].pc = "find"
  /\ LET old == OldDirs(job[w].new)
     IN \/ /\ Cardinality(old) = 1
           /\ \E u \in old : job' = [job EXCEPT ![w].pc = "prepare", ![w].old = u]
           /\ UNCHANGED auto_done
        \/ /\ Cardinality(old) # 1
           /\ Fail(w)
           /\ auto_done' = (auto_done \/ (w = "auto" /\ old = {}))
  /\ UNCHANGED <<dir, data, markers, role, auto, running, committed, left>>

(* Checks of the old and the new directory. Whether unexpected databases   *)
(* are found is a failure like any other.                                  *)
Prepare(w) ==
  /\ job[w].pc = "prepare"
  /\ LET new == job[w].new
         usable == dir[new] \in {"absent", "empty"} \/ new \in prepared
     IN \/ /\ usable /\ migrated_to[job[w].old] = 0
           /\ GoTo(w, IF new \in prepared THEN "ready" ELSE "initdb")
        \/ ~(usable /\ migrated_to[job[w].old] = 0) /\ Fail(w)
  /\ Quiet /\ UNCHANGED left

(* create_new_data_dir fails if the directory is there in the meantime.    *)
Initdb(w) ==
  /\ job[w].pc = "initdb"
  /\ LET new == job[w].new
     IN \/ /\ dir[new] \in {"absent", "empty"}
           /\ dir' = [dir EXCEPT ![new] = "broken"]
           /\ GoTo(w, "prepared")
        \/ dir[new] \notin {"absent", "empty"} /\ Fail(w) /\ UNCHANGED dir
  /\ UNCHANGED <<data, markers, service, committed, left>>

MarkPrepared(w) ==
  /\ job[w].pc = "prepared"
  /\ dir' = [dir EXCEPT ![job[w].new] = "fresh"]
  /\ prepared' = prepared \cup {job[w].new}
  /\ GoTo(w, "ready")
  /\ UNCHANGED <<data, migrated_from, migrated_to, stopper, package, service, committed, left>>

(* Without --upgrade-now, the command ends here, after pg_upgrade --check. *)
Ready(w) ==
  /\ job[w].pc = "ready"
  /\ GoTo(w, "stop") \/ (w = "manual" /\ Fail(w))
  /\ Quiet /\ UNCHANGED left

(* stop_pg asks whether it may stop the service, the unit does not.        *)
StopService(w) ==
  /\ job[w].pc = "stop"
  /\ \/ running = 0 /\ GoTo(w, "stopper") /\ UNCHANGED running
     \/ running # 0 /\ w = "manual" /\ running' = 0 /\ GoTo(w, "stopper")
     \/ running # 0 /\ Fail(w) /\ UNCHANGED running
  /\ UNCHANGED <<dir, data, markers, role, auto, auto_done, committed, left>>

WriteStopper(w) ==
  /\ job[w].pc = "stopper"
  /\ stopper' = stopper \cup {job[w].old}
  /\ GoTo(w, "pg_upgrade")
  /\ UNCHANGED <<dir, data, prepared, migrated_from, migrated_to, package, service, committed, left>>

(* pg_upgrade refuses when one of the clusters is in use, or the new one   *)
(* is not empty.                                                           *)
StartPgUpgrade(w) ==
  /\ job[w].pc = "pg_upgrade"
  /\ LET new == job[w].new
         free == running = 0 /\ \A x \in Who : job[x].pc # "copy"
     IN \/ /\ free /\ dir[new] = "fresh"
           /\ dir' = [dir EXCEPT ![new] = "partial"]
           /\ GoTo(w, "copy")
        \/ ~(free /\ dir[new] = "fresh") /\ Fail(w) /\ UNCHANGED dir
  /\ UNCHANGED <<data, markers, service, committed, left>>

PgUpgrade(w) ==
  /\ job[w].pc = "copy"
  /\ dir' = [dir EXCEPT ![job[w].new] = "full"]
  /\ data' = [data EXCEPT ![job[w].new] = data[job[w].old]]
  /\ GoTo(w, "from")
  /\ UNCHANGED <<markers, service, committed, left>>

\* A slip: the new directory may be used before the old one is marked.
After_early(phase) ==
  CASE phase = "from" -> "unprepare" [] phase = "unprepare" -> "to" [] phase = "to" -> "unpackage"
    [] phase = "unpackage" -> "unstop" [] phase = "unstop" -> "checksums"

\* A slip: the new directory keeps the marker of the preparation.
After_kept(phase) ==
  CASE phase = "from" -> "to" [] phase = "to" -> "unpackage"
    [] phase = "unpackage" -> "unstop" [] phase = "unstop" -> "checksums"

After(phase) ==
  CASE phase = "from" -> "to" [] phase = "to" -> "unprepare" [] phase = "unprepare" -> "unpackage"
    [] phase = "unpackage" -> "unstop" [] phase = "unstop" -> "checksums"

(* The markers after pg_upgrade, one after the other.                      *)
Mark(w) ==
  /\ \/ /\ job[w].pc = "from" /\ migrated_from' = migrated_from \cup {job[w].new}
        /\ UNCHANGED <<migrated_to, prepared, package, stopper>>
     \/ /\ job[w].pc = "to" /\ migrated_to' = [migrated_to EXCEPT ![job[w].old] = job[w].new]
        /\ UNCHANGED <<migrated_from, prepared, package, stopper>>
     \/ /\ job[w].pc = "unprepare" /\ prepared' = prepared \ {job[w].new}
        /\ UNCHANGED <<migrated_from, migrated_to, package, stopper>>
     \/ /\ job[w].pc = "unpackage" /\ package' = package \ {job[w].old}
        /\ UNCHANGED <<migrated_from, migrated_to, prepared, stopper>>
     \/ /\ job[w].pc = "unstop" /\ stopper' = stopper \ {job[w].old}
        /\ UNCHANGED <<migrated_from, migrated_to, prepared, package>>
  /\ GoTo(w, After(job[w].pc))
  /\ UNCHANGED <<dir, data, service, committed, left>>

Checksums(w) ==
  /\ job[w].pc = "checksums"
  /\ Fail(w)
  /\ auto_done' = (auto_done \/ w = "auto")
  /\ UNCHANGED <<dir, data, markers, role, auto, running, committed, left>>

(* A step fails, or the command is killed. A second symlink cannot be made. *)
StepFails(w) ==
  /\ job[w].pc # "idle" /\ Use("failures")
  /\ Fail(w)
  /\ Quiet

PowerFailure ==
  /\ Use("crashes")
  /\ job' = [w \in Who |-> Idle]
  /\ running' = 0 /\ auto_done' = FALSE
  /\ UNCHANGED <<dir, data, markers, role, auto, committed>>

---------------------------------------------------------------------------
(* Repairs by hand, while no command runs: the stopper file says "Remove   *)
(* this if you really want to start the service with this data dir", an    *)
(* unusable new directory is deleted, and going back to the old version is *)
(* documented (what was written since is given up).                        *)
NoCommand == \A w \in Who : job[w].pc = "idle"

WithoutDir(v) ==
  /\ dir' = [dir EXCEPT ![v] = IF v = role THEN "empty" ELSE "absent"]
  /\ data' = [data EXCEPT ![v] = 0]
  /\ prepared' = prepared \ {v} /\ migrated_from' = migrated_from \ {v}
  /\ package' = package \ {v}

RemoveStopper(v) ==
  /\ v \in stopper /\ NoCommand /\ Use("repairs")
  /\ stopper' = stopper \ {v}
  /\ UNCHANGED <<dir, data, prepared, migrated_from, migrated_to, package, service, job, committed>>

RemoveNewDir(v) ==
  /\ NoCommand /\ Use("repairs")
  /\ dir[v] \in {"broken", "partial"} \/ (v \in prepared /\ \A u \in Version : migrated_to[u] # v)
  /\ WithoutDir(v)
  /\ UNCHANGED <<migrated_to, stopper, service, job, committed>>

GoBack(old, new) ==
  /\ migrated_to[old] = new /\ migrated_to[new] = 0 /\ role \in {old, new} /\ NoCommand /\ Use("repairs")
  /\ dir' = [dir EXCEPT ![new] = "absent"] /\ data' = [data EXCEPT ![new] = 0]
  /\ prepared' = prepared \ {new} /\ migrated_from' = migrated_from \ {new}
  /\ package' = package \ {new} /\ migrated_to' = [migrated_to EXCEPT ![old] = 0]
  /\ role' = old /\ running' = 0 /\ auto_done' = FALSE
  /\ committed' = data[old]
  /\ UNCHANGED <<stopper, auto, job>>

---------------------------------------------------------------------------
Step(w) ==
  \/ FindOld(w) \/ Prepare(w) \/ Initdb(w) \/ MarkPrepared(w) \/ Ready(w) \/ StopService(w)
  \/ WriteStopper(w) \/ StartPgUpgrade(w) \/ PgUpgrade(w) \/ Mark(w) \/ Checksums(w)

Next ==
  \/ Write \/ StartService \/ StartAutoUpgrade \/ PowerFailure
  \/ \E w \in Who : Step(w) \/ StepFails(w)
  \/ \E v \in Version : \/ SwitchRole(v) \/ StartCommand(v) \/ RemoveStopper(v) \/ RemoveNewDir(v)
                        \/ \E u \in Version : GoBack(v, u)

Spec == Init /\ [][Next]_vars

---------------------------------------------------------------------------
\* The service runs only with the newest data, whatever failed, was killed or was
\* repaired before: never with the data of an unfinished upgrade, never with an old
\* directory that has been migrated, never with an empty one.
ServesNewest == running # 0 => data[running] = committed

\* As long as nothing has failed or been killed, the markers never lock the service out:
\* once it is down and no command runs, it may start (at most a stopper is to be removed,
\* as it says itself), at least after the unit of the automatic upgrade has done its work
\* or found none, or the version that the administrator has upgraded to may be switched to.
Unharmed == \A b \in Bounds : left.failures = b.failures /\ left.crashes = b.crashes
UpgradeWorks == \E u \in Version :
  /\ OldDirs(role) = {u} /\ migrated_to[u] = 0
  /\ dir[role] \in {"absent", "empty"} \/ role \in prepared
NotLockedOut == Unharmed /\ NoCommand /\ running = 0 =>
  \/ Unlocked(role) /\ (AutoUpgradeNeeded => OldDirs(role) = {})
  \/ AutoUpgradeNeeded /\ UpgradeWorks
  \/ \E v \in Version : v > role /\ v \in migrated_from \ prepared
=============================================================================
