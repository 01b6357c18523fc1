---------------------------- MODULE CommandsProofs ----------------------------
(***************************************************************************)
(* Theorems about the commands of administrators and timers, for any       *)
(* number of VMs, OSDs, volumes, keys, hosts, releases, users and nodes,   *)
(* whatever fails, is interrupted or is killed: one inductive invariant    *)
(* for each command, and at the end what they say of their composition.    *)
(***************************************************************************)
EXTENDS Commands, Sequences, FiniteSetTheorems, TLAPS

---------------------------------------------------------------------------
(***************************************************************************)
(* PostgreSQL upgrades: what the markers say of each directory, and what   *)
(* is half done.                                                           *)
(***************************************************************************)

\* The versions whose directory says that it is the one to be served.
PgCurrent == {v \in Version : dir[v] = "full" /\ v \notin prepared /\ migrated_to[v] = 0}

\* There is one at most, and it has what users believe in.
PgOne ==
  /\ \A u, v \in PgCurrent : u = v
  /\ \A v \in PgCurrent : data[v] = committed
  /\ running # 0 => running \in PgCurrent

\* A link leads from an old directory to its copy. As long as the copy is still marked as prepared,
\* neither is served, and both have what users believe in.
PgLinks == \A o, n \in Version : migrated_to[o] = n =>
  /\ dir[o] = "full" /\ o \notin prepared /\ dir[n] = "full" /\ n # o
  /\ \A u \in Version : migrated_to[u] = n => u = o
  /\ n \in prepared => /\ PgCurrent = {} /\ data[o] = committed /\ data[n] = committed
                       /\ \A u \in Version : migrated_to[u] \in prepared => u = o

\* What the other markers say of a directory.
PgMarkers == \A v \in Version :
  /\ dir[v] \in {"fresh", "partial"} => v \in prepared
  /\ v \in prepared => dir[v] \in {"fresh", "partial", "full"}
  /\ v \in package => dir[v] = "full" /\ v \notin prepared
  /\ v \in migrated_from => dir[v] = "full"

\* A version that cannot be served yet is one that the automatic upgrade has to deal with.
PgRole ==
  dir[role] # "full" \/ role \in prepared => auto /\ ~auto_done /\ Postgres!OldDirs(role) # {}

\* The phases of an upgrade in which its old and new directory are fixed and not done with, ...
PgBusy == {"prepare", "initdb", "prepared", "ready", "stop", "stopper", "pg_upgrade", "copy", "from",
           "to", "unprepare", "unpackage"}
\* ... and those in which the new directory is being made what is to be served.
PgOwn == {"copy", "from", "to", "unprepare"}

\* The administrator's command upgrades to or from the version in use, the unit to it.
PgManual ==
  /\ job["manual"].pc = "find" =>
       job["manual"].new = role \/ (job["manual"].new > role /\ role \in package)
  /\ job["manual"].pc \in PgBusy =>
       \/ role = job["manual"].new
       \/ role = job["manual"].old /\ role \in package
PgAuto == job["auto"].pc # "idle" => job["auto"].new = role /\ role \notin package

\* The two are never in the same delicate phase.
PgAlone == \A w, x \in Postgres!Who :
  /\ job[w].pc = "prepared" /\ job[x].pc = "prepared" => w = x
  /\ job[w].pc \in PgOwn /\ job[x].pc \in PgOwn => w = x

\* What an upgrade may rely on in each of its phases, whatever the other one does.
PgAt(j) ==
  /\ j.pc \in PgBusy => j.old < j.new
  /\ j.pc \in {"prepare", "initdb", "prepared", "ready", "stop", "stopper", "pg_upgrade", "copy",
               "from", "to"} =>
       dir[j.old] = "full" /\ j.old \notin prepared
  /\ j.pc \in {"initdb", "prepared", "ready", "stop", "stopper", "pg_upgrade"} =>
       migrated_to[j.old] \in {0, j.new}
  /\ j.pc = "prepared" => dir[j.new] = "broken"
  /\ j.pc = "pg_upgrade" => j.old \in stopper \/ migrated_to[j.old] # 0
  /\ j.pc = "copy" => dir[j.new] = "partial"
  /\ j.pc \in {"copy", "from", "to"} =>
       /\ running = 0 /\ j.old \in stopper /\ migrated_to[j.old] = 0
       /\ j.new \in prepared /\ \A u \in Version : migrated_to[u] # j.new
  /\ j.pc \in {"from", "to"} => dir[j.new] = "full" /\ data[j.new] = committed
  /\ j.pc = "unprepare" => migrated_to[j.old] = j.new /\ j.new \in prepared
  /\ j.pc \in {"unpackage", "unstop"} => migrated_to[j.old] # 0
  /\ j.pc \in {"unpackage", "unstop", "checksums"} => dir[j.new] = "full" /\ j.new \notin prepared
PgJobs == \A w \in Postgres!Who : PgAt(job[w])

PgInv ==
  /\ Postgres!TypeOK /\ PgOne /\ PgLinks /\ PgMarkers /\ PgRole
  /\ PgManual /\ PgAuto /\ PgAlone /\ PgJobs

PgJob == [pc : Postgres!Phase, new : Version, old : Version]

\* Versions are numbers, and 0 is none.
LEMMA PgVersions ==
  ASSUME CommandsAssumption
  PROVE  Version \subseteq Nat /\ 0 \notin Version /\ 1 \in Version /\ IsFiniteSet(Version)
<1>1. Postgres!IsFiniteSet(Version) = IsFiniteSet(Version)
  BY DEF Postgres!IsFiniteSet, IsFiniteSet
<1> QED
  BY <1>1 DEF CommandsAssumption, Postgres!PostgresAssumption

\* No command.
LEMMA PgIdle ==
  ASSUME CommandsAssumption
  PROVE  Postgres!Idle \in PgJob /\ Postgres!Idle.pc = "idle" /\ Postgres!Idle.new = 1
BY PgVersions DEF Postgres!Idle, PgJob, Postgres!Phase

\* In the beginning version 1 is in use.
LEMMA PgInit == CommandsAssumption /\ Postgres!Init => PgInv
<1> SUFFICES ASSUME CommandsAssumption, Postgres!Init
             PROVE  PgInv
  OBVIOUS
<1>1. /\ \A w \in Postgres!Who : job[w] = Postgres!Idle
      /\ "manual" \in Postgres!Who /\ "auto" \in Postgres!Who
  BY DEF Postgres!Init, Postgres!Who
<1>2. Postgres!TypeOK
  <2>1. job \in [Postgres!Who -> PgJob]
    BY PgIdle DEF Postgres!Init
  <2>2. left \in [writes : Nat, commands : Nat, failures : Nat, crashes : Nat, repairs : Nat]
    BY DEF CommandsAssumption, Postgres!PostgresAssumption, Postgres!Init
  <2> QED
    BY <2>1, <2>2, PgVersions DEF Postgres!Init, Postgres!TypeOK, Postgres!Content, PgJob
<1>3. PgCurrent = {1}
  BY PgVersions DEF PgCurrent, Postgres!Init
<1>4. PgOne /\ PgLinks /\ PgMarkers /\ PgRole
  BY <1>3, PgVersions DEF PgOne, PgLinks, PgMarkers, PgRole, Postgres!Init
<1>5. PgManual /\ PgAuto /\ PgAlone /\ PgJobs
  BY <1>1, PgIdle DEF PgManual, PgAuto, PgAlone, PgJobs, PgAt, PgBusy, PgOwn
<1> QED
  BY <1>2, <1>4, <1>5 DEF PgInv

\* A command changes: the other one stays.
LEMMA PgMoves ==
  ASSUME Postgres!TypeOK, NEW w \in Postgres!Who, NEW new \in PgJob, job' = [job EXCEPT ![w] = new]
  PROVE  /\ job' \in [Postgres!Who -> PgJob] /\ job'[w] = new
         /\ \A x \in Postgres!Who \ {w} : job'[x] = job[x]
BY DEF Postgres!TypeOK, PgJob

\* A command goes on, and changes nothing but its phase.
LEMMA PgGoTo ==
  ASSUME Postgres!TypeOK, NEW w \in Postgres!Who, NEW p \in Postgres!Phase, Postgres!GoTo(w, p)
  PROVE  /\ job' \in [Postgres!Who -> PgJob] /\ job'[w].pc = p
         /\ job'[w].new = job[w].new /\ job'[w].old = job[w].old
         /\ \A x \in Postgres!Who \ {w} : job'[x] = job[x]
BY DEF Postgres!TypeOK, PgJob, Postgres!GoTo

\* A command ends.
LEMMA PgFail ==
  ASSUME CommandsAssumption, Postgres!TypeOK, NEW w \in Postgres!Who, Postgres!Fail(w)
  PROVE  /\ job' \in [Postgres!Who -> PgJob] /\ job'[w].pc = "idle"
         /\ \A x \in Postgres!Who \ {w} : job'[x] = job[x]
BY PgIdle, PgMoves DEF Postgres!Fail

\* The administrator's command and the unit.
LEMMA PgWho == /\ "manual" \in Postgres!Who /\ "auto" \in Postgres!Who
               /\ \A w \in Postgres!Who : w \in {"manual", "auto"}
BY DEF Postgres!Who

\* A bound that is used is lower than before.
LEMMA PgUse ==
  ASSUME Postgres!TypeOK, NEW b \in {"writes", "commands", "failures", "crashes", "repairs"},
         Postgres!Use(b)
  PROVE  left' \in [writes : Nat, commands : Nat, failures : Nat, crashes : Nat, repairs : Nat]
BY DEF Postgres!TypeOK, Postgres!Use

\* Two upgrades at the same time are to the same version.
LEMMA PgSame ==
  ASSUME PgInv, NEW w \in Postgres!Who, NEW x \in Postgres!Who,
         job[w].pc \in PgBusy, job[x].pc \in PgBusy
  PROVE  job[w].new = job[x].new
BY PgWho DEF PgInv, PgManual, PgAuto, PgBusy

\* As long as the directories and their markers stay, so does what they say.
LEMMA PgQuiet ==
  ASSUME PgInv, UNCHANGED <<dir, data, prepared, migrated_from, migrated_to, package, committed>>,
         running' \in {0, running}
  PROVE  PgOne' /\ PgLinks' /\ PgMarkers' /\ PgCurrent' = PgCurrent
<1>1. PgCurrent' = PgCurrent
  BY DEF PgCurrent
<1>2. PgOne' /\ PgLinks'
  BY <1>1 DEF PgInv, PgOne, PgLinks
<1>3. PgMarkers'
  BY DEF PgInv, PgMarkers
<1> QED
  BY <1>1, <1>2, <1>3

\* What one command may rely on stays if nothing but the bounds, the service or the markers of
\* the old version is touched by the other one.
LEMMA PgRest ==
  ASSUME PgInv, NEW x \in Postgres!Who, job'[x] = job[x],
         UNCHANGED <<dir, data, prepared, migrated_to, committed>>,
         stopper \subseteq stopper', running' \in {0, running}
  PROVE  PgAt(job[x])'
BY DEF PgInv, PgJobs, PgAt

\* Two commands are never in the same delicate phase if the one that moves gets into none.
LEMMA PgAloneMoves ==
  ASSUME PgInv, NEW w \in Postgres!Who, \A x \in Postgres!Who \ {w} : job'[x] = job[x],
         job'[w].pc # "prepared", job'[w].pc \in PgOwn => job[w].pc \in PgOwn
  PROVE  PgAlone'
BY DEF PgInv, PgAlone

\* A transaction.
LEMMA PgWrite == ASSUME CommandsAssumption, PgInv, Postgres!Write PROVE PgInv'
<1>1. /\ running \in Version /\ data' = [data EXCEPT ![running] = @ + 1] /\ committed' = committed + 1
      /\ UNCHANGED <<dir, prepared, migrated_from, migrated_to, stopper, package, role, auto, running,
                     auto_done, job>>
  BY DEF Postgres!Write, PgInv, Postgres!TypeOK, Postgres!markers, Postgres!service
<1>2. Postgres!TypeOK'
  BY <1>1, PgUse DEF Postgres!Write, PgInv, Postgres!TypeOK
<1>3. running # 0 /\ running \in PgCurrent /\ PgCurrent' = PgCurrent
  BY <1>1 DEF Postgres!Write, PgInv, PgOne, PgCurrent
<1>4. PgOne'
  BY <1>1, <1>3 DEF PgInv, PgOne, Postgres!TypeOK
<1>5. PgLinks'
  BY <1>1, <1>3 DEF PgInv, PgLinks
<1>6. PgMarkers' /\ PgRole' /\ PgManual' /\ PgAuto' /\ PgAlone'
  BY <1>1 DEF PgInv, PgMarkers, PgRole, PgManual, PgAuto, PgAlone, Postgres!OldDirs
<1>7. PgJobs'
  BY <1>1, <1>3 DEF PgInv, PgJobs, PgAt
<1> QED
  BY <1>2, <1>4, <1>5, <1>6, <1>7 DEF PgInv

\* The service starts: its directory is one to be served.
LEMMA PgStartService == ASSUME CommandsAssumption, PgInv, Postgres!StartService PROVE PgInv'
<1>1. /\ role \in Version /\ running = 0 /\ job["auto"].pc = "idle"
      /\ package' = package \cup {role} /\ running' = role
      /\ UNCHANGED <<data, prepared, migrated_from, migrated_to, stopper, role, auto, auto_done, job,
                     committed, left>>
  BY DEF Postgres!StartService, PgInv, Postgres!TypeOK
<1>2. role \notin stopper /\ role \notin prepared /\ migrated_to[role] = 0
  BY DEF Postgres!StartService, Postgres!MayStart, Postgres!Unlocked
<1>3. dir[role] = "full"
  BY <1>1 DEF Postgres!StartService, Postgres!AutoUpgradeNeeded, PgInv, PgRole, PgMarkers
<1>4. dir' = dir /\ role \in PgCurrent
  BY <1>1, <1>2, <1>3 DEF Postgres!StartService, PgInv, Postgres!TypeOK, PgCurrent
<1>5. Postgres!TypeOK'
  BY <1>1, <1>4 DEF PgInv, Postgres!TypeOK
<1>6. PgCurrent' = PgCurrent
  BY <1>1, <1>4 DEF PgCurrent
<1>7. PgOne' /\ PgLinks'
  BY <1>1, <1>4, <1>6 DEF PgInv, PgOne, PgLinks
<1>8. PgMarkers' /\ PgRole' /\ PgManual' /\ PgAuto' /\ PgAlone'
  BY <1>1, <1>2, <1>3, <1>4 DEF PgInv, PgMarkers, PgRole, PgManual, PgAuto, PgAlone
<1>9. PgJobs'
  <2>1. ASSUME NEW w \in Postgres!Who, job[w].pc \in {"copy", "from", "to"}
        PROVE  FALSE
    BY <1>1, <1>2, <2>1, PgWho DEF PgInv, PgJobs, PgAt, PgManual, PgBusy
  <2> QED
    BY <1>1, <1>4, <2>1 DEF PgInv, PgJobs, PgAt
<1> QED
  BY <1>5, <1>7, <1>8, <1>9 DEF PgInv

\* The unit of the automatic upgrade starts.
LEMMA PgStartAuto == ASSUME CommandsAssumption, PgInv, Postgres!StartAutoUpgrade PROVE PgInv'
<1> DEFINE new == [Postgres!Idle EXCEPT !.pc = "find", !.new = role]
<1>1. /\ job' = [job EXCEPT !["auto"] = new] /\ role \in Version /\ role \notin package
      /\ UNCHANGED <<dir, data, prepared, migrated_from, migrated_to, stopper, package, role, auto,
                     running, auto_done, committed, left>>
  BY DEF Postgres!StartAutoUpgrade, Postgres!AutoUpgradeNeeded, Postgres!markers, Postgres!service,
         PgInv, Postgres!TypeOK
<1>2. new \in PgJob /\ new.pc = "find" /\ new.new = role
  BY <1>1, PgVersions DEF Postgres!Idle, PgJob, Postgres!Phase
<1> HIDE DEF new
<1>3. /\ job' \in [Postgres!Who -> PgJob] /\ job'["auto"] = new
      /\ \A x \in Postgres!Who \ {"auto"} : job'[x] = job[x]
  BY <1>1, <1>2, PgMoves, PgWho DEF PgInv
<1>4. Postgres!TypeOK'
  BY <1>1, <1>3 DEF PgInv, Postgres!TypeOK, PgJob
<1>5. PgOne' /\ PgLinks' /\ PgMarkers'
  BY <1>1, PgQuiet
<1>6. PgRole' /\ PgManual' /\ PgAuto'
  BY <1>1, <1>2, <1>3, PgWho DEF PgInv, PgRole, PgManual, PgAuto, Postgres!OldDirs
<1>7. PgAlone'
  BY <1>2, <1>3, PgAloneMoves, PgWho DEF PgOwn
<1>8. PgJobs'
  <2>1. PgAt(job["auto"])'
    BY <1>2, <1>3 DEF PgAt, PgBusy
  <2> QED
    BY <1>1, <1>3, <2>1, PgRest, PgWho DEF PgJobs
<1> QED
  BY <1>4, <1>5, <1>6, <1>7, <1>8 DEF PgInv

\* The administrator switches to a newer version.
LEMMA PgSwitch ==
  ASSUME CommandsAssumption, PgInv, NEW v \in Version, Postgres!SwitchRole(v)
  PROVE  PgInv'
<1>1. /\ v > role /\ job["auto"].pc = "idle" /\ (job["manual"].pc = "idle" \/ job["manual"].new = v)
      /\ (v \in migrated_from \ prepared \/ (auto /\ role \in package))
      /\ role' = v /\ running' = 0 /\ auto_done' = FALSE
      /\ UNCHANGED <<data, prepared, migrated_from, migrated_to, stopper, package, auto, job, committed,
                     left>>
  BY DEF Postgres!SwitchRole, Postgres!markers
<1>2. /\ dir' \in [Version -> Postgres!Content]
      /\ \A u \in Version : dir'[u] = dir[u] \/ (dir[u] = "absent" /\ dir'[u] = "empty")
  BY DEF Postgres!SwitchRole, PgInv, Postgres!TypeOK, Postgres!Content
<1>3. role \in Version /\ package \subseteq Version
  BY DEF PgInv, Postgres!TypeOK
<1>4. Postgres!TypeOK'
  BY <1>1, <1>2 DEF PgInv, Postgres!TypeOK
<1>5. PgCurrent' = PgCurrent
  BY <1>1, <1>2 DEF PgCurrent
<1>6. PgOne' /\ PgLinks' /\ PgMarkers'
  BY <1>1, <1>2, <1>5, PgVersions DEF PgInv, PgOne, PgLinks, PgMarkers
<1>7. PgRole'
  BY <1>1, <1>2, <1>3, PgVersions DEF PgInv, PgRole, PgMarkers, Postgres!OldDirs
<1>8. PgManual' /\ PgAuto' /\ PgAlone'
  BY <1>1 DEF PgInv, PgManual, PgAuto, PgAlone, PgBusy
<1>9. PgJobs'
  <2>1. ASSUME NEW w \in Postgres!Who
        PROVE  PgAt(job[w])'
    <3>1. job[w].new \in Version /\ job[w].old \in Version
      BY DEF PgInv, Postgres!TypeOK
    <3> QED
      BY <1>1, <1>2, <3>1 DEF PgInv, PgJobs, PgAt
  <2> QED
    BY <2>1 DEF PgJobs
<1> QED
  BY <1>4, <1>6, <1>7, <1>8, <1>9 DEF PgInv

\* A command looks for the directory that is to be upgraded.
LEMMA PgFindOld ==
  ASSUME CommandsAssumption, PgInv, NEW w \in Postgres!Who, Postgres!FindOld(w)
  PROVE  PgInv'
<1>1. /\ job[w].pc = "find" /\ job[w] \in PgJob
      /\ UNCHANGED <<dir, data, prepared, migrated_from, migrated_to, stopper, package, role, auto,
                     running, committed, left>>
  BY DEF Postgres!FindOld, Postgres!markers, PgInv, Postgres!TypeOK, PgJob
<1> DEFINE old == Postgres!OldDirs(job[w].new)
<1>2. PgOne' /\ PgLinks' /\ PgMarkers'
  BY <1>1, PgQuiet
<1>3. CASE /\ Postgres!Cardinality(old) = 1
           /\ \E u \in old : job' = [job EXCEPT ![w].pc = "prepare", ![w].old = u]
           /\ UNCHANGED auto_done
  <2>1. PICK u \in old : job' = [job EXCEPT ![w].pc = "prepare", ![w].old = u]
    BY <1>3
  <2>2. old = {u} /\ u \in Version /\ u \in package /\ u < job[w].new
    <3>1. u \in package /\ u < job[w].new /\ old \subseteq package /\ package \subseteq Version
      BY <2>1 DEF Postgres!OldDirs, PgInv, Postgres!TypeOK
    <3>2. IsFiniteSet(old)
      BY <3>1, PgVersions, FS_Subset
    <3>3. Cardinality(old) = 1
      BY <1>3 DEF Postgres!Cardinality, Cardinality
    <3>4. \E s : old = {s}
      BY <3>2, <3>3, FS_Singleton
    <3> HIDE DEF old
    <3> QED
      BY <2>1, <3>1, <3>4
  <2> DEFINE new == [job[w] EXCEPT !.pc = "prepare", !.old = u]
  <2>3. job' = [job EXCEPT ![w] = new]
    BY <2>1
  <2>4. new \in PgJob /\ new.pc = "prepare" /\ new.old = u /\ new.new = job[w].new
    BY <1>1, <2>2 DEF PgJob, Postgres!Phase
  <2> HIDE DEF new
  <2>5. /\ job' \in [Postgres!Who -> PgJob] /\ job'[w] = new
        /\ \A x \in Postgres!Who \ {w} : job'[x] = job[x]
    BY <2>3, <2>4, PgMoves DEF PgInv
  <2>6. Postgres!TypeOK' /\ PgRole' /\ PgAuto'
    BY <1>1, <1>3, <2>4, <2>5, PgWho DEF PgInv, Postgres!TypeOK, PgJob, PgRole, PgAuto, Postgres!OldDirs
  <2>7. PgManual'
    <3>1. CASE w = "manual"
      <4>1. role \in package /\ role < job[w].new => role = u
        BY <2>2 DEF Postgres!OldDirs
      <4>2. role \in Version /\ job[w].new \in Version
        BY <1>1 DEF PgInv, Postgres!TypeOK, PgJob
      <4>3. job[w].new = role \/ (job[w].new > role /\ role \in package)
        BY <1>1, <3>1 DEF PgInv, PgManual
      <4> QED
        BY <1>1, <2>4, <2>5, <3>1, <4>1, <4>2, <4>3, PgVersions DEF PgManual
    <3>2. CASE w # "manual"
      BY <1>1, <2>5, <3>2, PgWho DEF PgInv, PgManual
    <3> QED
      BY <3>1, <3>2
  <2>8. PgAlone'
    BY <2>4, <2>5, PgAloneMoves DEF PgOwn
  <2>9. PgJobs'
    <3>1. dir[u] = "full" /\ u \notin prepared
      BY <2>2 DEF PgInv, PgMarkers
    <3>2. PgAt(job[w])'
      BY <1>1, <2>2, <2>4, <2>5, <3>1 DEF PgAt
    <3> QED
      BY <1>1, <2>5, <3>2, PgRest DEF PgJobs
  <2> QED
    BY <1>2, <2>6, <2>7, <2>8, <2>9 DEF PgInv
<1>4. CASE /\ Postgres!Fail(w)
           /\ auto_done' = (auto_done \/ (w = "auto" /\ old = {}))
  <2>1. /\ job' \in [Postgres!Who -> PgJob] /\ job'[w].pc = "idle"
        /\ \A x \in Postgres!Who \ {w} : job'[x] = job[x]
    BY <1>4, PgFail DEF PgInv
  <2>2. auto_done' \in BOOLEAN /\ (auto_done' => auto_done \/ (w = "auto" /\ old = {}))
    BY <1>4 DEF PgInv, Postgres!TypeOK
  <2>3. Postgres!TypeOK'
    BY <1>1, <2>1, <2>2 DEF PgInv, Postgres!TypeOK, PgJob
  <2>4. w = "auto" => job[w].new = role
    BY <1>1 DEF PgInv, PgAuto
  <2>5. PgRole'
    BY <1>1, <2>2, <2>4 DEF PgInv, PgRole, Postgres!OldDirs
  <2>6. PgManual' /\ PgAuto'
    BY <1>1, <2>1, PgWho DEF PgInv, PgManual, PgAuto, PgBusy
  <2>7. PgAlone'
    BY <2>1, PgAloneMoves DEF PgOwn
  <2>8. PgJobs'
    <3>1. PgAt(job[w])'
      BY <2>1 DEF PgAt, PgBusy
    <3> QED
      BY <1>1, <2>1, <3>1, PgRest DEF PgJobs
  <2> QED
    BY <1>2, <2>3, <2>5, <2>6, <2>7, <2>8 DEF PgInv
<1> QED
  BY <1>3, <1>4 DEF Postgres!FindOld

\* A command ends, or fails: the other one may rely on what it did before.
LEMMA PgEnds ==
  ASSUME CommandsAssumption, PgInv, NEW w \in Postgres!Who, Postgres!Fail(w),
         UNCHANGED <<dir, data, prepared, migrated_from, migrated_to, stopper, package, role, auto,
                     running, auto_done, committed>>,
         left' \in [writes : Nat, commands : Nat, failures : Nat, crashes : Nat, repairs : Nat]
  PROVE  PgInv'
<1>1. /\ job' \in [Postgres!Who -> PgJob] /\ job'[w].pc = "idle"
      /\ \A x \in Postgres!Who \ {w} : job'[x] = job[x]
  BY PgFail DEF PgInv
<1>2. PgOne' /\ PgLinks' /\ PgMarkers'
  BY PgQuiet
<1>3. Postgres!TypeOK' /\ PgRole'
  BY <1>1 DEF PgInv, Postgres!TypeOK, PgJob, PgRole, Postgres!OldDirs
<1>4. PgManual' /\ PgAuto'
  BY <1>1, PgWho DEF PgInv, PgManual, PgAuto, PgBusy
<1>5. PgAlone'
  BY <1>1, PgAloneMoves DEF PgOwn
<1>6. PgJobs'
  <2>1. PgAt(job[w])'
    BY <1>1 DEF PgAt, PgBusy
  <2> QED
    BY <1>1, <2>1, PgRest DEF PgJobs
<1> QED
  BY <1>2, <1>3, <1>4, <1>5, <1>6 DEF PgInv

\* A command goes on and touches no directory: it may rely on what it has found.
LEMMA PgGoesOn ==
  ASSUME CommandsAssumption, PgInv, NEW w \in Postgres!Who, NEW p \in Postgres!Phase,
         Postgres!GoTo(w, p), job[w].pc \in PgBusy, p \in PgBusy \ (PgOwn \cup {"prepared"}),
         UNCHANGED <<dir, data, prepared, migrated_from, migrated_to, package, role, auto,
                     auto_done, committed, left>>,
         running' \in {0, running}, stopper \subseteq stopper', stopper' \subseteq Version,
         PgAt(job[w])'
  PROVE  PgInv'
<1>1. /\ job' \in [Postgres!Who -> PgJob] /\ job'[w].pc = p
      /\ job'[w].new = job[w].new /\ job'[w].old = job[w].old
      /\ \A x \in Postgres!Who \ {w} : job'[x] = job[x]
  BY PgGoTo DEF PgInv
<1>2. PgOne' /\ PgLinks' /\ PgMarkers'
  BY PgQuiet
<1>3. Postgres!TypeOK' /\ PgRole'
  BY <1>1 DEF PgInv, Postgres!TypeOK, PgJob, PgRole, Postgres!OldDirs
<1>4. PgManual' /\ PgAuto'
  BY <1>1, PgWho DEF PgInv, PgManual, PgAuto, PgBusy
<1>5. PgAlone'
  BY <1>1, PgAloneMoves
<1>6. PgJobs'
  BY <1>1, PgRest DEF PgJobs
<1> QED
  BY <1>2, <1>3, <1>4, <1>5, <1>6 DEF PgInv

\* A command checks the directories, waits for the administrator, stops the service, or locks the
\* old version.
LEMMA PgChecks ==
  ASSUME CommandsAssumption, PgInv, NEW w \in Postgres!Who,
         Postgres!Prepare(w) \/ Postgres!Ready(w) \/ Postgres!StopService(w) \/ Postgres!WriteStopper(w)
  PROVE  PgInv'
<1>1. /\ job[w] \in PgJob /\ PgAt(job[w]) /\ PgOne /\ Postgres!TypeOK /\ PgMarkers /\ PgLinks
      /\ left \in [writes : Nat, commands : Nat, failures : Nat, crashes : Nat, repairs : Nat]
  BY DEF PgInv, PgJobs, Postgres!TypeOK, PgJob
<1>2. CASE Postgres!Prepare(w)
  <2>1. /\ job[w].pc = "prepare"
        /\ UNCHANGED <<dir, data, prepared, migrated_from, migrated_to, stopper, package, role, auto,
                       running, auto_done, committed, left>>
    BY <1>2 DEF Postgres!Prepare, Postgres!Quiet, Postgres!markers, Postgres!service
  <2>2. CASE Postgres!Fail(w)
    BY <1>1, <2>1, <2>2, PgEnds
  <2>3. CASE /\ migrated_to[job[w].old] = 0
             /\ Postgres!GoTo(w, "ready") \/ Postgres!GoTo(w, "initdb")
    <3>1. PICK p \in {"ready", "initdb"} : Postgres!GoTo(w, p)
      BY <2>3
    <3>2. p \in Postgres!Phase /\ p \in PgBusy \ (PgOwn \cup {"prepared"})
      BY DEF Postgres!Phase, PgBusy, PgOwn
    <3>3. PgAt(job[w])'
      BY <1>1, <2>1, <2>3, <3>1, <3>2, PgGoTo DEF PgAt, PgJob, PgBusy
    <3> QED
      BY <1>1, <2>1, <3>1, <3>2, <3>3, PgGoesOn DEF PgBusy, Postgres!TypeOK
  <2> QED
    BY <1>2, <2>2, <2>3 DEF Postgres!Prepare
<1>3. CASE Postgres!Ready(w)
  <2>1. /\ job[w].pc = "ready"
        /\ UNCHANGED <<dir, data, prepared, migrated_from, migrated_to, stopper, package, role, auto,
                       running, auto_done, committed, left>>
    BY <1>3 DEF Postgres!Ready, Postgres!Quiet, Postgres!markers, Postgres!service
  <2>2. CASE Postgres!Fail(w)
    BY <1>1, <2>1, <2>2, PgEnds
  <2>3. CASE Postgres!GoTo(w, "stop")
    <3>1. "stop" \in Postgres!Phase /\ "stop" \in PgBusy \ (PgOwn \cup {"prepared"})
      BY DEF Postgres!Phase, PgBusy, PgOwn
    <3>2. PgAt(job[w])'
      BY <1>1, <2>1, <2>3, <3>1, PgGoTo DEF PgAt, PgJob, PgBusy
    <3> QED
      BY <1>1, <2>1, <2>3, <3>1, <3>2, PgGoesOn DEF PgBusy, Postgres!TypeOK
  <2> QED
    BY <1>3, <2>2, <2>3 DEF Postgres!Ready
<1>4. CASE Postgres!StopService(w)
  <2>1. /\ job[w].pc = "stop" /\ running' \in {0, running}
        /\ UNCHANGED <<dir, data, prepared, migrated_from, migrated_to, stopper, package, role, auto,
                       auto_done, committed, left>>
    BY <1>4 DEF Postgres!StopService, Postgres!markers
  <2>2. CASE Postgres!Fail(w) /\ UNCHANGED running
    BY <1>1, <2>1, <2>2, PgEnds
  <2>3. CASE Postgres!GoTo(w, "stopper")
    <3>1. "stopper" \in Postgres!Phase /\ "stopper" \in PgBusy \ (PgOwn \cup {"prepared"})
      BY DEF Postgres!Phase, PgBusy, PgOwn
    <3>2. PgAt(job[w])'
      BY <1>1, <2>1, <2>3, <3>1, PgGoTo DEF PgAt, PgJob, PgBusy
    <3> QED
      BY <1>1, <2>1, <2>3, <3>1, <3>2, PgGoesOn DEF PgBusy, Postgres!TypeOK
  <2> QED
    BY <1>4, <2>2, <2>3 DEF Postgres!StopService
<1>5. CASE Postgres!WriteStopper(w)
  <2>1. /\ job[w].pc = "stopper" /\ stopper' = stopper \cup {job[w].old}
        /\ Postgres!GoTo(w, "pg_upgrade")
        /\ UNCHANGED <<dir, data, prepared, migrated_from, migrated_to, package, role, auto, running,
                       auto_done, committed, left>>
    BY <1>5 DEF Postgres!WriteStopper, Postgres!service
  <2>2. "pg_upgrade" \in Postgres!Phase /\ "pg_upgrade" \in PgBusy \ (PgOwn \cup {"prepared"})
    BY DEF Postgres!Phase, PgBusy, PgOwn
  <2>3. PgAt(job[w])'
    BY <1>1, <2>1, <2>2, PgGoTo DEF PgAt, PgJob, PgBusy
  <2> QED
    BY <1>1, <2>1, <2>2, <2>3, PgGoesOn DEF PgBusy, Postgres!TypeOK, PgJob
<1> QED
  BY <1>2, <1>3, <1>4, <1>5

\* initdb begins to make a new directory.
LEMMA PgInitdb ==
  ASSUME CommandsAssumption, PgInv, NEW w \in Postgres!Who, Postgres!Initdb(w)
  PROVE  PgInv'
<1> DEFINE new == job[w].new
           old == job[w].old
<1>1. /\ job[w].pc = "initdb" /\ new \in Version /\ old \in Version
      /\ UNCHANGED <<data, prepared, migrated_from, migrated_to, stopper, package, role, auto, running,
                     auto_done, committed, left>>
  BY DEF Postgres!Initdb, Postgres!markers, Postgres!service, PgInv, Postgres!TypeOK
<1>2. CASE Postgres!Fail(w) /\ UNCHANGED dir
  BY <1>1, <1>2, PgEnds DEF PgInv, Postgres!TypeOK
<1>3. CASE /\ dir[new] \in {"absent", "empty"} /\ dir' = [dir EXCEPT ![new] = "broken"]
           /\ Postgres!GoTo(w, "prepared")
  <2>1. "prepared" \in Postgres!Phase
    BY DEF Postgres!Phase
  <2>2. /\ job' \in [Postgres!Who -> PgJob] /\ job'[w].pc = "prepared"
        /\ job'[w].new = new /\ job'[w].old = old
        /\ \A x \in Postgres!Who \ {w} : job'[x] = job[x]
    BY <1>3, <2>1, PgGoTo DEF PgInv
  <2>3. /\ dir' \in [Version -> Postgres!Content] /\ dir'[new] = "broken"
        /\ \A u \in Version \ {new} : dir'[u] = dir[u]
    BY <1>1, <1>3 DEF PgInv, Postgres!TypeOK, Postgres!Content
  <2>4. PgCurrent' = PgCurrent
    BY <1>1, <1>3, <2>3 DEF PgCurrent
  <2>5. Postgres!TypeOK'
    BY <1>1, <2>2, <2>3 DEF PgInv, Postgres!TypeOK, PgJob
  <2>6. PgOne'
    BY <1>1, <2>4 DEF PgInv, PgOne
  <2>7. PgLinks' /\ PgMarkers'
    BY <1>1, <1>3, <2>3, <2>4 DEF PgInv, PgLinks, PgMarkers
  <2>8. PgRole'
    <3>1. role \in Version
      BY DEF PgInv, Postgres!TypeOK
    <3> QED
      BY <1>1, <1>3, <2>3, <3>1 DEF PgInv, PgRole, Postgres!OldDirs
  <2>9. PgManual' /\ PgAuto'
    BY <1>1, <2>2, PgWho DEF PgInv, PgManual, PgAuto, PgBusy
  <2>10. \A x \in Postgres!Who : job[x].pc # "prepared"
    <3>1. ASSUME NEW x \in Postgres!Who, job[x].pc = "prepared"
          PROVE  FALSE
      <4>1. job[x].new = new
        BY <1>1, <3>1, PgSame DEF PgBusy
      <4> QED
        BY <1>3, <3>1, <4>1 DEF PgInv, PgJobs, PgAt
    <3> QED
      BY <3>1
  <2>11. PgAlone'
    BY <1>1, <2>2, <2>10 DEF PgInv, PgAlone, PgOwn
  <2>12. PgJobs'
    <3>1. PgAt(job[w])'
      BY <1>1, <1>3, <2>2, <2>3 DEF PgInv, PgJobs, PgAt, PgBusy
    <3>2. ASSUME NEW x \in Postgres!Who \ {w}
          PROVE  PgAt(job[x])'
      <4>1. job[x].new \in Version /\ job[x].old \in Version /\ PgAt(job[x])
        BY DEF PgInv, PgJobs, Postgres!TypeOK
      <4> QED
        BY <1>1, <1>3, <2>2, <2>3, <2>10, <4>1 DEF PgAt
    <3> QED
      BY <3>1, <3>2 DEF PgJobs
  <2> QED
    BY <2>5, <2>6, <2>7, <2>8, <2>9, <2>11, <2>12 DEF PgInv
<1> QED
  BY <1>2, <1>3 DEF Postgres!Initdb

\* The new directory is complete and gets the marker of the preparation.
LEMMA PgMarkPrepared ==
  ASSUME CommandsAssumption, PgInv, NEW w \in Postgres!Who, Postgres!MarkPrepared(w)
  PROVE  PgInv'
<1> DEFINE new == job[w].new
           old == job[w].old
<1>1. /\ job[w].pc = "prepared" /\ new \in Version /\ old \in Version /\ dir[new] = "broken"
      /\ prepared' = prepared \cup {new} /\ dir' = [dir EXCEPT ![new] = "fresh"]
      /\ Postgres!GoTo(w, "ready") /\ "ready" \in Postgres!Phase
      /\ UNCHANGED <<data, migrated_from, migrated_to, stopper, package, role, auto, running,
                     auto_done, committed, left>>
  BY DEF Postgres!MarkPrepared, Postgres!service, PgInv, PgJobs, PgAt, Postgres!TypeOK, Postgres!Phase
<1>2. /\ job' \in [Postgres!Who -> PgJob] /\ job'[w].pc = "ready"
      /\ job'[w].new = new /\ job'[w].old = old
      /\ \A x \in Postgres!Who \ {w} : job'[x] = job[x]
  BY <1>1, PgGoTo DEF PgInv
<1>3. /\ dir' \in [Version -> Postgres!Content] /\ dir'[new] = "fresh"
      /\ \A u \in Version \ {new} : dir'[u] = dir[u]
  BY <1>1 DEF PgInv, Postgres!TypeOK, Postgres!Content
<1>4. PgCurrent' = PgCurrent
  BY <1>1, <1>3 DEF PgCurrent
<1>5. Postgres!TypeOK'
  BY <1>1, <1>2, <1>3 DEF PgInv, Postgres!TypeOK, PgJob
<1>6. PgOne'
  BY <1>1, <1>4 DEF PgInv, PgOne
<1>7. PgLinks'
  <2>1. ASSUME NEW o \in Version, NEW n \in Version, migrated_to[o] = n
        PROVE  o # new /\ n # new
    BY <1>1, <2>1 DEF PgInv, PgLinks
  <2>2. \A u \in Version : migrated_to[u] # new
    BY <1>1, <2>1
  <2> QED
    BY <1>1, <1>3, <1>4, <2>1, <2>2 DEF PgInv, PgLinks
<1>8. PgMarkers'
  BY <1>1, <1>3 DEF PgInv, PgMarkers
<1>9. PgRole'
  <2>1. role \in Version
    BY DEF PgInv, Postgres!TypeOK
  <2> QED
    BY <1>1, <1>3, <2>1 DEF PgInv, PgRole, Postgres!OldDirs
<1>10. PgManual' /\ PgAuto'
  BY <1>1, <1>2, PgWho DEF PgInv, PgManual, PgAuto, PgBusy
<1>11. PgAlone'
  BY <1>1, <1>2, PgAloneMoves DEF PgOwn
<1>12. PgJobs'
  <2>1. PgAt(job[w])'
    BY <1>1, <1>2, <1>3 DEF PgInv, PgJobs, PgAt, PgBusy
  <2>2. ASSUME NEW x \in Postgres!Who \ {w}
        PROVE  PgAt(job[x])'
    <3>1. job[x].new \in Version /\ job[x].old \in Version /\ PgAt(job[x])
      BY DEF PgInv, PgJobs, Postgres!TypeOK
    <3>2. job[x].pc # "prepared"
      BY <1>1 DEF PgInv, PgAlone
    <3> QED
      BY <1>1, <1>2, <1>3, <3>1, <3>2 DEF PgAt
  <2> QED
    BY <2>1, <2>2 DEF PgJobs
<1> QED
  BY <1>5, <1>6, <1>7, <1>8, <1>9, <1>10, <1>11, <1>12 DEF PgInv

\* pg_upgrade begins: from here on, the upgrade is on its own.
LEMMA PgStartCopy ==
  ASSUME CommandsAssumption, PgInv, NEW w \in Postgres!Who, Postgres!StartPgUpgrade(w)
  PROVE  PgInv'
<1> DEFINE new == job[w].new
           old == job[w].old
<1>1. /\ job[w].pc = "pg_upgrade" /\ new \in Version /\ old \in Version
      /\ UNCHANGED <<data, prepared, migrated_from, migrated_to, stopper, package, role, auto, running,
                     auto_done, committed, left>>
  BY DEF Postgres!StartPgUpgrade, Postgres!markers, Postgres!service, PgInv, Postgres!TypeOK
<1>2. CASE Postgres!Fail(w) /\ UNCHANGED dir
  BY <1>1, <1>2, PgEnds DEF PgInv, Postgres!TypeOK
<1>3. CASE /\ running = 0 /\ \A x \in Postgres!Who : job[x].pc # "copy"
           /\ dir[new] = "fresh" /\ dir' = [dir EXCEPT ![new] = "partial"]
           /\ Postgres!GoTo(w, "copy")
  <2>1. "copy" \in Postgres!Phase
    BY DEF Postgres!Phase
  <2>2. /\ job' \in [Postgres!Who -> PgJob] /\ job'[w].pc = "copy"
        /\ job'[w].new = new /\ job'[w].old = old
        /\ \A x \in Postgres!Who \ {w} : job'[x] = job[x]
    BY <1>3, <2>1, PgGoTo DEF PgInv
  <2>3. /\ dir' \in [Version -> Postgres!Content] /\ dir'[new] = "partial"
        /\ \A u \in Version \ {new} : dir'[u] = dir[u]
    BY <1>1, <1>3 DEF PgInv, Postgres!TypeOK, Postgres!Content
  <2>4. PgCurrent' = PgCurrent
    BY <1>1, <1>3, <2>3 DEF PgCurrent
  <2>5. Postgres!TypeOK'
    BY <1>1, <2>2, <2>3 DEF PgInv, Postgres!TypeOK, PgJob
  <2>6. PgOne'
    BY <1>1, <2>4 DEF PgInv, PgOne
  <2>7. new \in prepared /\ \A u \in Version : migrated_to[u] # new
    BY <1>1, <1>3 DEF PgInv, PgMarkers, PgLinks
  <2>8. PgLinks' /\ PgMarkers'
    BY <1>1, <1>3, <2>3, <2>4, <2>7 DEF PgInv, PgLinks, PgMarkers
  <2>9. PgRole'
    <3>1. role \in Version
      BY DEF PgInv, Postgres!TypeOK
    <3> QED
      BY <1>1, <1>3, <2>3, <3>1 DEF PgInv, PgRole, Postgres!OldDirs
  <2>10. PgManual' /\ PgAuto'
    BY <1>1, <2>2, PgWho DEF PgInv, PgManual, PgAuto, PgBusy
  <2>11. \A x \in Postgres!Who : job[x].pc \notin PgOwn
    <3>1. ASSUME NEW x \in Postgres!Who, job[x].pc \in PgOwn
          PROVE  FALSE
      <4>1. job[x].new = new /\ job[x].old \in Version
        BY <1>1, <3>1, PgSame DEF PgBusy, PgOwn, PgInv, Postgres!TypeOK
      <4> QED
        BY <1>3, <2>7, <3>1, <4>1 DEF PgInv, PgJobs, PgAt, PgOwn
    <3> QED
      BY <3>1
  <2>12. PgAlone'
    BY <1>1, <2>2, <2>11 DEF PgInv, PgAlone, PgOwn
  <2>13. PgJobs'
    <3>1. PgAt(job[w])'
      <4>1. migrated_to[old] = 0 /\ old \in stopper /\ dir[old] = "full" /\ old \notin prepared
            /\ old < new
        BY <1>1, <2>7 DEF PgInv, PgJobs, PgAt, PgBusy
      <4> QED
        BY <1>1, <1>3, <2>2, <2>3, <2>7, <4>1 DEF PgAt, PgBusy
    <3>2. ASSUME NEW x \in Postgres!Who \ {w}
          PROVE  PgAt(job[x])'
      <4>1. job[x].new \in Version /\ job[x].old \in Version /\ PgAt(job[x])
        BY DEF PgInv, PgJobs, Postgres!TypeOK
      <4> QED
        BY <1>1, <1>3, <2>2, <2>3, <2>11, <4>1 DEF PgAt, PgOwn
    <3> QED
      BY <3>1, <3>2 DEF PgJobs
  <2> QED
    BY <2>5, <2>6, <2>8, <2>9, <2>10, <2>12, <2>13 DEF PgInv
<1> QED
  BY <1>2, <1>3 DEF Postgres!StartPgUpgrade

\* What an upgrade that is on its own may rely on.
LEMMA PgOwns ==
  ASSUME CommandsAssumption, PgInv, NEW w \in Postgres!Who, job[w].pc \in {"copy", "from", "to"}
  PROVE  /\ job[w].new \in Version /\ job[w].old \in Version
         /\ job[w].old \in PgCurrent /\ job[w].new \notin PgCurrent
         /\ job[w].new # job[w].old /\ data[job[w].old] = committed
         /\ running = 0 /\ job[w].new \in prepared
         /\ \A u \in Version : migrated_to[u] \notin prepared /\ migrated_to[u] # job[w].new
         /\ \A x \in Postgres!Who \ {w} : job[x].pc \notin PgOwn
<1>1. /\ job[w].new \in Version /\ job[w].old \in Version /\ Version \subseteq Nat
      /\ prepared \subseteq Version
  BY PgVersions DEF PgInv, Postgres!TypeOK
<1>2. job[w].old \in PgCurrent /\ job[w].new \notin PgCurrent /\ job[w].old < job[w].new
  BY <1>1 DEF PgInv, PgJobs, PgAt, PgBusy, PgCurrent
<1>3. ASSUME NEW u \in Version, migrated_to[u] \in prepared
      PROVE  FALSE
  <2>1. migrated_to[u] \in Version
    BY <1>1, <1>3
  <2>2. PgCurrent = {}
    BY <1>3, <2>1 DEF PgInv, PgLinks
  <2> QED
    BY <1>2, <2>2
<1>4. data[job[w].old] = committed
  BY <1>2 DEF PgInv, PgOne
<1>5. /\ running = 0 /\ job[w].new \in prepared
      /\ \A u \in Version : migrated_to[u] # job[w].new
  BY DEF PgInv, PgJobs, PgAt
<1>6. \A x \in Postgres!Who \ {w} : job[x].pc \notin PgOwn
  BY DEF PgInv, PgAlone, PgOwn
<1> QED
  BY <1>1, <1>2, <1>3, <1>4, <1>5, <1>6

\* pg_upgrade has copied the data.
LEMMA PgCopied ==
  ASSUME CommandsAssumption, PgInv, NEW w \in Postgres!Who, Postgres!PgUpgrade(w)
  PROVE  PgInv'
<1> DEFINE new == job[w].new
           old == job[w].old
<1>1. /\ job[w].pc = "copy" /\ new \in Version /\ old \in Version
      /\ dir' = [dir EXCEPT ![new] = "full"] /\ data' = [data EXCEPT ![new] = data[old]]
      /\ Postgres!GoTo(w, "from") /\ "from" \in Postgres!Phase
      /\ UNCHANGED <<prepared, migrated_from, migrated_to, stopper, package, role, auto, running,
                     auto_done, committed, left>>
  BY DEF Postgres!PgUpgrade, Postgres!markers, Postgres!service, PgInv, Postgres!TypeOK, Postgres!Phase
<1>2. /\ job' \in [Postgres!Who -> PgJob] /\ job'[w].pc = "from"
      /\ job'[w].new = new /\ job'[w].old = old
      /\ \A x \in Postgres!Who \ {w} : job'[x] = job[x]
  BY <1>1, PgGoTo DEF PgInv
<1>3. /\ old \in PgCurrent /\ new \notin PgCurrent /\ new # old /\ data[old] = committed
      /\ running = 0 /\ new \in prepared /\ dir[new] = "partial"
      /\ \A u \in Version : migrated_to[u] \notin prepared /\ migrated_to[u] # new
      /\ \A x \in Postgres!Who \ {w} : job[x].pc \notin PgOwn
  BY <1>1, PgOwns DEF PgInv, PgJobs, PgAt
<1>4. /\ dir' \in [Version -> Postgres!Content] /\ dir'[new] = "full"
      /\ \A u \in Version \ {new} : dir'[u] = dir[u]
      /\ data' \in [Version -> Nat] /\ data'[new] = committed
      /\ \A u \in Version \ {new} : data'[u] = data[u]
  BY <1>1, <1>3 DEF PgInv, Postgres!TypeOK, Postgres!Content
<1>5. PgCurrent' = PgCurrent
  BY <1>1, <1>3, <1>4 DEF PgCurrent
<1>6. Postgres!TypeOK'
  BY <1>1, <1>2, <1>4 DEF PgInv, Postgres!TypeOK, PgJob
<1>7. PgOne'
  BY <1>1, <1>3, <1>4, <1>5 DEF PgInv, PgOne, PgCurrent
<1>8. PgLinks' /\ PgMarkers'
  BY <1>1, <1>3, <1>4, <1>5 DEF PgInv, PgLinks, PgMarkers
<1>9. PgRole'
  <2>1. role \in Version
    BY DEF PgInv, Postgres!TypeOK
  <2> QED
    BY <1>1, <1>3, <1>4, <2>1 DEF PgInv, PgRole, Postgres!OldDirs
<1>10. PgManual' /\ PgAuto'
  BY <1>1, <1>2, PgWho DEF PgInv, PgManual, PgAuto, PgBusy
<1>11. PgAlone'
  BY <1>1, <1>2, PgAloneMoves DEF PgOwn
<1>12. PgJobs'
  <2>1. PgAt(job[w])'
    BY <1>1, <1>2, <1>3, <1>4 DEF PgInv, PgJobs, PgAt, PgBusy
  <2>2. ASSUME NEW x \in Postgres!Who \ {w}
        PROVE  PgAt(job[x])'
    <3>1. job[x].new \in Version /\ job[x].old \in Version /\ PgAt(job[x])
      BY DEF PgInv, PgJobs, Postgres!TypeOK
    <3> QED
      BY <1>1, <1>2, <1>3, <1>4, <3>1 DEF PgAt, PgOwn
  <2> QED
    BY <2>1, <2>2 DEF PgJobs
<1> QED
  BY <1>6, <1>7, <1>8, <1>9, <1>10, <1>11, <1>12 DEF PgInv

\* The new directory is marked as migrated.
LEMMA PgMarkFrom ==
  ASSUME CommandsAssumption, PgInv, NEW w \in Postgres!Who, Postgres!Mark(w), job[w].pc = "from"
  PROVE  PgInv'
<1> DEFINE new == job[w].new
           old == job[w].old
<1>1. /\ new \in Version /\ old \in Version /\ migrated_from' = migrated_from \cup {new}
      /\ Postgres!GoTo(w, "to") /\ "to" \in Postgres!Phase /\ dir[new] = "full"
      /\ UNCHANGED <<dir, data, prepared, migrated_to, stopper, package, role, auto, running,
                     auto_done, committed, left>>
  BY DEF Postgres!Mark, Postgres!After, Postgres!service, PgInv, PgJobs, PgAt, Postgres!TypeOK,
         Postgres!Phase
<1>2. /\ job' \in [Postgres!Who -> PgJob] /\ job'[w].pc = "to"
      /\ job'[w].new = new /\ job'[w].old = old
      /\ \A x \in Postgres!Who \ {w} : job'[x] = job[x]
  BY <1>1, PgGoTo DEF PgInv
<1>3. PgCurrent' = PgCurrent
  BY <1>1 DEF PgCurrent
<1>4. Postgres!TypeOK'
  BY <1>1, <1>2 DEF PgInv, Postgres!TypeOK, PgJob
<1>5. PgOne' /\ PgLinks' /\ PgMarkers' /\ PgRole'
  BY <1>1, <1>3 DEF PgInv, PgOne, PgLinks, PgMarkers, PgRole, Postgres!OldDirs
<1>6. PgManual' /\ PgAuto'
  BY <1>1, <1>2, PgWho DEF PgInv, PgManual, PgAuto, PgBusy
<1>7. PgAlone'
  BY <1>1, <1>2, PgAloneMoves DEF PgOwn
<1>8. PgJobs'
  <2>1. PgAt(job[w])'
    BY <1>1, <1>2 DEF PgInv, PgJobs, PgAt, PgBusy
  <2> QED
    BY <1>1, <1>2, <2>1, PgRest DEF PgJobs
<1> QED
  BY <1>4, <1>5, <1>6, <1>7, <1>8 DEF PgInv

\* The old directory is linked to the new one: neither is to be served now.
LEMMA PgMarkTo ==
  ASSUME CommandsAssumption, PgInv, NEW w \in Postgres!Who, Postgres!Mark(w), job[w].pc = "to"
  PROVE  PgInv'
<1> DEFINE new == job[w].new
           old == job[w].old
<1>1. /\ new \in Version /\ old \in Version /\ migrated_to' = [migrated_to EXCEPT ![old] = new]
      /\ Postgres!GoTo(w, "unprepare") /\ "unprepare" \in Postgres!Phase
      /\ dir[new] = "full" /\ data[new] = committed
      /\ UNCHANGED <<dir, data, prepared, migrated_from, stopper, package, role, auto, running,
                     auto_done, committed, left>>
  BY DEF Postgres!Mark, Postgres!After, Postgres!service, PgInv, PgJobs, PgAt, Postgres!TypeOK,
         Postgres!Phase
<1>2. /\ job' \in [Postgres!Who -> PgJob] /\ job'[w].pc = "unprepare"
      /\ job'[w].new = new /\ job'[w].old = old
      /\ \A x \in Postgres!Who \ {w} : job'[x] = job[x]
  BY <1>1, PgGoTo DEF PgInv
<1>3. /\ old \in PgCurrent /\ new \notin PgCurrent /\ new # old /\ data[old] = committed
      /\ running = 0 /\ new \in prepared /\ old \notin prepared /\ dir[old] = "full"
      /\ \A u \in Version : migrated_to[u] \notin prepared /\ migrated_to[u] # new
      /\ \A x \in Postgres!Who \ {w} : job[x].pc \notin PgOwn
  BY PgOwns DEF PgCurrent
<1>4. /\ migrated_to' \in [Version -> Version \cup {0}] /\ migrated_to'[old] = new
      /\ \A u \in Version \ {old} : migrated_to'[u] = migrated_to[u]
  BY <1>1 DEF PgInv, Postgres!TypeOK
<1>5. 0 \notin Version
  BY PgVersions
<1>6. PgCurrent' = {}
  <2>1. \A u \in PgCurrent' : u \in PgCurrent /\ u # old
    BY <1>1, <1>4, <1>5 DEF PgCurrent
  <2> QED
    BY <1>3, <2>1 DEF PgInv, PgOne
<1>7. Postgres!TypeOK'
  BY <1>1, <1>2, <1>4 DEF PgInv, Postgres!TypeOK, PgJob
<1>8. PgOne'
  BY <1>1, <1>3, <1>6 DEF PgOne
<1>9. PgLinks'
  BY <1>1, <1>3, <1>4, <1>6 DEF PgInv, PgLinks
<1>10. PgMarkers' /\ PgRole'
  BY <1>1 DEF PgInv, PgMarkers, PgRole, Postgres!OldDirs
<1>11. PgManual' /\ PgAuto'
  BY <1>1, <1>2, PgWho DEF PgInv, PgManual, PgAuto, PgBusy
<1>12. PgAlone'
  BY <1>1, <1>2, PgAloneMoves DEF PgOwn
<1>13. PgJobs'
  <2>1. PgAt(job[w])'
    BY <1>1, <1>2, <1>3, <1>4 DEF PgInv, PgJobs, PgAt, PgBusy
  <2>2. ASSUME NEW x \in Postgres!Who \ {w}
        PROVE  PgAt(job[x])'
    <3>1. job[x].new \in Version /\ job[x].old \in Version /\ PgAt(job[x])
      BY DEF PgInv, PgJobs, Postgres!TypeOK
    <3>2. job[x].pc \in PgBusy => job[x].new = new
      BY PgSame DEF PgBusy
    <3> QED
      BY <1>1, <1>2, <1>3, <1>4, <1>5, <3>1, <3>2 DEF PgAt, PgOwn, PgBusy
  <2> QED
    BY <2>1, <2>2 DEF PgJobs
<1> QED
  BY <1>7, <1>8, <1>9, <1>10, <1>11, <1>12, <1>13 DEF PgInv

\* The new directory is no longer marked as prepared: it is the one to be served.
LEMMA PgMarkUnprepare ==
  ASSUME CommandsAssumption, PgInv, NEW w \in Postgres!Who, Postgres!Mark(w), job[w].pc = "unprepare"
  PROVE  PgInv'
<1> DEFINE new == job[w].new
           old == job[w].old
<1>1. /\ new \in Version /\ old \in Version /\ prepared' = prepared \ {new}
      /\ Postgres!GoTo(w, "unpackage") /\ "unpackage" \in Postgres!Phase
      /\ migrated_to[old] = new /\ new \in prepared
      /\ UNCHANGED <<dir, data, migrated_from, migrated_to, stopper, package, role, auto, running,
                     auto_done, committed, left>>
  BY DEF Postgres!Mark, Postgres!After, Postgres!service, PgInv, PgJobs, PgAt, Postgres!TypeOK,
         Postgres!Phase
<1>2. /\ job' \in [Postgres!Who -> PgJob] /\ job'[w].pc = "unpackage"
      /\ job'[w].new = new /\ job'[w].old = old
      /\ \A x \in Postgres!Who \ {w} : job'[x] = job[x]
  BY <1>1, PgGoTo DEF PgInv
<1>3. /\ PgCurrent = {} /\ data[new] = committed /\ dir[new] = "full"
      /\ \A u \in Version : migrated_to[u] \in prepared => u = old
  <2> HIDE DEF new, old
  <2>1. PgLinks
    BY DEF PgInv
  <2> QED
    BY <1>1, <2>1 DEF PgLinks
<1>4. running = 0
  BY <1>3 DEF PgInv, PgOne
<1>5. \A u \in PgCurrent' : u = new
  BY <1>1, <1>3 DEF PgCurrent
<1>6. Postgres!TypeOK'
  BY <1>1, <1>2 DEF PgInv, Postgres!TypeOK, PgJob
<1>7. PgOne'
  BY <1>1, <1>3, <1>4, <1>5 DEF PgOne
<1>8. PgLinks'
  BY <1>1, <1>3 DEF PgInv, PgLinks
<1>9. PgMarkers'
  BY <1>1, <1>3 DEF PgInv, PgMarkers
<1>10. PgRole'
  BY <1>1, <1>3 DEF PgInv, PgRole, Postgres!OldDirs
<1>11. PgManual' /\ PgAuto'
  BY <1>1, <1>2, PgWho DEF PgInv, PgManual, PgAuto, PgBusy
<1>12. PgAlone'
  BY <1>1, <1>2, PgAloneMoves DEF PgOwn
<1>13. PgJobs'
  <2>1. PgAt(job[w])'
    BY <1>1, <1>2, <1>3, PgVersions DEF PgInv, PgJobs, PgAt, PgBusy
  <2>2. ASSUME NEW x \in Postgres!Who \ {w}
        PROVE  PgAt(job[x])'
    <3>1. PgAt(job[x]) /\ job[x].pc \notin PgOwn
      BY DEF PgInv, PgJobs, PgAlone, PgOwn
    <3> QED
      BY <1>1, <1>2, <3>1 DEF PgAt, PgOwn
  <2> QED
    BY <2>1, <2>2 DEF PgJobs
<1> QED
  BY <1>6, <1>7, <1>8, <1>9, <1>10, <1>11, <1>12, <1>13 DEF PgInv

\* The old directory is given up for good.
LEMMA PgMarkUnpackage ==
  ASSUME CommandsAssumption, PgInv, NEW w \in Postgres!Who, Postgres!Mark(w), job[w].pc = "unpackage"
  PROVE  PgInv'
<1> DEFINE new == job[w].new
           old == job[w].old
<1>1. /\ new \in Version /\ old \in Version /\ package' = package \ {old} /\ old < new
      /\ Postgres!GoTo(w, "unstop") /\ "unstop" \in Postgres!Phase
      /\ dir[new] = "full" /\ new \notin prepared
      /\ UNCHANGED <<dir, data, prepared, migrated_from, migrated_to, stopper, role, auto, running,
                     auto_done, committed, left>>
  BY DEF Postgres!Mark, Postgres!After, Postgres!service, PgInv, PgJobs, PgAt, Postgres!TypeOK,
         Postgres!Phase, PgBusy
<1>2. /\ job' \in [Postgres!Who -> PgJob] /\ job'[w].pc = "unstop"
      /\ job'[w].new = new /\ job'[w].old = old
      /\ \A x \in Postgres!Who \ {w} : job'[x] = job[x]
  BY <1>1, PgGoTo DEF PgInv
<1>3. PgCurrent' = PgCurrent
  BY <1>1 DEF PgCurrent
<1>4. Postgres!TypeOK'
  BY <1>1, <1>2 DEF PgInv, Postgres!TypeOK, PgJob
<1>5. PgOne' /\ PgLinks' /\ PgMarkers'
  BY <1>1, <1>3 DEF PgInv, PgOne, PgLinks, PgMarkers
<1>6. dir[role] = "full" /\ role \notin prepared
  <2>1. role = new \/ role \in package
    BY PgWho DEF PgInv, PgManual, PgAuto, PgBusy
  <2>2. role \in Version
    BY DEF PgInv, Postgres!TypeOK
  <2> QED
    BY <1>1, <2>1, <2>2 DEF PgInv, PgMarkers
<1>7. PgRole'
  BY <1>1, <1>6 DEF PgRole
<1>8. PgManual' /\ PgAuto'
  <2>1. CASE w = "manual"
    <3>1. job'["auto"] = job["auto"] /\ job'["manual"].pc = "unstop"
      BY <1>2, <2>1, PgWho
    <3> QED
      BY <1>1, <3>1 DEF PgInv, PgManual, PgAuto, PgBusy
  <2>2. CASE w = "auto"
    <3>1. job["auto"].pc = "unpackage" /\ new = job["auto"].new
      BY <2>2
    <3>2. role = new
      BY <3>1 DEF PgInv, PgAuto
    <3>3. old # new
      <4> HIDE DEF old, new
      <4> QED
        BY <1>1, PgVersions
    <3>4. job'["manual"] = job["manual"] /\ job'["auto"].pc = "unstop" /\ job'["auto"].new = new
      BY <1>2, <2>2, PgWho
    <3> QED
      BY <1>1, <3>1, <3>2, <3>3, <3>4 DEF PgInv, PgManual, PgAuto
  <2> QED
    BY <2>1, <2>2, PgWho
<1>9. PgAlone'
  BY <1>1, <1>2, PgAloneMoves DEF PgOwn
<1>10. PgJobs'
  <2>1. PgAt(job[w])'
    BY <1>1, <1>2 DEF PgInv, PgJobs, PgAt, PgBusy
  <2> QED
    BY <1>1, <1>2, <2>1, PgRest DEF PgJobs
<1> QED
  BY <1>4, <1>5, <1>7, <1>8, <1>9, <1>10 DEF PgInv

\* The stopper of the old directory is removed.
LEMMA PgMarkUnstop ==
  ASSUME CommandsAssumption, PgInv, NEW w \in Postgres!Who, Postgres!Mark(w), job[w].pc = "unstop"
  PROVE  PgInv'
<1> DEFINE new == job[w].new
           old == job[w].old
<1>1. /\ new \in Version /\ old \in Version /\ stopper' = stopper \ {old} /\ migrated_to[old] # 0
      /\ Postgres!GoTo(w, "checksums") /\ "checksums" \in Postgres!Phase
      /\ UNCHANGED <<dir, data, prepared, migrated_from, migrated_to, package, role, auto, running,
                     auto_done, committed, left>>
  BY DEF Postgres!Mark, Postgres!After, Postgres!service, PgInv, PgJobs, PgAt, Postgres!TypeOK,
         Postgres!Phase
<1>2. /\ job' \in [Postgres!Who -> PgJob] /\ job'[w].pc = "checksums"
      /\ job'[w].new = new /\ job'[w].old = old
      /\ \A x \in Postgres!Who \ {w} : job'[x] = job[x]
  BY <1>1, PgGoTo DEF PgInv
<1>3. PgOne' /\ PgLinks' /\ PgMarkers'
  BY <1>1, PgQuiet
<1>4. Postgres!TypeOK' /\ PgRole'
  BY <1>1, <1>2 DEF PgInv, Postgres!TypeOK, PgJob, PgRole, Postgres!OldDirs
<1>5. PgManual' /\ PgAuto'
  BY <1>1, <1>2, PgWho DEF PgInv, PgManual, PgAuto, PgBusy
<1>6. PgAlone'
  BY <1>1, <1>2, PgAloneMoves DEF PgOwn
<1>7. PgJobs'
  <2>1. PgAt(job[w])'
    BY <1>1, <1>2 DEF PgInv, PgJobs, PgAt, PgBusy
  <2>2. ASSUME NEW x \in Postgres!Who \ {w}
        PROVE  PgAt(job[x])'
    BY <1>1, <1>2 DEF PgInv, PgJobs, PgAt
  <2> QED
    BY <2>1, <2>2 DEF PgJobs
<1> QED
  BY <1>3, <1>4, <1>5, <1>6, <1>7 DEF PgInv

\* A command is done.
LEMMA PgDone ==
  ASSUME CommandsAssumption, PgInv, NEW w \in Postgres!Who, Postgres!Checksums(w)
  PROVE  PgInv'
<1>1. /\ job[w].pc = "checksums" /\ Postgres!Fail(w) /\ auto_done' = (auto_done \/ w = "auto")
      /\ UNCHANGED <<dir, data, prepared, migrated_from, migrated_to, stopper, package, role, auto,
                     running, committed, left>>
  BY DEF Postgres!Checksums, Postgres!markers
<1>2. /\ job' \in [Postgres!Who -> PgJob] /\ job'[w].pc = "idle"
      /\ \A x \in Postgres!Who \ {w} : job'[x] = job[x]
  BY <1>1, PgFail DEF PgInv
<1>3. auto_done' \in BOOLEAN /\ (auto_done' => auto_done \/ w = "auto")
  BY <1>1 DEF PgInv, Postgres!TypeOK
<1>4. PgOne' /\ PgLinks' /\ PgMarkers'
  BY <1>1, PgQuiet
<1>5. Postgres!TypeOK'
  BY <1>1, <1>2, <1>3 DEF PgInv, Postgres!TypeOK, PgJob
<1>6. PgRole'
  <2>1. w = "auto" => dir[role] = "full" /\ role \notin prepared
    BY <1>1 DEF PgInv, PgAuto, PgJobs, PgAt
  <2> QED
    BY <1>1, <1>3, <2>1 DEF PgInv, PgRole, Postgres!OldDirs
<1>7. PgManual' /\ PgAuto'
  BY <1>1, <1>2, PgWho DEF PgInv, PgManual, PgAuto, PgBusy
<1>8. PgAlone'
  BY <1>2, PgAloneMoves DEF PgOwn
<1>9. PgJobs'
  <2>1. PgAt(job[w])'
    BY <1>2 DEF PgAt, PgBusy
  <2> QED
    BY <1>1, <1>2, <2>1, PgRest DEF PgJobs
<1> QED
  BY <1>4, <1>5, <1>6, <1>7, <1>8, <1>9 DEF PgInv

\* The markers, one after the other.
LEMMA PgMark ==
  ASSUME CommandsAssumption, PgInv, NEW w \in Postgres!Who, Postgres!Mark(w)
  PROVE  PgInv'
<1>1. job[w].pc \in {"from", "to", "unprepare", "unpackage", "unstop"}
  BY DEF Postgres!Mark
<1> QED
  BY <1>1, PgMarkFrom, PgMarkTo, PgMarkUnprepare, PgMarkUnpackage, PgMarkUnstop

\* The power fails.
LEMMA PgPowerFailure == ASSUME CommandsAssumption, PgInv, Postgres!PowerFailure PROVE PgInv'
<1>1. /\ running' = 0 /\ auto_done' = FALSE /\ Postgres!Use("crashes")
      /\ UNCHANGED <<dir, data, prepared, migrated_from, migrated_to, stopper, package, role, auto,
                     committed>>
  BY DEF Postgres!PowerFailure, Postgres!markers
<1>2. job' \in [Postgres!Who -> PgJob] /\ \A w \in Postgres!Who : job'[w].pc = "idle"
  BY PgIdle DEF Postgres!PowerFailure
<1>3. PgOne' /\ PgLinks' /\ PgMarkers'
  BY <1>1, PgQuiet
<1>4. Postgres!TypeOK' /\ PgRole'
  BY <1>1, <1>2, PgUse DEF PgInv, Postgres!TypeOK, PgJob, PgRole, Postgres!OldDirs
<1>5. PgManual' /\ PgAuto' /\ PgAlone' /\ PgJobs'
  BY <1>2, PgWho DEF PgManual, PgAuto, PgAlone, PgJobs, PgAt, PgBusy, PgOwn
<1> QED
  BY <1>3, <1>4, <1>5 DEF PgInv

\* The administrator starts a command.
LEMMA PgStartCommand ==
  ASSUME CommandsAssumption, PgInv, NEW v \in Version, Postgres!StartCommand(v)
  PROVE  PgInv'
<1> DEFINE new == [Postgres!Idle EXCEPT !.pc = "find", !.new = v]
<1>1. /\ job' = [job EXCEPT !["manual"] = new] /\ Postgres!Use("commands")
      /\ v = role \/ (v > role /\ role \in package)
      /\ UNCHANGED <<dir, data, prepared, migrated_from, migrated_to, stopper, package, role, auto,
                     running, auto_done, committed>>
  BY DEF Postgres!StartCommand, Postgres!Quiet, Postgres!markers, Postgres!service
<1>2. new \in PgJob /\ new.pc = "find" /\ new.new = v
  BY PgVersions DEF Postgres!Idle, PgJob, Postgres!Phase
<1> HIDE DEF new
<1>3. /\ job' \in [Postgres!Who -> PgJob] /\ job'["manual"] = new
      /\ \A x \in Postgres!Who \ {"manual"} : job'[x] = job[x]
  BY <1>1, <1>2, PgMoves, PgWho DEF PgInv
<1>4. PgOne' /\ PgLinks' /\ PgMarkers'
  BY <1>1, PgQuiet
<1>5. Postgres!TypeOK' /\ PgRole'
  BY <1>1, <1>3, PgUse DEF PgInv, Postgres!TypeOK, PgJob, PgRole, Postgres!OldDirs
<1>6. PgManual' /\ PgAuto'
  BY <1>1, <1>2, <1>3, PgWho DEF PgInv, PgManual, PgAuto, PgBusy
<1>7. PgAlone'
  BY <1>2, <1>3, PgAloneMoves, PgWho DEF PgOwn
<1>8. PgJobs'
  <2>1. PgAt(job["manual"])'
    BY <1>2, <1>3 DEF PgAt, PgBusy
  <2> QED
    BY <1>1, <1>3, <2>1, PgRest, PgWho DEF PgJobs
<1> QED
  BY <1>4, <1>5, <1>6, <1>7, <1>8 DEF PgInv

\* While no command runs, nothing is relied on.
LEMMA PgNoCommand ==
  ASSUME PgInv, Postgres!NoCommand, UNCHANGED job
  PROVE  PgManual' /\ PgAuto' /\ PgAlone' /\ PgJobs'
BY PgWho DEF Postgres!NoCommand, PgManual, PgAuto, PgAlone, PgJobs, PgAt, PgBusy, PgOwn

\* The stopper file is removed by hand.
LEMMA PgRemoveStopper ==
  ASSUME CommandsAssumption, PgInv, NEW v \in Version, Postgres!RemoveStopper(v)
  PROVE  PgInv'
<1>1. /\ stopper' = stopper \ {v} /\ Postgres!NoCommand /\ Postgres!Use("repairs")
      /\ UNCHANGED <<dir, data, prepared, migrated_from, migrated_to, package, role, auto,
                     running, auto_done, job, committed>>
  BY DEF Postgres!RemoveStopper, Postgres!service
<1>2. PgOne' /\ PgLinks' /\ PgMarkers'
  BY <1>1, PgQuiet
<1>3. Postgres!TypeOK' /\ PgRole'
  BY <1>1, PgUse DEF PgInv, Postgres!TypeOK, PgRole, Postgres!OldDirs
<1> QED
  BY <1>1, <1>2, <1>3, PgNoCommand DEF PgInv

\* An unusable new directory is deleted.
LEMMA PgRemoveNewDir ==
  ASSUME CommandsAssumption, PgInv, NEW v \in Version, Postgres!RemoveNewDir(v)
  PROVE  PgInv'
<1>1. /\ Postgres!NoCommand /\ Postgres!Use("repairs")
      /\ dir[v] \in {"broken", "partial"} \/ (v \in prepared /\ \A u \in Version : migrated_to[u] # v)
      /\ prepared' = prepared \ {v} /\ migrated_from' = migrated_from \ {v}
      /\ package' = package \ {v}
      /\ UNCHANGED <<migrated_to, stopper, role, auto, running, auto_done, job, committed>>
  BY DEF Postgres!RemoveNewDir, Postgres!WithoutDir, Postgres!service
<1>2. /\ dir' \in [Version -> Postgres!Content] /\ dir'[v] \in {"absent", "empty"}
      /\ \A u \in Version \ {v} : dir'[u] = dir[u]
      /\ data' \in [Version -> Nat]
      /\ \A u \in Version \ {v} : data'[u] = data[u]
  BY DEF Postgres!RemoveNewDir, Postgres!WithoutDir, PgInv, Postgres!TypeOK, Postgres!Content
<1>3. v \notin PgCurrent /\ v \notin package /\ (dir[v] # "full" \/ v \in prepared)
  BY <1>1 DEF PgCurrent, PgInv, PgMarkers
<1>4. PgCurrent' = PgCurrent
  BY <1>1, <1>2, <1>3 DEF PgCurrent
<1>5. Postgres!TypeOK'
  BY <1>1, <1>2, PgUse DEF PgInv, Postgres!TypeOK
<1>6. PgOne'
  BY <1>1, <1>2, <1>3, <1>4 DEF PgInv, PgOne, PgCurrent
<1>7. PgLinks'
  <2>1. ASSUME NEW o \in Version, NEW n \in Version, migrated_to[o] = n
        PROVE  o # v /\ n # v
    BY <1>1, <1>3, <2>1 DEF PgInv, PgLinks
  <2> QED
    BY <1>1, <1>2, <1>4, <2>1 DEF PgInv, PgLinks
<1>8. PgMarkers'
  BY <1>1, <1>2 DEF PgInv, PgMarkers
<1>9. PgRole'
  <2>1. role \in Version /\ package' = package
    BY <1>1, <1>3 DEF PgInv, Postgres!TypeOK
  <2>2. dir'[role] # "full" \/ role \in prepared' => dir[role] # "full" \/ role \in prepared
    BY <1>1, <1>2, <1>3, <2>1
  <2> QED
    BY <1>1, <2>1, <2>2 DEF PgInv, PgRole, Postgres!OldDirs
<1> QED
  BY <1>1, <1>5, <1>6, <1>7, <1>8, <1>9, PgNoCommand DEF PgInv

\* The administrator goes back to an old version and gives up what was written since.
LEMMA PgGoBack ==
  ASSUME CommandsAssumption, PgInv, NEW o \in Version, NEW n \in Version, Postgres!GoBack(o, n)
  PROVE  PgInv'
<1>1. /\ migrated_to[o] = n /\ migrated_to[n] = 0 /\ Postgres!NoCommand /\ Postgres!Use("repairs")
      /\ prepared' = prepared \ {n} /\ migrated_from' = migrated_from \ {n}
      /\ package' = package \ {n} /\ role' = o /\ running' = 0 /\ auto_done' = FALSE
      /\ committed' = data[o]
      /\ UNCHANGED <<stopper, auto, job>>
  BY DEF Postgres!GoBack
<1>2. /\ dir[o] = "full" /\ o \notin prepared /\ dir[n] = "full" /\ n # o /\ 0 \notin Version
      /\ \A u \in Version : migrated_to[u] = n => u = o
  BY <1>1, PgVersions DEF PgInv, PgLinks
<1>3. /\ dir' \in [Version -> Postgres!Content] /\ dir'[n] = "absent"
      /\ \A u \in Version \ {n} : dir'[u] = dir[u]
      /\ data' \in [Version -> Nat]
      /\ \A u \in Version \ {n} : data'[u] = data[u]
      /\ migrated_to' \in [Version -> Version \cup {0}] /\ migrated_to'[o] = 0
      /\ \A u \in Version \ {o} : migrated_to'[u] = migrated_to[u]
  BY DEF Postgres!GoBack, PgInv, Postgres!TypeOK, Postgres!Content
<1>4. PgCurrent \subseteq {n}
  <2>1. CASE n \in prepared
    BY <1>1, <2>1 DEF PgInv, PgLinks
  <2>2. CASE n \notin prepared
    <3>1. n \in PgCurrent
      BY <1>1, <1>2, <2>2 DEF PgCurrent
    <3> QED
      BY <3>1 DEF PgInv, PgOne
  <2> QED
    BY <2>1, <2>2
<1>5. PgCurrent' = {o}
  <2>1. o \in PgCurrent'
    BY <1>1, <1>2, <1>3 DEF PgCurrent
  <2>2. ASSUME NEW u \in PgCurrent', u # o
        PROVE  FALSE
    <3>1. u # n
      BY <1>3, <2>2 DEF PgCurrent
    <3>2. u \in PgCurrent
      BY <1>1, <1>3, <2>2, <3>1 DEF PgCurrent
    <3> QED
      BY <1>4, <3>1, <3>2
  <2> QED
    BY <2>1, <2>2
<1>6. Postgres!TypeOK'
  <2>1. committed' \in Nat
    BY <1>1 DEF PgInv, Postgres!TypeOK
  <2> QED
    BY <1>1, <1>3, <2>1, PgUse DEF PgInv, Postgres!TypeOK
<1>7. PgOne'
  BY <1>1, <1>2, <1>3, <1>5 DEF PgOne
<1>8. PgLinks'
  <2>1. ASSUME NEW p \in Version, NEW q \in Version, migrated_to'[p] = q
        PROVE  p # o /\ p # n /\ q # n /\ q \notin prepared /\ migrated_to[p] = q
    <3>1. p # o /\ p # n /\ migrated_to[p] = q
      BY <1>1, <1>2, <1>3, <2>1
    <3>2. q # n
      BY <1>2, <3>1
    <3>3. ASSUME q \in prepared
          PROVE  FALSE
      <4>1. PgCurrent = {} /\ \A u \in Version : migrated_to[u] \in prepared => u = p
        BY <3>1, <3>3 DEF PgInv, PgLinks
      <4>2. n \in prepared
        BY <1>1, <1>2, <4>1 DEF PgCurrent
      <4> QED
        BY <1>1, <3>1, <4>1, <4>2
    <3> QED
      BY <3>1, <3>2, <3>3
  <2> QED
    BY <1>1, <1>2, <1>3, <2>1 DEF PgInv, PgLinks
<1>9. PgMarkers'
  BY <1>1, <1>3 DEF PgInv, PgMarkers
<1>10. PgRole'
  BY <1>1, <1>2, <1>3 DEF PgRole
<1> QED
  BY <1>1, <1>6, <1>7, <1>8, <1>9, <1>10, PgNoCommand DEF PgInv

\* The invariant of the upgrades is inductive.
LEMMA PgStep == CommandsAssumption /\ PgInv /\ [Postgres!Next]_(Postgres!vars) => PgInv'
<1> SUFFICES ASSUME CommandsAssumption, PgInv, [Postgres!Next]_(Postgres!vars)
             PROVE  PgInv'
  OBVIOUS
<1>1. ASSUME NEW w \in Postgres!Who, Postgres!StepFails(w)
      PROVE  PgInv'
  <2>1. /\ Postgres!Fail(w) /\ Postgres!Use("failures")
        /\ UNCHANGED <<dir, data, prepared, migrated_from, migrated_to, stopper, package, role, auto,
                       running, auto_done, committed>>
    BY <1>1 DEF Postgres!StepFails, Postgres!Quiet, Postgres!markers, Postgres!service
  <2>2. left' \in [writes : Nat, commands : Nat, failures : Nat, crashes : Nat, repairs : Nat]
    BY <2>1, PgUse DEF PgInv
  <2> QED
    BY <2>1, <2>2, PgEnds
<1>2. ASSUME NEW w \in Postgres!Who, Postgres!Step(w)
      PROVE  PgInv'
  BY <1>2, PgFindOld, PgChecks, PgInitdb, PgMarkPrepared, PgStartCopy, PgCopied, PgMark, PgDone
     DEF Postgres!Step
<1>3. ASSUME NEW v \in Version,
             \/ Postgres!SwitchRole(v) \/ Postgres!StartCommand(v) \/ Postgres!RemoveStopper(v)
             \/ Postgres!RemoveNewDir(v) \/ \E u \in Version : Postgres!GoBack(v, u)
      PROVE  PgInv'
  BY <1>3, PgSwitch, PgStartCommand, PgRemoveStopper, PgRemoveNewDir, PgGoBack
<1>4. CASE UNCHANGED Postgres!vars
  <2>1. UNCHANGED <<dir, data, prepared, migrated_from, migrated_to, stopper, package, role, auto,
                    running, auto_done, job, committed, left>>
    BY <1>4 DEF Postgres!vars, Postgres!markers, Postgres!service
  <2>2. PgOne' /\ PgLinks' /\ PgMarkers' /\ Postgres!TypeOK'
    BY <2>1, PgQuiet DEF PgInv, Postgres!TypeOK
  <2>3. PgRole' /\ PgManual' /\ PgAuto' /\ PgAlone' /\ PgJobs'
    BY <2>1 DEF PgInv, PgRole, PgManual, PgAuto, PgAlone, PgJobs, PgAt, Postgres!OldDirs
  <2> QED
    BY <2>2, <2>3 DEF PgInv
<1> QED
  BY <1>1, <1>2, <1>3, <1>4, PgWrite, PgStartService, PgStartAuto, PgPowerFailure DEF Postgres!Next

\* It implies what is promised of them.
LEMMA PgServes == PgInv => Postgres!ServesNewest
BY DEF PgInv, PgOne, Postgres!ServesNewest

\* A link leads to a newer version that is marked as migrated; the marker is there before it.
PgMigrated ==
  /\ \A o, n \in Version : migrated_to[o] = n => o < n /\ n \in migrated_from
  /\ \A w \in Postgres!Who : job[w].pc \in {"to", "unprepare"} => job[w].new \in migrated_from

\* What failures and crashes are used up is missing of the bounds.
PgLeft == \E b \in PostgresBounds : left.failures <= b.failures /\ left.crashes <= b.crashes

\* As long as nothing has failed, what is half done has a command that does the rest.
PgHalves ==
  /\ \A v \in Version : dir[v] = "broken" =>
       \E w \in Postgres!Who : job[w].pc = "prepared" /\ job[w].new = v
  /\ \A v \in package : migrated_to[v] # 0 =>
       \E w \in Postgres!Who : job[w].pc \in {"unprepare", "unpackage"} /\ job[w].old = v
  /\ \A v \in prepared \cap migrated_from :
       \E w \in Postgres!Who : job[w].pc \in {"to", "unprepare"} /\ job[w].new = v

PgCalm == PgMigrated /\ PgLeft /\ (Postgres!Unharmed => PgHalves)

\* Bounds only get lower, and no failure or crash goes without.
LEMMA PgUses ==
  ASSUME CommandsAssumption, Postgres!TypeOK,
         left' = left \/ \E b \in {"writes", "commands", "failures", "crashes", "repairs"} : Postgres!Use(b)
  PROVE  /\ left'.failures \in Nat /\ left'.failures <= left.failures
         /\ left'.crashes \in Nat /\ left'.crashes <= left.crashes
         /\ Postgres!Use("failures") => left'.failures < left.failures
         /\ Postgres!Use("crashes") => left'.crashes < left.crashes
BY DEF Postgres!TypeOK, Postgres!Use

\* So what is missing of the bounds is what has been used up.
LEMMA PgLeftStep ==
  ASSUME CommandsAssumption, Postgres!TypeOK, PgLeft,
         left' = left \/ \E b \in {"writes", "commands", "failures", "crashes", "repairs"} : Postgres!Use(b)
  PROVE  /\ PgLeft' /\ (Postgres!Unharmed' => Postgres!Unharmed)
         /\ Postgres!Use("failures") \/ Postgres!Use("crashes") => ~Postgres!Unharmed'
<1>1. PICK b \in PostgresBounds : left.failures <= b.failures /\ left.crashes <= b.crashes
  BY DEF PgLeft
<1>2. b.failures \in Nat /\ b.crashes \in Nat
  BY DEF CommandsAssumption, Postgres!PostgresAssumption
<1>3. left.failures \in Nat /\ left.crashes \in Nat
  BY DEF Postgres!TypeOK
<1>4. left'.failures <= b.failures /\ left'.crashes <= b.crashes
  BY <1>1, <1>2, <1>3, PgUses
<1>5. PgLeft'
  BY <1>4 DEF PgLeft
<1>6. ASSUME Postgres!Unharmed'
      PROVE  /\ Postgres!Unharmed /\ ~Postgres!Use("failures") /\ ~Postgres!Use("crashes")
  <2>1. left'.failures = b.failures /\ left'.crashes = b.crashes
    BY <1>6 DEF Postgres!Unharmed
  <2>2. left.failures = left'.failures /\ left.crashes = left'.crashes
    BY <1>1, <1>2, <1>3, <2>1, PgUses
  <2>3. Postgres!Unharmed
    BY <1>6, <2>2 DEF Postgres!Unharmed
  <2> QED
    BY <1>3, <2>2, <2>3, PgUses
<1> QED
  BY <1>5, <1>6

\* Of most steps, what is half done and who does the rest is not touched.
LEMMA PgCalmQuiet ==
  ASSUME CommandsAssumption, PgInv, PgCalm, UNCHANGED <<migrated_from, migrated_to>>,
         left' = left \/ \E b \in {"writes", "commands", "failures", "crashes", "repairs"} : Postgres!Use(b),
         \A v \in Version : dir'[v] = "broken" => dir[v] = "broken",
         prepared' \subseteq prepared, package' \subseteq Version,
         \A v \in package' : v \in package \/ migrated_to[v] = 0,
         \A x \in Postgres!Who : job'[x].pc \in {"to", "unprepare"} => job'[x] = job[x],
         Postgres!Unharmed' => \A x \in Postgres!Who :
           job[x].pc \in {"prepared", "to", "unprepare", "unpackage"} => job'[x] = job[x]
  PROVE  PgCalm'
<1>1. PgLeft' /\ (Postgres!Unharmed' => Postgres!Unharmed)
  BY PgLeftStep DEF PgInv, PgCalm
<1>2. PgMigrated'
  BY DEF PgCalm, PgMigrated
<1>3. ASSUME Postgres!Unharmed'
      PROVE  PgHalves'
  <2>1. PgHalves /\ \A x \in Postgres!Who :
           job[x].pc \in {"prepared", "to", "unprepare", "unpackage"} => job'[x] = job[x]
    BY <1>1, <1>3 DEF PgCalm
  <2>2. ASSUME NEW v \in Version, dir'[v] = "broken"
        PROVE  \E w \in Postgres!Who : job'[w].pc = "prepared" /\ job'[w].new = v
    BY <2>1, <2>2 DEF PgHalves
  <2>3. ASSUME NEW v \in package', migrated_to[v] # 0
        PROVE  \E w \in Postgres!Who : job'[w].pc \in {"unprepare", "unpackage"} /\ job'[w].old = v
    <3>1. PICK w \in Postgres!Who : job[w].pc \in {"unprepare", "unpackage"} /\ job[w].old = v
      BY <2>1, <2>3 DEF PgHalves
    <3> QED
      BY <2>1, <3>1
  <2>4. ASSUME NEW v \in prepared' \cap migrated_from
        PROVE  \E w \in Postgres!Who : job'[w].pc \in {"to", "unprepare"} /\ job'[w].new = v
    <3>1. PICK w \in Postgres!Who : job[w].pc \in {"to", "unprepare"} /\ job[w].new = v
      BY <2>1, <2>4 DEF PgHalves
    <3> QED
      BY <2>1, <3>1
  <2> QED
    BY <2>2, <2>3, <2>4 DEF PgHalves
<1> QED
  BY <1>1, <1>2, <1>3 DEF PgCalm

\* In the beginning nothing is half done.
LEMMA PgCalmInit == CommandsAssumption /\ Postgres!Init => PgCalm
<1> SUFFICES ASSUME CommandsAssumption, Postgres!Init
             PROVE  PgCalm
  OBVIOUS
<1>1. PgMigrated
  BY PgVersions, PgIdle DEF Postgres!Init, PgMigrated
<1>2. PgLeft
  <2>1. left \in PostgresBounds /\ left.failures \in Nat /\ left.crashes \in Nat
    BY DEF Postgres!Init, CommandsAssumption, Postgres!PostgresAssumption
  <2> QED
    BY <2>1 DEF PgLeft
<1>3. PgHalves
  BY PgVersions DEF Postgres!Init, PgHalves
<1> QED
  BY <1>1, <1>2, <1>3 DEF PgCalm

\* The service, the administrator, and what is done by hand to no directory.
LEMMA PgCalmService ==
  ASSUME CommandsAssumption, PgInv, PgCalm,
         \/ Postgres!Write \/ Postgres!StartService \/ Postgres!StartAutoUpgrade \/ Postgres!PowerFailure
         \/ \E v \in Version : \/ Postgres!SwitchRole(v) \/ Postgres!StartCommand(v)
                               \/ Postgres!RemoveStopper(v)
  PROVE  PgCalm'
<1>1. CASE Postgres!Write
  BY <1>1, PgCalmQuiet DEF Postgres!Write, Postgres!markers, Postgres!service, PgInv, Postgres!TypeOK
<1>2. CASE Postgres!StartService
  <2>1. /\ role \in Version /\ migrated_to[role] = 0 /\ package' = package \cup {role}
        /\ UNCHANGED <<prepared, migrated_from, migrated_to, job, left>>
        /\ \A v \in Version : dir'[v] \in {dir[v], "full"}
    BY <1>2 DEF Postgres!StartService, Postgres!MayStart, Postgres!Unlocked, PgInv, Postgres!TypeOK
  <2> QED
    BY <2>1, PgCalmQuiet DEF PgInv, Postgres!TypeOK
<1>3. CASE Postgres!StartAutoUpgrade
  <2> DEFINE new == [Postgres!Idle EXCEPT !.pc = "find", !.new = role]
  <2>1. /\ job' = [job EXCEPT !["auto"] = new] /\ role \in Version /\ job["auto"].pc = "idle"
        /\ UNCHANGED <<dir, prepared, migrated_from, migrated_to, package, left>>
    BY <1>3 DEF Postgres!StartAutoUpgrade, Postgres!markers, Postgres!service, PgInv, Postgres!TypeOK
  <2>2. new \in PgJob /\ new.pc = "find"
    BY <2>1, PgVersions DEF Postgres!Idle, PgJob, Postgres!Phase
  <2> HIDE DEF new
  <2>3. job'["auto"] = new /\ \A x \in Postgres!Who \ {"auto"} : job'[x] = job[x]
    BY <2>1, <2>2, PgMoves, PgWho DEF PgInv
  <2> QED
    BY <2>1, <2>2, <2>3, PgCalmQuiet DEF PgInv, Postgres!TypeOK
<1>4. CASE Postgres!PowerFailure
  <2>1. /\ Postgres!Use("crashes") /\ \A w \in Postgres!Who : job'[w].pc = "idle"
        /\ UNCHANGED <<dir, prepared, migrated_from, migrated_to, package>>
    BY <1>4, PgIdle DEF Postgres!PowerFailure, Postgres!markers
  <2>2. ~Postgres!Unharmed'
    BY <2>1, PgLeftStep DEF PgInv, PgCalm
  <2> QED
    BY <2>1, <2>2, PgCalmQuiet DEF PgInv, Postgres!TypeOK
<1>5. ASSUME NEW v \in Version, Postgres!SwitchRole(v)
      PROVE  PgCalm'
  <2>1. /\ UNCHANGED <<prepared, migrated_from, migrated_to, package, job, left>>
        /\ \A u \in Version : dir'[u] \in {dir[u], "empty"}
    BY <1>5 DEF Postgres!SwitchRole, Postgres!markers, PgInv, Postgres!TypeOK
  <2> QED
    BY <2>1, PgCalmQuiet DEF PgInv, Postgres!TypeOK
<1>6. ASSUME NEW v \in Version, Postgres!StartCommand(v)
      PROVE  PgCalm'
  <2> DEFINE new == [Postgres!Idle EXCEPT !.pc = "find", !.new = v]
  <2>1. /\ job' = [job EXCEPT !["manual"] = new] /\ job["manual"].pc = "idle" /\ Postgres!Use("commands")
        /\ UNCHANGED <<dir, prepared, migrated_from, migrated_to, package>>
    BY <1>6 DEF Postgres!StartCommand, Postgres!Quiet, Postgres!markers
  <2>2. new \in PgJob /\ new.pc = "find"
    BY PgVersions DEF Postgres!Idle, PgJob, Postgres!Phase
  <2> HIDE DEF new
  <2>3. job'["manual"] = new /\ \A x \in Postgres!Who \ {"manual"} : job'[x] = job[x]
    BY <2>1, <2>2, PgMoves, PgWho DEF PgInv
  <2> QED
    BY <2>1, <2>2, <2>3, PgCalmQuiet DEF PgInv, Postgres!TypeOK
<1>7. ASSUME NEW v \in Version, Postgres!RemoveStopper(v)
      PROVE  PgCalm'
  BY <1>7, PgCalmQuiet DEF Postgres!RemoveStopper, PgInv, Postgres!TypeOK
<1> QED
  BY <1>1, <1>2, <1>3, <1>4, <1>5, <1>6, <1>7

\* A command that is not in the middle of what is half done goes on.
LEMMA PgCalmMoves ==
  ASSUME CommandsAssumption, PgInv, PgCalm, NEW w \in Postgres!Who,
         UNCHANGED <<prepared, migrated_from, migrated_to, package, left>>,
         \A v \in Version : dir'[v] = "broken" => dir[v] = "broken",
         \A x \in Postgres!Who \ {w} : job'[x] = job[x], job'[w].pc \notin {"to", "unprepare"},
         job[w].pc \notin {"prepared", "to", "unprepare", "unpackage"}
  PROVE  PgCalm'
BY PgCalmQuiet DEF PgInv, Postgres!TypeOK

\* The steps of a command but those that set or remove the markers.
LEMMA PgCalmSteps ==
  ASSUME CommandsAssumption, PgInv, PgCalm, NEW w \in Postgres!Who,
         \/ Postgres!FindOld(w) \/ Postgres!Prepare(w) \/ Postgres!Ready(w) \/ Postgres!StopService(w)
         \/ Postgres!WriteStopper(w) \/ Postgres!StartPgUpgrade(w) \/ Postgres!PgUpgrade(w)
         \/ Postgres!Checksums(w) \/ (Postgres!Mark(w) /\ job[w].pc = "unstop")
  PROVE  PgCalm'
<1> USE PgIdle
<1>j. job \in [Postgres!Who -> PgJob]
  BY DEF PgInv, Postgres!TypeOK, PgJob
<1>f. Postgres!Fail(w) => job'[w].pc = "idle" /\ \A x \in Postgres!Who \ {w} : job'[x] = job[x]
  BY PgFail DEF PgInv
<1>g. \A p \in {"ready", "initdb", "stop", "stopper", "pg_upgrade", "copy", "from", "checksums"} :
        Postgres!GoTo(w, p) => job'[w].pc = p /\ \A x \in Postgres!Who \ {w} : job'[x] = job[x]
  BY <1>j DEF Postgres!GoTo, PgJob
<1>1. CASE Postgres!FindOld(w)
  <2>1. \/ Postgres!Fail(w)
        \/ \E u \in Postgres!OldDirs(job[w].new) :
             job' = [job EXCEPT ![w].pc = "prepare", ![w].old = u]
    BY <1>1 DEF Postgres!FindOld
  <2>2. job'[w].pc \in {"idle", "prepare"} /\ \A x \in Postgres!Who \ {w} : job'[x] = job[x]
    BY <1>j, <1>f, <2>1 DEF PgJob
  <2>3. job[w].pc = "find" /\ UNCHANGED <<dir, prepared, migrated_from, migrated_to, package, left>>
    BY <1>1 DEF Postgres!FindOld, Postgres!markers
  <2> QED
    BY <2>2, <2>3, PgCalmMoves
<1>2. CASE Postgres!Prepare(w) \/ Postgres!Ready(w)
  <2>1. /\ job[w].pc \in {"prepare", "ready"}
        /\ UNCHANGED <<dir, prepared, migrated_from, migrated_to, package, left>>
    BY <1>2 DEF Postgres!Prepare, Postgres!Ready, Postgres!Quiet, Postgres!markers
  <2>2. Postgres!Fail(w) \/ \E p \in {"ready", "initdb", "stop"} : Postgres!GoTo(w, p)
    BY <1>2 DEF Postgres!Prepare, Postgres!Ready
  <2>3. job'[w].pc \notin {"to", "unprepare"} /\ \A x \in Postgres!Who \ {w} : job'[x] = job[x]
    BY <1>f, <1>g, <2>2
  <2> QED
    BY <2>1, <2>3, PgCalmMoves
<1>3. CASE Postgres!StopService(w) \/ Postgres!WriteStopper(w)
  <2>1. /\ job[w].pc \in {"stop", "stopper"}
        /\ UNCHANGED <<dir, prepared, migrated_from, migrated_to, package, left>>
    BY <1>3 DEF Postgres!StopService, Postgres!WriteStopper, Postgres!markers
  <2>2. Postgres!Fail(w) \/ \E p \in {"stopper", "pg_upgrade"} : Postgres!GoTo(w, p)
    BY <1>3 DEF Postgres!StopService, Postgres!WriteStopper
  <2>3. job'[w].pc \notin {"to", "unprepare"} /\ \A x \in Postgres!Who \ {w} : job'[x] = job[x]
    BY <1>f, <1>g, <2>2
  <2> QED
    BY <2>1, <2>3, PgCalmMoves
<1>4. CASE Postgres!StartPgUpgrade(w) \/ Postgres!PgUpgrade(w)
  <2>1. /\ job[w].pc \in {"pg_upgrade", "copy"}
        /\ UNCHANGED <<prepared, migrated_from, migrated_to, package, left>>
        /\ \A v \in Version : dir'[v] \in {dir[v], "partial", "full"}
    BY <1>4 DEF Postgres!StartPgUpgrade, Postgres!PgUpgrade, Postgres!markers, PgInv, Postgres!TypeOK
  <2>2. Postgres!Fail(w) \/ \E p \in {"copy", "from"} : Postgres!GoTo(w, p)
    BY <1>4 DEF Postgres!StartPgUpgrade, Postgres!PgUpgrade
  <2>3. job'[w].pc \notin {"to", "unprepare"} /\ \A x \in Postgres!Who \ {w} : job'[x] = job[x]
    BY <1>f, <1>g, <2>2
  <2> QED
    BY <2>1, <2>3, PgCalmMoves
<1>5. CASE Postgres!Checksums(w) \/ (Postgres!Mark(w) /\ job[w].pc = "unstop")
  <2>1. /\ job[w].pc \in {"checksums", "unstop"}
        /\ UNCHANGED <<dir, prepared, migrated_from, migrated_to, package, left>>
    BY <1>5 DEF Postgres!Checksums, Postgres!Mark, Postgres!markers
  <2>2. Postgres!Fail(w) \/ Postgres!GoTo(w, "checksums")
    BY <1>5 DEF Postgres!Checksums, Postgres!Mark, Postgres!After
  <2>3. job'[w].pc \notin {"to", "unprepare"} /\ \A x \in Postgres!Who \ {w} : job'[x] = job[x]
    BY <1>f, <1>g, <2>2
  <2> QED
    BY <2>1, <2>3, PgCalmMoves
<1> QED
  BY <1>1, <1>2, <1>3, <1>4, <1>5

\* A failure of a step leaves things half done, but then something has failed.
LEMMA PgCalmFails ==
  ASSUME CommandsAssumption, PgInv, PgCalm, NEW w \in Postgres!Who, Postgres!StepFails(w)
  PROVE  PgCalm'
<1>1. /\ Postgres!Fail(w) /\ Postgres!Use("failures")
      /\ UNCHANGED <<dir, prepared, migrated_from, migrated_to, package>>
  BY DEF Postgres!StepFails, Postgres!Quiet, Postgres!markers
<1>2. ~Postgres!Unharmed'
  BY <1>1, PgLeftStep DEF PgInv, PgCalm
<1>3. job'[w].pc = "idle" /\ \A x \in Postgres!Who \ {w} : job'[x] = job[x]
  BY <1>1, PgFail DEF PgInv
<1> QED
  BY <1>1, <1>2, <1>3, PgCalmQuiet DEF PgInv, Postgres!TypeOK

\* initdb begins to make a directory, and goes on to complete it.
LEMMA PgCalmInitdb ==
  ASSUME CommandsAssumption, PgInv, PgCalm, NEW w \in Postgres!Who,
         Postgres!Initdb(w) \/ Postgres!MarkPrepared(w)
  PROVE  PgCalm'
<1> DEFINE new == job[w].new
<1>1. /\ job[w].pc \in {"initdb", "prepared"} /\ new \in Version
      /\ UNCHANGED <<migrated_from, migrated_to, package, left>>
  BY DEF Postgres!Initdb, Postgres!MarkPrepared, Postgres!markers, PgInv, Postgres!TypeOK
<1>2. PgMigrated /\ PgLeft /\ (Postgres!Unharmed' => Postgres!Unharmed /\ PgHalves)
  BY <1>1 DEF PgCalm, Postgres!Unharmed
<1>3. PgLeft'
  BY <1>1, <1>2 DEF PgLeft
<1>4. CASE Postgres!Initdb(w) /\ Postgres!Fail(w) /\ UNCHANGED dir
  <2>1. job'[w].pc = "idle" /\ \A x \in Postgres!Who \ {w} : job'[x] = job[x]
    BY <1>4, PgFail DEF PgInv
  <2>2. UNCHANGED prepared /\ job[w].pc = "initdb"
    BY <1>4 DEF Postgres!Initdb, Postgres!markers
  <2> QED
    BY <1>1, <1>4, <2>1, <2>2, PgCalmMoves
<1>5. CASE Postgres!Initdb(w) /\ Postgres!GoTo(w, "prepared") /\ dir' = [dir EXCEPT ![new] = "broken"]
  <2>1. /\ job'[w].pc = "prepared" /\ job'[w].new = new
        /\ \A x \in Postgres!Who \ {w} : job'[x] = job[x]
    BY <1>5, PgGoTo DEF PgInv, Postgres!Phase
  <2>2. /\ \A v \in Version \ {new} : dir'[v] = dir[v]
        /\ UNCHANGED prepared /\ job[w].pc = "initdb"
    BY <1>5 DEF Postgres!Initdb, Postgres!markers, PgInv, Postgres!TypeOK
  <2>3. PgMigrated'
    BY <1>1, <1>2, <2>1 DEF PgMigrated
  <2>4. PgHalves => PgHalves'
    <3>1. SUFFICES ASSUME PgHalves PROVE PgHalves'
      OBVIOUS
    <3>2. \A x \in Postgres!Who : job[x].pc \in {"prepared", "to", "unprepare", "unpackage"} =>
            job'[x] = job[x]
      BY <2>1, <2>2
    <3>3. ASSUME NEW v \in Version, dir'[v] = "broken"
          PROVE  \E x \in Postgres!Who : job'[x].pc = "prepared" /\ job'[x].new = v
      <4>1. CASE v = new
        BY <2>1, <4>1
      <4>2. CASE v # new
        BY <2>2, <3>1, <3>2, <3>3, <4>2 DEF PgHalves
      <4> QED
        BY <4>1, <4>2
    <3>4. ASSUME NEW v \in package, migrated_to[v] # 0
          PROVE  \E x \in Postgres!Who : job'[x].pc \in {"unprepare", "unpackage"} /\ job'[x].old = v
      <4>1. PICK x \in Postgres!Who : job[x].pc \in {"unprepare", "unpackage"} /\ job[x].old = v
        BY <3>1, <3>4 DEF PgHalves
      <4> QED
        BY <3>2, <4>1
    <3>5. ASSUME NEW v \in prepared \cap migrated_from
          PROVE  \E x \in Postgres!Who : job'[x].pc \in {"to", "unprepare"} /\ job'[x].new = v
      <4>1. PICK x \in Postgres!Who : job[x].pc \in {"to", "unprepare"} /\ job[x].new = v
        BY <3>1, <3>5 DEF PgHalves
      <4> QED
        BY <3>2, <4>1
    <3> QED
      BY <1>1, <2>2, <3>3, <3>4, <3>5 DEF PgHalves
  <2> QED
    BY <1>2, <1>3, <2>3, <2>4 DEF PgCalm
<1>6. CASE Postgres!MarkPrepared(w)
  <2>1. /\ job'[w].pc = "ready" /\ job[w].pc = "prepared"
        /\ \A x \in Postgres!Who \ {w} : job'[x] = job[x]
    BY <1>6, PgGoTo DEF Postgres!MarkPrepared, PgInv, Postgres!Phase
  <2>2. /\ \A v \in Version \ {new} : dir'[v] = dir[v]
        /\ dir'[new] = "fresh" /\ prepared' = prepared \cup {new} /\ new \notin migrated_from
    BY <1>1, <1>6, <2>1 DEF Postgres!MarkPrepared, PgInv, Postgres!TypeOK, PgJobs, PgAt, PgMarkers
  <2>3. PgMigrated'
    BY <1>1, <1>2, <2>1 DEF PgMigrated
  <2>4. PgHalves => PgHalves'
    <3>1. SUFFICES ASSUME PgHalves PROVE PgHalves'
      OBVIOUS
    <3>2. \A x \in Postgres!Who : job[x].pc \in {"to", "unprepare", "unpackage"} => job'[x] = job[x]
      BY <2>1
    <3>3. ASSUME NEW v \in Version, dir'[v] = "broken"
          PROVE  \E x \in Postgres!Who : job'[x].pc = "prepared" /\ job'[x].new = v
      <4>1. v # new
        BY <2>2, <3>3
      <4>2. PICK x \in Postgres!Who : job[x].pc = "prepared" /\ job[x].new = v
        BY <2>2, <3>1, <3>3, <4>1 DEF PgHalves
      <4>3. x # w
        BY <4>1, <4>2
      <4> QED
        BY <2>1, <4>2, <4>3
    <3>4. ASSUME NEW v \in package, migrated_to[v] # 0
          PROVE  \E x \in Postgres!Who : job'[x].pc \in {"unprepare", "unpackage"} /\ job'[x].old = v
      <4>1. PICK x \in Postgres!Who : job[x].pc \in {"unprepare", "unpackage"} /\ job[x].old = v
        BY <3>1, <3>4 DEF PgHalves
      <4> QED
        BY <3>2, <4>1
    <3>5. ASSUME NEW v \in prepared' \cap migrated_from
          PROVE  \E x \in Postgres!Who : job'[x].pc \in {"to", "unprepare"} /\ job'[x].new = v
      <4>1. PICK x \in Postgres!Who : job[x].pc \in {"to", "unprepare"} /\ job[x].new = v
        BY <2>2, <3>1, <3>5 DEF PgHalves
      <4> QED
        BY <3>2, <4>1
    <3> QED
      BY <1>1, <3>3, <3>4, <3>5 DEF PgHalves
  <2> QED
    BY <1>2, <1>3, <2>3, <2>4 DEF PgCalm
<1> QED
  BY <1>4, <1>5, <1>6 DEF Postgres!Initdb

\* The markers after pg_upgrade: what is half done is done by the one that did the first half.
LEMMA PgCalmMark ==
  ASSUME CommandsAssumption, PgInv, PgCalm, NEW w \in Postgres!Who, Postgres!Mark(w),
         job[w].pc \in {"from", "to", "unprepare", "unpackage"}
  PROVE  PgCalm'
<1> DEFINE new == job[w].new
           old == job[w].old
<1>1. /\ new \in Version /\ old \in Version /\ UNCHANGED <<dir, left>>
      /\ Postgres!GoTo(w, Postgres!After(job[w].pc))
      /\ Postgres!After(job[w].pc) \in Postgres!Phase
  BY DEF Postgres!Mark, Postgres!After, Postgres!Phase, PgInv, Postgres!TypeOK
<1>2. /\ job'[w].pc = Postgres!After(job[w].pc) /\ job'[w].new = new /\ job'[w].old = old
      /\ \A x \in Postgres!Who \ {w} : job'[x] = job[x]
  BY <1>1, PgGoTo DEF PgInv
<1>3. PgMigrated /\ PgLeft /\ (Postgres!Unharmed => Postgres!Unharmed /\ PgHalves) /\ PgLeft'
      /\ (Postgres!Unharmed' => Postgres!Unharmed)
  BY <1>1 DEF PgCalm, PgLeft, Postgres!Unharmed
<1>4. job[w].pc # "unpackage" => \A x \in Postgres!Who \ {w} : job[x].pc \notin {"to", "unprepare"}
  BY DEF PgInv, PgAlone, PgOwn
<1>5. old < new
  BY DEF PgInv, PgJobs, PgAt, PgBusy
<1> HIDE DEF new, old
<1>6. CASE job[w].pc = "from"
  <2>1. /\ job'[w].pc = "to" /\ migrated_from' = migrated_from \cup {new}
        /\ UNCHANGED <<prepared, migrated_to, package>>
    BY <1>2, <1>6 DEF Postgres!Mark, Postgres!After, new, old
  <2>2. PgMigrated'
    BY <1>2, <1>3, <1>4, <1>6, <2>1 DEF PgMigrated
  <2>3. ASSUME PgHalves
        PROVE  PgHalves'
    BY <1>1, <1>2, <1>6, <2>1, <2>3 DEF PgHalves
  <2> QED
    BY <1>3, <2>2, <2>3 DEF PgCalm
<1>7. CASE job[w].pc = "to"
  <2>1. /\ job'[w].pc = "unprepare" /\ migrated_to' = [migrated_to EXCEPT ![old] = new]
        /\ UNCHANGED <<prepared, migrated_from, package>>
    BY <1>2, <1>7 DEF Postgres!Mark, Postgres!After, new, old
  <2>2. /\ migrated_to'[old] = new /\ \A u \in Version \ {old} : migrated_to'[u] = migrated_to[u]
        /\ new \in migrated_from
    BY <1>1, <1>3, <1>7, <2>1 DEF PgInv, Postgres!TypeOK, PgMigrated, new
  <2>3. PgMigrated'
    BY <1>2, <1>3, <1>4, <1>5, <1>7, <2>1, <2>2 DEF PgMigrated
  <2>4. package \subseteq Version
    BY DEF PgInv, Postgres!TypeOK
  <2>5. ASSUME PgHalves
        PROVE  PgHalves'
    <3>1. job[w].new = new
      BY DEF new
    <3>2. \A x \in Postgres!Who \ {w} : job'[x] = job[x]
      BY <1>2
    <3>3. ASSUME NEW v \in package, migrated_to'[v] # 0
          PROVE  \E x \in Postgres!Who : job'[x].pc \in {"unprepare", "unpackage"} /\ job'[x].old = v
      <4>1. CASE v = old
        BY <1>2, <2>1, <4>1
      <4>2. CASE v # old
        <5>1. PICK x \in Postgres!Who : job[x].pc \in {"unprepare", "unpackage"} /\ job[x].old = v
          BY <2>2, <2>4, <2>5, <3>3, <4>2 DEF PgHalves
        <5> QED
          BY <1>7, <3>2, <5>1
      <4> QED
        BY <4>1, <4>2
    <3>4. ASSUME NEW v \in prepared \cap migrated_from
          PROVE  \E x \in Postgres!Who : job'[x].pc \in {"to", "unprepare"} /\ job'[x].new = v
      <4>1. PICK x \in Postgres!Who : job[x].pc \in {"to", "unprepare"} /\ job[x].new = v
        BY <2>5, <3>4 DEF PgHalves
      <4> QED
        BY <1>2, <2>1, <3>1, <3>2, <4>1
    <3>5. ASSUME NEW v \in Version, dir[v] = "broken"
          PROVE  \E x \in Postgres!Who : job'[x].pc = "prepared" /\ job'[x].new = v
      <4>1. PICK x \in Postgres!Who : job[x].pc = "prepared" /\ job[x].new = v
        BY <2>5, <3>5 DEF PgHalves
      <4> QED
        BY <1>7, <3>2, <4>1
    <3> QED
      BY <1>1, <2>1, <3>3, <3>4, <3>5 DEF PgHalves
  <2> QED
    BY <1>3, <2>3, <2>5 DEF PgCalm
<1>8. CASE job[w].pc = "unprepare"
  <2>1. /\ job'[w].pc = "unpackage" /\ prepared' = prepared \ {new}
        /\ UNCHANGED <<migrated_from, migrated_to, package>>
    BY <1>2, <1>8 DEF Postgres!Mark, Postgres!After, new, old
  <2>2. PgMigrated'
    BY <1>2, <1>3, <1>4, <1>8, <2>1 DEF PgMigrated
  <2>3. ASSUME PgHalves
        PROVE  PgHalves'
    <3>1. job[w].new = new
      BY DEF new
    <3> QED
      BY <1>1, <1>2, <1>8, <2>1, <2>3, <3>1 DEF PgHalves, old
  <2> QED
    BY <1>3, <2>2, <2>3 DEF PgCalm
<1>9. CASE job[w].pc = "unpackage"
  <2>1. /\ job'[w].pc = "unstop" /\ package' = package \ {old}
        /\ UNCHANGED <<prepared, migrated_from, migrated_to>>
    BY <1>2, <1>9 DEF Postgres!Mark, Postgres!After, new, old
  <2>2. PgMigrated'
    BY <1>2, <1>3, <1>9, <2>1 DEF PgMigrated
  <2>3. ASSUME PgHalves
        PROVE  PgHalves'
    <3>1. job[w].old = old
      BY DEF old
    <3> QED
      BY <1>1, <1>2, <1>9, <2>1, <2>3, <3>1 DEF PgHalves
  <2> QED
    BY <1>3, <2>2, <2>3 DEF PgCalm
<1> QED
  BY <1>6, <1>7, <1>8, <1>9

\* Repairs by hand take away all that a new directory was to be.
LEMMA PgCalmRepairs ==
  ASSUME CommandsAssumption, PgInv, PgCalm, NEW v \in Version,
         Postgres!RemoveNewDir(v) \/ \E u \in Version : Postgres!GoBack(u, v)
  PROVE  PgCalm'
<1>1. /\ Postgres!NoCommand /\ Postgres!Use("repairs") /\ UNCHANGED job
      /\ prepared' = prepared \ {v} /\ migrated_from' = migrated_from \ {v}
      /\ package' = package \ {v} /\ dir'[v] \in {"absent", "empty"}
      /\ \A u \in Version \ {v} : dir'[u] = dir[u]
  BY DEF Postgres!RemoveNewDir, Postgres!WithoutDir, Postgres!GoBack, PgInv, Postgres!TypeOK
<1>2. PgLeft' /\ (Postgres!Unharmed' => Postgres!Unharmed)
  BY <1>1, PgLeftStep DEF PgInv, PgCalm
<1>3. \A u \in Version : migrated_to'[u] # v /\ migrated_to'[u] \in {migrated_to[u], 0}
  <2>1. CASE Postgres!RemoveNewDir(v)
    <3>1. /\ UNCHANGED migrated_to
          /\ dir[v] \in {"broken", "partial"} \/ \A u \in Version : migrated_to[u] # v
      BY <2>1 DEF Postgres!RemoveNewDir
    <3> QED
      BY <3>1 DEF PgInv, PgLinks
  <2>2. ASSUME NEW o \in Version, Postgres!GoBack(o, v)
        PROVE  \A u \in Version : migrated_to'[u] # v /\ migrated_to'[u] \in {migrated_to[u], 0}
    <3>1. /\ migrated_to[o] = v /\ migrated_to' = [migrated_to EXCEPT ![o] = 0]
          /\ migrated_to \in [Version -> Version \cup {0}]
      BY <2>2 DEF Postgres!GoBack, PgInv, Postgres!TypeOK
    <3>2. \A u \in Version : migrated_to[u] = v => u = o
      BY <3>1 DEF PgInv, PgLinks
    <3> QED
      BY <3>1, <3>2, PgVersions
  <2> QED
    BY <2>1, <2>2
<1>4. \A w \in Postgres!Who : job[w].pc = "idle"
  BY <1>1 DEF Postgres!NoCommand
<1>5. PgMigrated'
  BY <1>1, <1>3, <1>4, PgVersions DEF PgCalm, PgMigrated
<1>6. ASSUME PgHalves
      PROVE  PgHalves'
  <2>1. package \subseteq Version
    BY DEF PgInv, Postgres!TypeOK
  <2> QED
    BY <1>1, <1>3, <1>4, <1>6, <2>1 DEF PgHalves
<1> QED
  BY <1>2, <1>5, <1>6 DEF PgCalm

\* Together with the invariant, this is inductive, too.
LEMMA PgCalmStep == CommandsAssumption /\ PgInv /\ PgCalm /\ [Postgres!Next]_(Postgres!vars) => PgCalm'
<1> SUFFICES ASSUME CommandsAssumption, PgInv, PgCalm, [Postgres!Next]_(Postgres!vars)
             PROVE  PgCalm'
  OBVIOUS
<1>1. ASSUME NEW w \in Postgres!Who, Postgres!Step(w)
      PROVE  PgCalm'
  <2>1. Postgres!Mark(w) => job[w].pc \in {"from", "to", "unprepare", "unpackage", "unstop"}
    BY DEF Postgres!Mark
  <2> QED
    BY <1>1, <2>1, PgCalmSteps, PgCalmInitdb, PgCalmMark DEF Postgres!Step
<1>2. ASSUME NEW v \in Version, NEW u \in Version, Postgres!GoBack(v, u)
      PROVE  PgCalm'
  BY <1>2, PgCalmRepairs
<1>3. ASSUME NEW v \in Version, Postgres!RemoveNewDir(v)
      PROVE  PgCalm'
  BY <1>3, PgCalmRepairs
<1>4. CASE UNCHANGED Postgres!vars
  <2>1. UNCHANGED <<dir, prepared, migrated_from, migrated_to, package, job, left>>
    BY <1>4 DEF Postgres!vars, Postgres!markers
  <2> QED
    BY <2>1, PgCalmQuiet DEF PgInv, Postgres!TypeOK
<1> QED
  BY <1>1, <1>2, <1>3, <1>4, PgCalmService, PgCalmFails DEF Postgres!Next

\* It implies that nobody is locked out: while no command runs and nothing has failed, nothing is
\* half done.
LEMMA PgNotLockedOut == CommandsAssumption /\ PgInv /\ PgCalm => Postgres!NotLockedOut
<1> SUFFICES ASSUME CommandsAssumption, PgInv, PgCalm, Postgres!Unharmed, Postgres!NoCommand
             PROVE  \/ Postgres!Unlocked(role) /\ (Postgres!AutoUpgradeNeeded => Postgres!OldDirs(role) = {})
                    \/ Postgres!AutoUpgradeNeeded /\ Postgres!UpgradeWorks
                    \/ \E v \in Version : v > role /\ v \in migrated_from \ prepared
  BY DEF Postgres!NotLockedOut
<1>1. role \in Version /\ package \subseteq Version /\ dir[role] \in Postgres!Content
      /\ migrated_to[role] \in Version \cup {0}
  BY DEF PgInv, Postgres!TypeOK
<1>2. \A w \in Postgres!Who : job[w].pc = "idle"
  BY DEF Postgres!NoCommand
<1>3. /\ \A v \in Version : dir[v] # "broken"
      /\ \A v \in package : migrated_to[v] = 0
      /\ \A v \in prepared : v \notin migrated_from
  BY <1>2 DEF PgCalm, PgHalves
<1>4. package \subseteq PgCurrent /\ \A u, v \in package : u = v
  <2>1. package \subseteq PgCurrent
    BY <1>1, <1>3 DEF PgInv, PgMarkers, PgCurrent
  <2> QED
    BY <2>1 DEF PgInv, PgOne
<1>5. CASE role \in PgCurrent
  <2>1. Postgres!Unlocked(role)
    BY <1>5 DEF PgCurrent, Postgres!Unlocked
  <2>2. Postgres!OldDirs(role) = {}
    <3>1. ASSUME NEW u \in package, u < role
          PROVE  FALSE
      BY <1>1, <1>4, <1>5, <3>1, PgVersions DEF PgInv, PgOne
    <3> QED
      BY <3>1 DEF Postgres!OldDirs
  <2> QED
    BY <2>1, <2>2
<1>6. CASE migrated_to[role] # 0
  <2> DEFINE n == migrated_to[role]
  <2>1. n \in Version /\ role < n /\ n \in migrated_from
    BY <1>1, <1>6 DEF PgCalm, PgMigrated
  <2>2. n \notin prepared
    BY <1>3, <2>1
  <2> QED
    BY <1>1, <2>1, <2>2, PgVersions
<1>7. CASE dir[role] # "full" \/ role \in prepared
  <2>1. auto /\ ~auto_done /\ Postgres!OldDirs(role) # {}
    BY <1>7 DEF PgInv, PgRole
  <2>2. role \notin migrated_from \cup package
    BY <1>1, <1>3, <1>7 DEF PgInv, PgMarkers
  <2>3. dir[role] \in {"absent", "empty"} \/ role \in prepared
    BY <1>1, <1>3, <1>7 DEF PgInv, PgMarkers, Postgres!Content
  <2>4. PICK u \in package : u < role
    BY <2>1 DEF Postgres!OldDirs
  <2>5. Postgres!OldDirs(role) = {u} /\ migrated_to[u] = 0 /\ u \in Version
    BY <1>1, <1>3, <1>4, <2>4 DEF Postgres!OldDirs
  <2> QED
    BY <2>1, <2>2, <2>3, <2>5 DEF Postgres!AutoUpgradeNeeded, Postgres!UpgradeWorks
<1> QED
  BY <1>1, <1>5, <1>6, <1>7 DEF PgCurrent

---------------------------------------------------------------------------
(***************************************************************************)
(* Base images of VMs: what an update knows of the release that it has     *)
(* locked.                                                                 *)
(***************************************************************************)

ImagesRun == [pc : Images!Phase, release : Release \cup {Images!None}, old : SUBSET Release]

ImagesTypes ==
  /\ current \in Release /\ head \in Release \cup {Images!None, Images!Mixed}
  /\ snap \in [Release -> Release \cup {Images!None, Images!Mixed}]
  /\ protected \subseteq Release /\ clones \subseteq Release
  /\ locker \in Host \cup {Images!None} /\ run \in [Host -> ImagesRun]

ImagesKept ==
  /\ clones \subseteq protected /\ protected \subseteq Images!Snaps
  /\ \A r \in Images!Snaps : snap[r] = r

ImagesAlone == \A h \in Host :
  /\ run[h].pc # "idle" => run[h].release \in Release
  /\ run[h].pc \notin {"idle", "enter"} => locker = h
  /\ run[h].pc = "create" => head = run[h].release

ImagesInv == ImagesTypes /\ ImagesKept /\ ImagesAlone

\* In the beginning there is an image of a release, and nobody updates it.
LEMMA ImagesInit == CommandsAssumption /\ Images!Init => ImagesInv
BY DEF CommandsAssumption, Images!ImagesAssumption, Images!Init, ImagesInv, ImagesTypes, ImagesKept,
       ImagesAlone, ImagesRun, Images!Idle, Images!Phase, Images!Snaps, Images!None, Images!Mixed

\* A run changes: the runs of other hosts stay.
LEMMA ImagesMoves ==
  ASSUME ImagesTypes, NEW h \in Host, NEW new \in ImagesRun, run' = [run EXCEPT ![h] = new]
  PROVE  /\ run' \in [Host -> ImagesRun] /\ run'[h] = new
         /\ \A i \in Host \ {h} : run'[i] = run[i]
BY DEF ImagesTypes

\* A run goes on, and changes nothing but its phase.
LEMMA ImagesGoTo ==
  ASSUME ImagesTypes, NEW h \in Host, NEW p \in Images!Phase, Images!GoTo(h, p)
  PROVE  /\ run' \in [Host -> ImagesRun]
         /\ run'[h].pc = p /\ run'[h].release = run[h].release /\ run'[h].old = run[h].old
         /\ \A i \in Host \ {h} : run'[i] = run[i]
BY DEF ImagesTypes, ImagesRun, Images!GoTo

\* The invariant of the base images is inductive.
LEMMA ImagesStep == CommandsAssumption /\ ImagesInv /\ [Images!Next]_(Images!vars) => ImagesInv'
<1> SUFFICES ASSUME CommandsAssumption, ImagesInv, [Images!Next]_(Images!vars)
             PROVE  ImagesInv'
  OBVIOUS
<1>a. /\ Images!None \notin Host
      /\ Images!None \notin Release /\ Images!Mixed \notin Release
  BY DEF CommandsAssumption, Images!ImagesAssumption
<1>t. ImagesTypes /\ ImagesKept /\ ImagesAlone
  BY DEF ImagesInv
<1>i. Images!Idle \in ImagesRun /\ Images!Idle.pc = "idle"
  BY DEF Images!Idle, ImagesRun, Images!Phase
<1>1. ASSUME NEW r \in Release, Images!Publish(r) \/ Images!CreateVm(r)
      PROVE  ImagesInv'
  BY <1>1, <1>t DEF Images!Publish, Images!CreateVm, Images!image, ImagesInv, ImagesTypes, ImagesKept,
       ImagesAlone, Images!Snaps
<1>2. ASSUME NEW h \in Host, Images!Load(h)
      PROVE  ImagesInv'
  <2> DEFINE new == [Images!Idle EXCEPT !.pc = "enter", !.release = current]
  <2>1. new \in ImagesRun /\ new.pc = "enter" /\ new.release = current /\ current \in Release
    BY <1>t DEF Images!Idle, ImagesRun, Images!Phase, ImagesTypes
  <2>2. run' = [run EXCEPT ![h] = new]
    BY <1>2 DEF Images!Load
  <2> HIDE DEF new
  <2> QED
    BY <1>2, <1>t, <2>1, <2>2, ImagesMoves DEF Images!Load, Images!image, ImagesInv, ImagesTypes,
         ImagesKept, ImagesAlone, Images!Snaps
<1>3. ASSUME NEW h \in Host, Images!Enter(h)
      PROVE  ImagesInv'
  <2>1. CASE Images!GoTo(h, "update") /\ locker' = h /\ Images!MayEnter(h)
    <3>1. "update" \in Images!Phase
      BY DEF Images!Phase
    <3> QED
      BY <1>3, <1>t, <1>a, <2>1, <3>1, ImagesGoTo DEF Images!Enter, Images!At, Images!MayEnter, Images!image, ImagesInv,
           ImagesTypes, ImagesKept, ImagesAlone, Images!Snaps
  <2>2. CASE run' = [run EXCEPT ![h] = Images!Idle] /\ UNCHANGED locker
    BY <1>3, <1>t, <1>i, <2>2, ImagesMoves DEF Images!Enter, Images!image, ImagesInv, ImagesTypes, ImagesKept,
         ImagesAlone, Images!Snaps
  <2> QED
    BY <1>3, <2>1, <2>2 DEF Images!Enter
<1>4. ASSUME NEW h \in Host, Images!Update(h)
      PROVE  ImagesInv'
  <2>1. PICK p \in {"cleanup", "store", "exit"} : Images!GoTo(h, p)
    BY <1>4 DEF Images!Update
  <2>2. p \in Images!Phase
    BY DEF Images!Phase
  <2> QED
    BY <1>4, <1>t, <2>1, <2>2, ImagesGoTo DEF Images!Update, Images!At, Images!image, ImagesInv,
         ImagesTypes, ImagesKept, ImagesAlone, Images!Snaps
<1>5. ASSUME NEW h \in Host, Images!StartStore(h) \/ Images!Stored(h)
      PROVE  ImagesInv'
  <2>1. PICK p \in {"written", "create"} : Images!GoTo(h, p) /\ (p = "create" => head' = run[h].release)
    BY <1>5 DEF Images!StartStore, Images!Stored
  <2>2. p \in Images!Phase
    BY DEF Images!Phase
  <2>3. locker = h /\ run[h].release \in Release
    BY <1>5, <1>t DEF Images!StartStore, Images!Stored, Images!At, ImagesAlone
  <2>4. /\ run' \in [Host -> ImagesRun]
        /\ run'[h].pc = p /\ run'[h].release = run[h].release
        /\ \A i \in Host \ {h} : run'[i] = run[i]
    BY <1>t, <2>1, <2>2, ImagesGoTo
  <2>5. \A i \in Host \ {h} : run[i].pc \in {"idle", "enter"}
    BY <1>t, <2>3 DEF ImagesAlone
  <2> QED
    BY <1>5, <1>t, <2>1, <2>3, <2>4, <2>5 DEF Images!StartStore, Images!Stored, ImagesInv,
         ImagesTypes, ImagesKept, ImagesAlone, Images!Snaps
<1>6. ASSUME NEW h \in Host, Images!CreateSnapshot(h)
      PROVE  ImagesInv'
  <2> DEFINE r == run[h].release
  <2>1. PICK p \in {"protect", "exit"} : Images!GoTo(h, p)
    BY <1>6 DEF Images!CreateSnapshot
  <2>2. p \in Images!Phase
    BY DEF Images!Phase
  <2>3. locker = h /\ r \in Release /\ head = r
    BY <1>6, <1>t DEF Images!CreateSnapshot, Images!At, ImagesAlone
  <2>4. snap' \in [Release -> Release \cup {Images!None, Images!Mixed}]
    BY <1>6, <1>t, <2>3 DEF Images!CreateSnapshot, ImagesTypes
  <2>5. /\ \A s \in Release : s # r => snap'[s] = snap[s]
        /\ snap'[r] = r \/ snap'[r] = snap[r]
        /\ snap[r] # Images!None => snap'[r] = snap[r]
    BY <1>6, <1>t, <2>3 DEF Images!CreateSnapshot, ImagesTypes
  <2>6. Images!Snaps \subseteq Images!Snaps' /\ \A s \in Images!Snaps' : snap'[s] = s
    BY <1>t, <1>a, <2>3, <2>5 DEF Images!Snaps, ImagesKept
  <2> QED
    BY <1>6, <1>t, <2>1, <2>2, <2>3, <2>4, <2>6, ImagesGoTo DEF Images!CreateSnapshot, ImagesInv,
         ImagesTypes, ImagesKept, ImagesAlone
<1>7. ASSUME NEW h \in Host, Images!Protect(h) \/ Images!Unprotect(h)
      PROVE  ImagesInv'
  <2>1. PICK p \in {"cleanup", "rm"} : Images!GoTo(h, p)
    BY <1>7 DEF Images!Protect, Images!Unprotect
  <2>2. p \in Images!Phase
    BY DEF Images!Phase
  <2>3. locker = h /\ run[h].release \in Release
    BY <1>7, <1>t DEF Images!Protect, Images!Unprotect, Images!At, ImagesAlone
  <2>4. clones \subseteq protected' /\ protected' \subseteq Images!Snaps /\ protected' \subseteq Release
    BY <1>7, <1>t DEF Images!Protect, Images!Unprotect, ImagesKept, ImagesTypes, Images!Snaps
  <2> QED
    BY <1>7, <1>t, <2>1, <2>2, <2>3, <2>4, ImagesGoTo DEF Images!Protect, Images!Unprotect, ImagesInv,
         ImagesTypes, ImagesKept, ImagesAlone, Images!Snaps
<1>8. ASSUME NEW h \in Host, Images!CleanUp(h)
      PROVE  ImagesInv'
  <2> DEFINE old == Images!outdated(run[h].release)
             p == IF old = {} THEN "exit" ELSE "flatten"
             new == [run[h] EXCEPT !.old = old, !.pc = p]
  <2>1. old \subseteq Release /\ p \in Images!Phase /\ p \in {"exit", "flatten"}
    BY DEF Images!outdated, Images!Snaps, Images!Phase
  <2>2. run' = [run EXCEPT ![h] = new]
    BY <1>8 DEF Images!CleanUp
  <2>3. run[h] \in ImagesRun
    BY <1>t DEF ImagesTypes
  <2> HIDE DEF old, p
  <2>4. new \in ImagesRun /\ new.pc = p /\ new.release = run[h].release
    BY <2>1, <2>3 DEF ImagesRun
  <2> HIDE DEF new
  <2>5. /\ run' \in [Host -> ImagesRun] /\ run'[h] = new
        /\ \A i \in Host \ {h} : run'[i] = run[i]
    BY <1>t, <2>2, <2>4, ImagesMoves
  <2>6. run[h].pc = "cleanup" /\ locker = h
    BY <1>8, <1>t DEF Images!CleanUp, Images!At, ImagesAlone
  <2>7. UNCHANGED <<current, head, snap, protected, clones, locker>>
    BY <1>8 DEF Images!CleanUp, Images!image
  <2> QED
    BY <1>t, <2>1, <2>4, <2>5, <2>6, <2>7 DEF ImagesInv, ImagesTypes, ImagesKept, ImagesAlone, Images!Snaps
<1>9. ASSUME NEW h \in Host, Images!Flatten(h)
      PROVE  ImagesInv'
  <2>1. run[h] \in ImagesRun
    BY <1>t DEF ImagesTypes
  <2>2. PICK r \in run[h].old : /\ clones' = clones \ {r}
                                /\ run' = [run EXCEPT ![h].pc = "unprotect", ![h].old = @ \ {r},
                                                      ![h].release = r]
    BY <1>9 DEF Images!Flatten
  <2> DEFINE new == [run[h] EXCEPT !.pc = "unprotect", !.old = @ \ {r}, !.release = r]
  <2>3. run' = [run EXCEPT ![h] = new]
    BY <2>2
  <2>4. r \in Release /\ new \in ImagesRun /\ new.pc = "unprotect" /\ new.release = r
    BY <2>1 DEF ImagesRun, Images!Phase
  <2> HIDE DEF new
  <2>5. run[h].pc = "flatten" /\ locker = h
    BY <1>9, <1>t DEF Images!Flatten, Images!At, ImagesAlone
  <2>6. /\ run' \in [Host -> ImagesRun] /\ run'[h] = new
        /\ \A i \in Host \ {h} : run'[i] = run[i]
    BY <1>t, <2>3, <2>4, ImagesMoves
  <2>7. UNCHANGED <<current, head, snap, protected, locker>>
    BY <1>9 DEF Images!Flatten, Images!image
  <2> QED
    BY <1>t, <2>2, <2>4, <2>5, <2>6, <2>7 DEF ImagesInv, ImagesTypes, ImagesKept, ImagesAlone, Images!Snaps
<1>10. ASSUME NEW h \in Host, Images!Remove(h)
       PROVE  ImagesInv'
  <2> DEFINE r == run[h].release
  <2>1. PICK p \in {"exit", "flatten"} : Images!GoTo(h, p)
    BY <1>10 DEF Images!Remove
  <2>2. p \in Images!Phase
    BY DEF Images!Phase
  <2>3. locker = h /\ r \in Release
    BY <1>10, <1>t DEF Images!Remove, Images!At, ImagesAlone
  <2>4. /\ snap' \in [Release -> Release \cup {Images!None, Images!Mixed}]
        /\ \A s \in Release : snap'[s] = snap[s] \/ (s \notin protected /\ snap'[s] = Images!None)
    BY <1>10, <1>t, <2>3 DEF Images!Remove, ImagesTypes
  <2>5. protected \subseteq Images!Snaps' /\ \A s \in Images!Snaps' : snap'[s] = s
    BY <1>t, <2>4 DEF ImagesTypes, ImagesKept, Images!Snaps
  <2> QED
    BY <1>10, <1>t, <2>1, <2>2, <2>3, <2>4, <2>5, ImagesGoTo DEF Images!Remove, ImagesInv, ImagesTypes,
         ImagesKept, ImagesAlone
<1>11. ASSUME NEW h \in Host, Images!Exit(h) \/ Images!Kill(h)
       PROVE  ImagesInv'
  <2>1. /\ run' = [run EXCEPT ![h] = Images!Idle] /\ run[h].pc # "idle"
        /\ UNCHANGED <<current, head, snap, protected, clones>>
        /\ locker' = locker \/ (locker' = Images!None /\ (locker = h \/ run[h].pc = "exit"))
    BY <1>11 DEF Images!Exit, Images!Kill, Images!At, Images!image
  <2>2. locker' = locker \/ (locker' = Images!None /\ locker = h)
    BY <1>t, <2>1 DEF ImagesAlone
  <2> QED
    BY <1>t, <1>i, <2>1, <2>2, ImagesMoves DEF ImagesInv, ImagesTypes, ImagesKept, ImagesAlone, Images!Snaps
<1>12. CASE UNCHANGED Images!vars
  BY <1>12, <1>t DEF Images!vars, ImagesInv, ImagesTypes, ImagesKept, ImagesAlone, Images!Snaps
<1> QED
  BY <1>1, <1>2, <1>3, <1>4, <1>5, <1>6, <1>7, <1>8, <1>9, <1>10, <1>11, <1>12 DEF Images!Next, Images!Step

\* It implies what is promised of them.
LEMMA ImagesNamed == ImagesInv => Images!TypeOK /\ Images!Named
BY DEF ImagesInv, ImagesTypes, ImagesKept, ImagesRun, Images!TypeOK, Images!Named

---------------------------------------------------------------------------
(***************************************************************************)
(* Client keys of Ceph: what a run that is alone has made of them so far.  *)
(***************************************************************************)

KeysRun == [pc : Keys!Phase, answer : {<<>>} \cup [Node -> Keys!Listed],
            known : {<<>>} \cup Keys!Store, todo : SUBSET Keys!Entity,
            purge : SUBSET Keys!Entity, errors : BOOLEAN, alone : BOOLEAN]

\* A run as it may be, by where it is.
KeysTyped(r) ==
  /\ r \in KeysRun
  /\ r.pc # "idle" => r.answer \in [Node -> Keys!Listed]
  /\ r.pc \in {"ensure", "purge"} => r.known \in Keys!Store

KeysTypes ==
  /\ nodes \in [Node -> Keys!Listed] /\ auth \in Keys!Store
  /\ mon \in [Mon -> KeysRun] /\ \A m \in Mon : KeysTyped(mon[m])

\* What a run that is alone has made of one of the cluster's keys so far.
KeysDone(key, r, e) ==
  LET n == r.answer[e[1]]
  IN /\ e \in r.todo => Keys!Needs(r.answer, e)
     /\ r.pc = "load" => r.errors \/ (Keys!Needs(r.answer, e) => e \in r.todo)
     /\ r.pc = "ensure" =>
          IF Keys!Needs(r.answer, e) /\ ~n.stub /\ e \notin r.todo
          THEN r.errors \/ key = n.salt
          ELSE key = r.known[e]
     /\ r.pc = "purge" =>
          /\ ~Keys!Needs(r.answer, e) => key = Keys!None \/ e \in r.purge
          /\ Keys!Needs(r.answer, e) => e \notin r.purge /\ key = IF n.stub THEN r.known[e] ELSE n.salt

KeysAlone == \A m \in Mon : mon[m].alone /\ mon[m].pc # "idle" => \A i \in Mon \ {m} : mon[i].pc = "idle"

KeysMade == \A m \in Mon : mon[m].alone /\ mon[m].pc # "idle" =>
  \A e \in Keys!Entity : KeysDone(auth[e], mon[m], e)

KeysInv == KeysTypes /\ KeysAlone /\ KeysMade

\* No run.
LEMMA KeysIdle == Keys!Idle \in KeysRun /\ Keys!Idle.pc = "idle"
<1>1. /\ "idle" \in Keys!Phase /\ <<>> \in {<<>>} \cup [Node -> Keys!Listed]
      /\ <<>> \in {<<>>} \cup Keys!Store /\ {} \in SUBSET Keys!Entity /\ FALSE \in BOOLEAN
  BY DEF Keys!Phase
<1> QED
  BY <1>1 DEF Keys!Idle, KeysRun

\* In the beginning no run is there.
LEMMA KeysInit == CommandsAssumption /\ Keys!Init => KeysInv
<1> SUFFICES ASSUME Keys!Init
             PROVE  KeysInv
  OBVIOUS
<1>1. PICK s \in Salt, stub \in [Node -> BOOLEAN] :
        /\ nodes = [n \in Node |-> [keys |-> {"client"}, salt |-> s, stub |-> stub[n]]]
        /\ auth = [e \in Keys!Entity |-> IF stub[e[1]] /\ e[2] = "client" THEN Keys!Other ELSE Keys!None]
  BY DEF Keys!Init
<1>2. nodes \in [Node -> Keys!Listed]
  <2>1. \A n \in Node : stub[n] \in BOOLEAN
    BY <1>1
  <2> QED
    BY <1>1, <2>1 DEF Keys!Listed, Keys!Roles
<1>3. auth \in Keys!Store
  BY <1>1 DEF Keys!Store
<1>4. mon = [m \in Mon |-> Keys!Idle]
  BY DEF Keys!Init
<1> QED
  BY <1>2, <1>3, <1>4, KeysIdle DEF KeysInv, KeysTypes, KeysTyped, KeysAlone, KeysMade

\* A step of a run that goes on.
LEMMA KeysOwn ==
  ASSUME KeysInv, NEW m \in Mon, mon[m].pc # "idle", NEW new, KeysTyped(new), new.pc # "idle",
         new.alone = mon[m].alone, mon' = [mon EXCEPT ![m] = new], UNCHANGED nodes, auth' \in Keys!Store,
         new.alone => \A e \in Keys!Entity : KeysDone(auth'[e], new, e)
  PROVE  KeysInv'
<1>1. /\ new \in KeysRun /\ mon \in [Mon -> KeysRun]
      /\ mon'[m] = new /\ \A i \in Mon \ {m} : mon'[i] = mon[i]
  BY DEF KeysInv, KeysTypes, KeysTyped
<1>2. \A i \in Mon \ {m} : ~(mon[i].alone /\ mon[i].pc # "idle")
  BY DEF KeysInv, KeysAlone
<1>3. KeysTypes'
  <2>1. mon' \in [Mon -> KeysRun]
    BY <1>1
  <2>2. \A i \in Mon : KeysTyped(mon'[i])
    BY <1>1 DEF KeysInv, KeysTypes
  <2> QED
    BY <2>1, <2>2 DEF KeysTypes, KeysTyped, KeysInv
<1>4. KeysAlone'
  BY <1>1, <1>2 DEF KeysInv, KeysAlone
<1>5. KeysMade'
  BY <1>1, <1>2 DEF KeysMade
<1> QED
  BY <1>3, <1>4, <1>5 DEF KeysInv

\* A run that ends, as it should or not.
LEMMA KeysEnd ==
  ASSUME KeysInv, NEW m \in Mon, mon' = [mon EXCEPT ![m] = Keys!Idle], UNCHANGED <<nodes, auth>>
  PROVE  KeysInv'
<1>1. /\ mon' \in [Mon -> KeysRun] /\ mon'[m].pc = "idle" /\ KeysTyped(mon'[m])
      /\ \A i \in Mon \ {m} : mon'[i] = mon[i]
  BY KeysIdle DEF KeysInv, KeysTypes, KeysTyped
<1> QED
  BY <1>1 DEF KeysInv, KeysTypes, KeysTyped, KeysAlone, KeysMade

\* The directory changes what it says of a node.
LEMMA KeysChange ==
  ASSUME KeysInv, NEW n \in Node, Keys!Change(n)
  PROVE  KeysInv'
<1>1. PICK new \in Keys!Listed : nodes' = [nodes EXCEPT ![n] = new]
  <2>1. nodes \in [Node -> Keys!Listed] /\ nodes[n] \in Keys!Listed
    BY DEF KeysInv, KeysTypes
  <2>2. CASE \E keys_ \in Keys!Roles \ {nodes[n].keys} : nodes' = [nodes EXCEPT ![n].keys = keys_]
    BY <2>1, <2>2 DEF Keys!Listed
  <2>3. CASE \E s \in Salt \ {nodes[n].salt} : nodes' = [nodes EXCEPT ![n].salt = s]
    BY <2>1, <2>3 DEF Keys!Listed
  <2>4. CASE nodes[n].stub /\ nodes' = [nodes EXCEPT ![n].stub = FALSE]
    BY <2>1, <2>4 DEF Keys!Listed
  <2> QED
    BY <2>2, <2>3, <2>4 DEF Keys!Change
<1> QED
  BY <1>1 DEF Keys!Change, KeysInv, KeysTypes, KeysTyped, KeysAlone, KeysMade

\* A run starts, alone or not.
LEMMA KeysStart ==
  ASSUME KeysInv, NEW m \in Mon, Keys!Start(m)
  PROVE  KeysInv'
<1> DEFINE alone == \A j \in Mon : mon[j].pc = "idle"
           todo == {e \in Keys!Entity : Keys!Needs(nodes, e)}
           new == [Keys!Idle EXCEPT !.pc = "load", !.answer = nodes, !.todo = todo, !.alone = alone]
<1>1. nodes \in [Node -> Keys!Listed]
  BY DEF KeysInv, KeysTypes
<1>2. alone \in BOOLEAN
  OBVIOUS
<1>3. /\ mon' = [i \in Mon |-> IF i = m THEN new ELSE [mon[i] EXCEPT !.alone = FALSE]]
      /\ UNCHANGED <<nodes, auth>>
  BY DEF Keys!Start, Keys!At
<1>4. alone => \A i \in Mon : mon[i].pc = "idle"
  OBVIOUS
<1>0. /\ todo \in SUBSET Keys!Entity
      /\ \A e \in Keys!Entity : e \in todo <=> Keys!Needs(nodes, e)
  OBVIOUS
<1> HIDE DEF alone, todo
<1>5. /\ KeysTyped(new) /\ new.pc = "load" /\ new.alone = alone
      /\ new.todo = todo /\ new.answer = nodes
  BY <1>0, <1>1, <1>2, KeysIdle DEF KeysTyped, KeysRun, Keys!Phase
<1> HIDE DEF new
<1>9. \A e \in Keys!Entity : KeysDone(auth[e], new, e)
  BY <1>0, <1>5 DEF KeysDone
<1>6. \A i \in Mon \ {m} : /\ KeysTyped(mon'[i]) /\ mon'[i].pc = mon[i].pc
                           /\ ~mon'[i].alone
  BY <1>3 DEF KeysInv, KeysTypes, KeysTyped, KeysRun
<1>7. mon'[m] = new
  BY <1>3
<1>8. KeysTypes'
  <2>1. mon' \in [Mon -> KeysRun]
    BY <1>3, <1>5, <1>6, <1>7 DEF KeysTyped
  <2> QED
    BY <1>3, <1>5, <1>6, <1>7, <2>1 DEF KeysTypes, KeysInv
<1> QED
  BY <1>3, <1>4, <1>5, <1>6, <1>7, <1>8, <1>9 DEF KeysInv, KeysAlone, KeysMade

\* It lists the cluster's keys, which may fail more than once.
LEMMA KeysLoad ==
  ASSUME KeysInv, NEW m \in Mon, Keys!Load(m) \/ Keys!LoadFails(m)
  PROVE  KeysInv'
<1> DEFINE listed == [mon[m] EXCEPT !.pc = "ensure", !.known = auth]
           failed(e) == [mon[m] EXCEPT !.todo = @ \ {e}, !.errors = TRUE]
<1>1. /\ KeysTyped(mon[m]) /\ auth \in Keys!Store /\ mon[m].pc = "load" /\ UNCHANGED <<nodes, auth>>
      /\ mon[m].alone => \A d \in Keys!Entity : KeysDone(auth[d], mon[m], d)
  BY DEF KeysInv, KeysTypes, KeysMade, Keys!Load, Keys!LoadFails, Keys!At
<1>2. CASE mon' = [mon EXCEPT ![m] = Keys!Idle]
  BY <1>1, <1>2, KeysEnd
<1>3. CASE mon' = [mon EXCEPT ![m] = listed]
  <2>1. /\ KeysTyped(listed) /\ listed.pc = "ensure" /\ listed.alone = mon[m].alone
        /\ listed.errors = mon[m].errors /\ listed.todo = mon[m].todo
        /\ listed.answer = mon[m].answer /\ listed.known = auth
    BY <1>1 DEF KeysTyped, KeysRun, Keys!Phase
  <2> HIDE DEF listed
  <2>2. mon[m].alone => \A e \in Keys!Entity : KeysDone(auth[e], listed, e)
    BY <1>1, <2>1 DEF KeysDone
  <2> QED
    BY <1>1, <1>3, <2>1, <2>2, KeysOwn
<1>4. ASSUME NEW e \in mon[m].todo, mon' = [mon EXCEPT ![m] = failed(e)]
      PROVE  KeysInv'
  <2>1. /\ KeysTyped(failed(e)) /\ failed(e).pc = "load" /\ failed(e).alone = mon[m].alone
        /\ failed(e).errors /\ failed(e).todo = mon[m].todo \ {e} /\ failed(e).answer = mon[m].answer
    BY <1>1, TRUE \in BOOLEAN DEF KeysTyped, KeysRun
  <2> HIDE DEF failed
  <2>2. mon[m].alone => \A d \in Keys!Entity : KeysDone(auth[d], failed(e), d)
    BY <1>1, <2>1 DEF KeysDone
  <2> QED
    BY <1>1, <1>4, <2>1, <2>2, KeysOwn
<1> QED
  BY <1>2, <1>3, <1>4 DEF Keys!Load, Keys!LoadFails, Keys!Becomes

\* It makes the keys that are to be there, one after the other.
LEMMA KeysEnsure ==
  ASSUME KeysInv, NEW m \in Mon, NEW e \in Keys!Entity, Keys!Ensure(m, e)
  PROVE  KeysInv'
<1> DEFINE n == mon[m].answer[e[1]]
           done == [mon[m] EXCEPT !.todo = @ \ {e}]
           failed == [done EXCEPT !.errors = TRUE]
<1>1. mon[m].pc = "ensure" /\ e \in mon[m].todo /\ UNCHANGED nodes
  BY DEF Keys!Ensure, Keys!At
<1>2. KeysTyped(mon[m]) /\ auth \in Keys!Store
  BY DEF KeysInv, KeysTypes
<1>3. n \in Keys!Listed
  BY <1>1, <1>2 DEF KeysTyped, Keys!Entity
<1>4. /\ KeysTyped(done) /\ done.pc = "ensure" /\ done.alone = mon[m].alone /\ done.errors = mon[m].errors
      /\ done.todo = mon[m].todo \ {e} /\ done.answer = mon[m].answer /\ done.known = mon[m].known
  BY <1>1, <1>2 DEF KeysTyped, KeysRun
<1>5. mon[m].alone => \A d \in Keys!Entity : KeysDone(auth[d], mon[m], d)
  BY <1>1 DEF KeysInv, KeysMade
<1>6. \/ /\ n.stub \/ mon[m].known[e] = n.salt
         /\ mon' = [mon EXCEPT ![m] = done] /\ UNCHANGED auth
      \/ /\ auth' = [auth EXCEPT ![e] = n.salt] /\ mon' = [mon EXCEPT ![m] = done] /\ ~n.stub
      \/ mon' = [mon EXCEPT ![m] = failed] /\ UNCHANGED auth /\ ~n.stub
  BY DEF Keys!Ensure, Keys!matches, Keys!Becomes
<1>7. /\ KeysTyped(failed) /\ failed.pc = "ensure" /\ failed.alone = mon[m].alone /\ failed.errors
      /\ failed.todo = mon[m].todo \ {e} /\ failed.answer = mon[m].answer /\ failed.known = mon[m].known
  BY <1>4, TRUE \in BOOLEAN DEF KeysTyped, KeysRun
<1> HIDE DEF failed, done
<1>8. CASE mon' = [mon EXCEPT ![m] = done] /\ UNCHANGED auth /\ (n.stub \/ mon[m].known[e] = n.salt)
  <2>1. mon[m].alone => \A d \in Keys!Entity : KeysDone(auth'[d], done, d)
    BY <1>1, <1>4, <1>5, <1>8 DEF KeysDone
  <2> QED
    BY <1>1, <1>2, <1>4, <1>8, <2>1, KeysOwn
<1>9. CASE mon' = [mon EXCEPT ![m] = done] /\ auth' = [auth EXCEPT ![e] = n.salt] /\ ~n.stub
  <2>1. auth' \in Keys!Store /\ auth'[e] = n.salt /\ \A d \in Keys!Entity \ {e} : auth'[d] = auth[d]
    BY <1>2, <1>3, <1>9 DEF Keys!Store, Keys!Listed
  <2>2. mon[m].alone => \A d \in Keys!Entity \ {e} : KeysDone(auth'[d], done, d)
    BY <1>1, <1>4, <1>5, <2>1 DEF KeysDone
  <2>3. mon[m].alone => KeysDone(auth'[e], done, e)
    BY <1>1, <1>4, <1>5, <1>9, <2>1 DEF KeysDone
  <2> QED
    BY <1>1, <1>4, <1>9, <2>1, <2>2, <2>3, KeysOwn
<1>10. CASE mon' = [mon EXCEPT ![m] = failed] /\ UNCHANGED auth /\ ~n.stub
  <2>1. mon[m].alone => \A d \in Keys!Entity : KeysDone(auth'[d], failed, d)
    BY <1>1, <1>5, <1>7, <1>10 DEF KeysDone
  <2> QED
    BY <1>1, <1>2, <1>7, <1>10, <2>1, KeysOwn
<1> QED
  BY <1>6, <1>8, <1>9, <1>10

\* It begins to delete the others.
LEMMA KeysStartPurge ==
  ASSUME KeysInv, NEW m \in Mon, Keys!StartPurge(m)
  PROVE  KeysInv'
<1>1. CASE mon[m].errors
  BY <1>1, KeysEnd DEF Keys!StartPurge, Keys!Becomes
<1>2. CASE ~mon[m].errors
  <2> DEFINE purge == {e \in Keys!Entity : mon[m].known[e] # Keys!None /\ ~Keys!Seen(mon[m].answer, e)}
             new == [mon[m] EXCEPT !.pc = "purge", !.purge = purge]
  <2>1. /\ mon[m].pc = "ensure" /\ mon[m].todo = {}
        /\ mon' = [mon EXCEPT ![m] = new] /\ UNCHANGED <<nodes, auth>>
    BY <1>2 DEF Keys!StartPurge, Keys!At, Keys!Becomes
  <2>2. KeysTyped(mon[m]) /\ auth \in Keys!Store
    BY DEF KeysInv, KeysTypes
  <2>3. purge \in SUBSET Keys!Entity
    OBVIOUS
  <2>4. \A e \in Keys!Entity :
          e \in purge <=> mon[m].known[e] # Keys!None /\ ~Keys!Needs(mon[m].answer, e)
    BY DEF Keys!Seen
  <2> HIDE DEF purge
  <2>6. /\ KeysTyped(new) /\ new.pc = "purge" /\ new.alone = mon[m].alone /\ new.purge = purge
        /\ new.todo = {} /\ new.answer = mon[m].answer /\ new.known = mon[m].known
    BY <2>1, <2>2, <2>3 DEF KeysTyped, KeysRun, Keys!Phase
  <2> HIDE DEF new
  <2>7. mon[m].alone => \A e \in Keys!Entity : KeysDone(auth[e], mon[m], e)
    BY <2>1 DEF KeysInv, KeysMade
  <2>8. mon[m].alone => \A e \in Keys!Entity : KeysDone(auth[e], new, e)
    BY <1>2, <2>1, <2>4, <2>6, <2>7 DEF KeysDone
  <2> QED
    BY <2>1, <2>2, <2>6, <2>8, KeysOwn
<1> QED
  BY <1>1, <1>2

\* It deletes one.
LEMMA KeysDelete ==
  ASSUME KeysInv, NEW m \in Mon, NEW e \in Keys!Entity, Keys!Delete(m, e)
  PROVE  KeysInv'
<1>1. CASE Keys!Becomes(m, Keys!Idle) /\ UNCHANGED auth
  BY <1>1, KeysEnd DEF Keys!Delete, Keys!Becomes
<1>2. CASE ~(Keys!Becomes(m, Keys!Idle) /\ UNCHANGED auth)
  <2> DEFINE new == [mon[m] EXCEPT !.purge = @ \ {e}]
  <2>1. /\ mon[m].pc = "purge" /\ e \in mon[m].purge /\ mon' = [mon EXCEPT ![m] = new]
        /\ UNCHANGED nodes /\ auth' = [auth EXCEPT ![e] = Keys!None]
    BY <1>2 DEF Keys!Delete, Keys!At, Keys!Becomes
  <2>2. KeysTyped(mon[m]) /\ auth \in Keys!Store
    BY DEF KeysInv, KeysTypes
  <2>3. /\ KeysTyped(new) /\ new.pc = "purge" /\ new.alone = mon[m].alone
        /\ new.purge = mon[m].purge \ {e} /\ new.todo = mon[m].todo
        /\ new.answer = mon[m].answer /\ new.known = mon[m].known
    BY <2>1, <2>2 DEF KeysTyped, KeysRun
  <2> HIDE DEF new
  <2>4. auth' \in Keys!Store /\ auth'[e] = Keys!None /\ \A d \in Keys!Entity \ {e} : auth'[d] = auth[d]
    BY <2>1, <2>2 DEF Keys!Store
  <2>5. mon[m].alone => \A d \in Keys!Entity : KeysDone(auth[d], mon[m], d)
    BY <2>1 DEF KeysInv, KeysMade
  <2>6. mon[m].alone => \A d \in Keys!Entity : KeysDone(auth'[d], new, d)
    BY <2>1, <2>3, <2>4, <2>5 DEF KeysDone
  <2> QED
    BY <2>1, <2>3, <2>4, <2>6, KeysOwn
<1> QED
  BY <1>1, <1>2

\* The invariant of the client keys is inductive.
LEMMA KeysStep == CommandsAssumption /\ KeysInv /\ [Keys!Next]_(Keys!vars) => KeysInv'
<1> SUFFICES ASSUME KeysInv, [Keys!Next]_(Keys!vars)
             PROVE  KeysInv'
  OBVIOUS
<1>1. ASSUME NEW m \in Mon, Keys!Finish(m) \/ Keys!Kill(m)
      PROVE  KeysInv'
  BY <1>1, KeysEnd DEF Keys!Finish, Keys!Kill, Keys!Becomes
<1>2. CASE UNCHANGED Keys!vars
  BY <1>2 DEF Keys!vars, KeysInv, KeysTypes, KeysTyped, KeysAlone, KeysMade
<1> QED
  BY <1>1, <1>2, KeysStart, KeysLoad, KeysStartPurge, KeysEnsure, KeysDelete, KeysChange DEF Keys!Next

\* It implies what is promised of them.
LEMMA KeysInstalled == KeysInv => Keys!TypeOK /\ Keys!Installed
<1> SUFFICES ASSUME KeysInv
             PROVE  Keys!TypeOK /\ Keys!Installed
  OBVIOUS
<1>1. Keys!TypeOK
  BY DEF KeysInv, KeysTypes, KeysTyped, KeysRun, Keys!TypeOK
<1>2. ASSUME NEW m \in Mon, mon[m].pc = "purge", mon[m].purge = {}, mon[m].alone,
             NEW e \in Keys!Entity
      PROVE  Keys!Right(mon[m], e)
  <2> DEFINE n == mon[m].answer[e[1]]
  <2>1. n \in Keys!Listed
    BY <1>2 DEF KeysInv, KeysTypes, KeysTyped, Keys!Entity
  <2>2. n.stub \in BOOLEAN
    BY <2>1 DEF Keys!Listed
  <2>3. /\ ~Keys!Needs(mon[m].answer, e) => auth[e] = Keys!None
        /\ Keys!Needs(mon[m].answer, e) => auth[e] = IF n.stub THEN mon[m].known[e] ELSE n.salt
    BY <1>2 DEF KeysInv, KeysMade, KeysDone
  <2> QED
    BY <2>2, <2>3 DEF Keys!Right
<1> QED
  BY <1>1, <1>2 DEF Keys!Installed, Keys!At

---------------------------------------------------------------------------
(***************************************************************************)
(* S3 users: what a run without errors has done and has to do yet.         *)
(***************************************************************************)

S3Sync == [pc : S3!Phase, answer : {<<>>} \cup [S3User -> S3!Entry],
           main : [S3User -> Pair \cup {S3!None}], todo : SUBSET S3User,
           user : S3User \cup {S3!None}, keys : SUBSET Pair, errors : BOOLEAN]

\* A run as it may be with the gateway's users g, by where it is.
S3Typed(g, r) ==
  /\ r \in S3Sync
  /\ r.pc # "idle" => r.answer \in [S3User -> S3!Entry]
  /\ r.pc \notin {"idle", "users", "next"} => r.user \in S3User
  /\ r.pc \in {"modify", "list", "remove"} => g[r.user].exists

S3Gateway(g) ==
  g \in [S3User -> S3!RGWState] /\ \A u \in S3User : g[u].keys # {} => g[u].exists

\* A user of the gateway is as the directory's entry says.
S3Right(user, entry) ==
  /\ entry.stage = "active" => user.exists /\ entry.key \in user.keys
  /\ entry.stage = "soft" => user.exists /\ user.keys = {}
  /\ entry.stage = "hard" => ~user.exists

\* The key that a run has found is one that the user has.
S3Knows(user, key) == key = S3!None \/ key \in user.keys

\* What a run without errors has to do, ...
S3Todo(g, r) == \A u \in r.todo : r.answer[u].stage # "absent" /\ S3Knows(g[u], r.main[u])

\* ... what it has made of the user whose turn it is ...
S3Turn(g, r) == r.pc # "next" =>
  LET entry == r.answer[r.user]
  IN /\ r.user \notin r.todo
     /\ r.pc = "delete" => entry.stage = "hard"
     /\ r.pc \in {"create", "modify"} => /\ entry.stage \in {"active", "soft"}
                                         /\ S3Knows(g[r.user], r.main[r.user])
     /\ r.pc \in {"list", "remove"} => entry.stage = "soft"
     /\ r.pc = "remove" => g[r.user].keys = r.keys

\* ... and of those before.
S3Others(g, r) == \A u \in S3User \ r.todo :
  r.pc = "next" \/ u # r.user => S3Right(g[u], r.answer[u])

S3Made(g, r) ==
  r.pc \notin {"idle", "users"} /\ ~r.errors => S3Todo(g, r) /\ S3Turn(g, r) /\ S3Others(g, r)

S3Inv ==
  /\ wanted \in [S3User -> S3!Entry] /\ stamp \in BOOLEAN
  /\ S3Gateway(gateway) /\ S3Typed(gateway, sync) /\ S3Made(gateway, sync)

\* A new user of the gateway.
LEMMA S3Fresh ==
  ASSUME NEW answer, answer \in {<<>>} \cup [S3User -> S3!Entry]
  PROVE  S3!Fresh(answer) \in S3Sync /\ S3!Fresh(answer).pc = "users" /\ S3!Fresh(answer).answer = answer
<1>1. /\ "users" \in S3!Phase /\ [u \in S3User |-> S3!None] \in [S3User -> Pair \cup {S3!None}]
      /\ {} \in SUBSET S3User /\ S3!None \in S3User \cup {S3!None} /\ {} \in SUBSET Pair /\ FALSE \in BOOLEAN
  BY DEF S3!Phase
<1> QED
  BY <1>1 DEF S3!Fresh, S3Sync

\* No run.
LEMMA S3Idle == S3!Idle \in S3Sync /\ S3!Idle.pc = "idle"
<1>1. S3!Fresh(<<>>) \in S3Sync
  BY S3Fresh
<1>2. "idle" \in S3!Phase
  BY DEF S3!Phase
<1> QED
  BY <1>1, <1>2 DEF S3!Idle, S3Sync

\* In the beginning no run is there.
LEMMA S3Init == CommandsAssumption /\ S3!Init => S3Inv
<1> SUFFICES ASSUME S3!Init
             PROVE  S3Inv
  OBVIOUS
<1>1. wanted \in [S3User -> S3!Entry]
  BY DEF S3!Init, S3!Entry, S3!Stage
<1>2. S3!NoUser \in S3!RGWState /\ S3!NoUser.keys = {}
  BY DEF S3!NoUser, S3!RGWState
<1>3. S3Gateway(gateway)
  BY <1>2 DEF S3!Init, S3Gateway
<1>4. sync = S3!Idle /\ stamp \in BOOLEAN
  BY DEF S3!Init
<1> QED
  BY <1>1, <1>3, <1>4, S3Idle DEF S3Inv, S3Typed, S3Made

\* The next user's turn comes after an error, ...
LEMMA S3Error ==
  ASSUME S3Inv, sync.pc \notin {"idle", "users"}, NEW changed, S3Gateway(changed), S3!Error(changed),
         UNCHANGED <<wanted, stamp>>
  PROVE  S3Inv'
<1> DEFINE new == [sync EXCEPT !.pc = "next", !.errors = TRUE]
<1>1. sync' = new /\ gateway' \in {gateway, changed}
  BY DEF S3!Error
<1>2. "next" \in S3!Phase /\ TRUE \in BOOLEAN
  BY DEF S3!Phase
<1>3. /\ new \in S3Sync /\ new.pc = "next" /\ new.errors /\ new.answer = sync.answer
      /\ sync.answer \in [S3User -> S3!Entry]
  BY <1>2 DEF S3Inv, S3Typed, S3Sync
<1> HIDE DEF new
<1>4. S3Gateway(gateway')
  BY <1>1 DEF S3Inv
<1>5. S3Typed(gateway', new) /\ S3Made(gateway', new)
  BY <1>3 DEF S3Typed, S3Made
<1> QED
  BY <1>1, <1>4, <1>5 DEF S3Inv

\* ... and a run may end at any time.
LEMMA S3End ==
  ASSUME S3Inv, sync' = S3!Idle, UNCHANGED <<wanted, gateway>>, stamp' \in BOOLEAN
  PROVE  S3Inv'
BY S3Idle DEF S3Inv, S3Typed, S3Made

\* The directory changes.
LEMMA S3Change ==
  ASSUME S3Inv, NEW u \in S3User, S3!Change(u)
  PROVE  S3Inv'
<1>1. wanted \in [S3User -> S3!Entry] /\ wanted[u] \in S3!Entry
  BY DEF S3Inv
<1>2. wanted' \in [S3User -> S3!Entry]
  <2>1. CASE \E s \in S3!Stage \ {wanted[u].stage} : wanted' = [wanted EXCEPT ![u].stage = s]
    BY <1>1, <2>1 DEF S3!Entry
  <2>2. CASE \E k \in Pair \ {wanted[u].key} : wanted' = [wanted EXCEPT ![u].key = k]
    BY <1>1, <2>2 DEF S3!Entry
  <2> QED
    BY <2>1, <2>2 DEF S3!Change
<1> QED
  BY <1>2 DEF S3!Change, S3Inv

\* A run starts.
LEMMA S3Start ==
  ASSUME S3Inv, S3!Start
  PROVE  S3Inv'
<1>1. /\ sync' = S3!Fresh(wanted) /\ stamp' = FALSE /\ UNCHANGED <<wanted, gateway>>
      /\ wanted \in [S3User -> S3!Entry]
  BY DEF S3!Start, S3Inv
<1> QED
  BY <1>1, S3Fresh DEF S3Inv, S3Typed, S3Made

\* It asks the directory and the gateway.
LEMMA S3LoadUsers ==
  ASSUME S3Inv, S3!LoadUsers
  PROVE  S3Inv'
<1> DEFINE todo == {u \in S3User : sync.answer[u].stage # "absent"}
<1>1. sync.pc = "users" /\ UNCHANGED <<wanted, gateway, stamp>>
  BY DEF S3!LoadUsers, S3!At
<1>2. PICK main \in [S3User -> Pair \cup {S3!None}], failed \in BOOLEAN :
        /\ \A u \in S3User : S3!update(u, gateway[u].keys, main)
        /\ sync' = [sync EXCEPT !.pc = "next", !.main = main, !.errors = failed, !.todo = todo]
  BY DEF S3!LoadUsers
<1> DEFINE new == [sync EXCEPT !.pc = "next", !.main = main, !.errors = failed, !.todo = todo]
<1>3. todo \in SUBSET S3User /\ \A u \in S3User : u \in todo <=> sync.answer[u].stage # "absent"
  OBVIOUS
<1> HIDE DEF todo
<1>4. "next" \in S3!Phase
  BY DEF S3!Phase
<1>5. /\ new \in S3Sync /\ new.pc = "next" /\ new.main = main /\ new.todo = todo
      /\ new.answer = sync.answer /\ sync.answer \in [S3User -> S3!Entry]
  BY <1>1, <1>3, <1>4 DEF S3Inv, S3Typed, S3Sync
<1> HIDE DEF new
<1>6. S3Typed(gateway, new)
  BY <1>5 DEF S3Typed
<1>7. S3Todo(gateway, new)
  BY <1>2, <1>3, <1>5 DEF S3Todo, S3Knows, S3!update
<1>8. S3Turn(gateway, new) /\ S3Others(gateway, new)
  BY <1>3, <1>5 DEF S3Turn, S3Others, S3Right
<1>9. sync' = new
  BY <1>2 DEF new
<1> QED
  BY <1>1, <1>6, <1>7, <1>8, <1>9 DEF S3Inv, S3Made

\* It takes the next user.
LEMMA S3NextUser ==
  ASSUME S3Inv, S3!NextUser
  PROVE  S3Inv'
<1>1. sync.pc = "next" /\ UNCHANGED <<wanted, gateway, stamp>>
  BY DEF S3!NextUser, S3!At
<1>2. PICK u \in sync.todo :
        sync' = [sync EXCEPT !.pc = IF sync.answer[u].stage = "hard" THEN "delete" ELSE "create",
                             !.user = u, !.todo = @ \ {u}]
  BY DEF S3!NextUser
<1> DEFINE p == IF sync.answer[u].stage = "hard" THEN "delete" ELSE "create"
           new == [sync EXCEPT !.pc = p, !.user = u, !.todo = @ \ {u}]
<1>3. /\ p \in S3!Phase /\ p \in {"delete", "create"}
      /\ p = "delete" <=> sync.answer[u].stage = "hard"
  BY DEF S3!Phase
<1>4. sync' = new
  BY <1>2
<1> HIDE DEF p
<1>5. sync \in S3Sync /\ u \in S3User /\ sync.answer \in [S3User -> S3!Entry]
  BY <1>1 DEF S3Inv, S3Typed, S3Sync
<1>6. /\ new \in S3Sync /\ new.pc = p /\ new.user = u /\ new.todo = sync.todo \ {u}
      /\ new.main = sync.main /\ new.answer = sync.answer /\ new.errors = sync.errors
  BY <1>3, <1>5 DEF S3Sync
<1> HIDE DEF new
<1>7. S3Typed(gateway, new)
  BY <1>3, <1>5, <1>6 DEF S3Typed
<1>8. ASSUME ~sync.errors
      PROVE  S3Todo(gateway, new) /\ S3Turn(gateway, new) /\ S3Others(gateway, new)
  <2>1. S3Todo(gateway, sync) /\ S3Others(gateway, sync)
    BY <1>1, <1>8 DEF S3Inv, S3Made
  <2>2. sync.answer[u].stage \in {"absent", "active", "soft", "hard"}
    BY <1>5 DEF S3!Entry, S3!Stage
  <2>3. S3Todo(gateway, new)
    BY <1>6, <2>1 DEF S3Todo
  <2>4. S3Turn(gateway, new)
    BY <1>3, <1>6, <2>1, <2>2 DEF S3Todo, S3Turn
  <2>5. S3Others(gateway, new)
    BY <1>1, <1>3, <1>6, <2>1 DEF S3Others
  <2> QED
    BY <2>3, <2>4, <2>5
<1> QED
  BY <1>1, <1>4, <1>6, <1>7, <1>8 DEF S3Inv, S3Made

\* A step of the run with the user whose turn it is.
LEMMA S3TurnStep ==
  ASSUME S3Inv, sync.pc \notin {"idle", "users", "next"},
         NEW user \in S3!RGWState, user.keys # {} => user.exists,
         NEW new \in S3Sync, new.pc \notin {"idle", "users"},
         new.answer = sync.answer, new.user = sync.user, new.todo = sync.todo, new.errors = sync.errors,
         \A u \in S3User \ {sync.user} : new.main[u] = sync.main[u],
         gateway' = [gateway EXCEPT ![sync.user] = user], sync' = new, UNCHANGED <<wanted, stamp>>,
         new.pc \in {"modify", "list", "remove"} => user.exists,
         ~sync.errors =>
           LET entry == sync.answer[sync.user]
           IN /\ new.pc = "delete" => entry.stage = "hard"
              /\ new.pc \in {"create", "modify"} => /\ entry.stage \in {"active", "soft"}
                                                    /\ S3Knows(user, new.main[sync.user])
              /\ new.pc \in {"list", "remove"} => entry.stage = "soft"
              /\ new.pc = "remove" => user.keys = new.keys
              /\ new.pc = "next" => S3Right(user, entry)
  PROVE  S3Inv'
<1>1. /\ sync.user \in S3User /\ sync.answer \in [S3User -> S3!Entry]
      /\ gateway \in [S3User -> S3!RGWState]
  BY DEF S3Inv, S3Typed, S3Gateway
<1>2. /\ gateway' \in [S3User -> S3!RGWState] /\ gateway'[sync.user] = user
      /\ \A u \in S3User \ {sync.user} : gateway'[u] = gateway[u]
  BY <1>1
<1>3. S3Gateway(gateway')
  BY <1>2 DEF S3Inv, S3Gateway
<1>4. S3Typed(gateway', new)
  BY <1>1, <1>2 DEF S3Typed
<1>5. ASSUME ~sync.errors
      PROVE  S3Todo(gateway', new) /\ S3Turn(gateway', new) /\ S3Others(gateway', new)
  <2>1. S3Todo(gateway, sync) /\ S3Turn(gateway, sync) /\ S3Others(gateway, sync)
    BY <1>5 DEF S3Inv, S3Made
  <2>2. sync.user \notin sync.todo /\ sync.todo \subseteq S3User
    BY <2>1 DEF S3Turn, S3Sync, S3Inv, S3Typed
  <2>3. S3Todo(gateway', new)
    BY <1>2, <2>1, <2>2 DEF S3Todo
  <2>4. S3Turn(gateway', new)
    BY <1>2, <1>5, <2>2 DEF S3Turn
  <2>5. S3Others(gateway', new)
    BY <1>2, <1>5, <2>1 DEF S3Others
  <2> QED
    BY <2>3, <2>4, <2>5
<1> QED
  BY <1>3, <1>4, <1>5 DEF S3Inv, S3Made

\* The user whose turn it is.
LEMMA S3Here ==
  ASSUME S3Inv, sync.pc \notin {"idle", "users", "next"}
  PROVE  /\ sync \in S3Sync /\ sync.user \in S3User /\ S3Gateway(gateway)
         /\ gateway[sync.user] \in S3!RGWState /\ gateway[sync.user].keys \subseteq Pair
         /\ gateway[sync.user].keys # {} => gateway[sync.user].exists
         /\ gateway = [gateway EXCEPT ![sync.user] = gateway[sync.user]]
         /\ sync.answer[sync.user] \in S3!Entry /\ sync.answer[sync.user].key \in Pair
         /\ sync.pc \in {"modify", "list", "remove"} => gateway[sync.user].exists
         /\ ~sync.errors => S3Turn(gateway, sync)
BY DEF S3Inv, S3Typed, S3Gateway, S3!RGWState, S3!Entry, S3Made

\* It creates a user.
LEMMA S3Create ==
  ASSUME S3Inv, S3!Create
  PROVE  S3Inv'
<1> DEFINE u == sync.user
           key == sync.answer[u].key
           user == [exists |-> TRUE, keys |-> {key}]
           created == [gateway EXCEPT ![u] = user]
           main == [sync.main EXCEPT ![u] = key]
           new == [sync EXCEPT !.pc = "modify", !.main = main]
<1>1. sync.pc = "create" /\ UNCHANGED <<wanted, stamp>>
  BY DEF S3!Create, S3!At
<1>2. /\ sync \in S3Sync /\ u \in S3User /\ S3Gateway(gateway) /\ key \in Pair
      /\ ~sync.errors => S3Turn(gateway, sync)
  BY <1>1, S3Here
<1>3. user \in S3!RGWState /\ user.exists /\ user.keys = {key}
  BY <1>2 DEF S3!RGWState
<1>4. S3!Error(created) \/ (gateway' = created /\ sync' = new)
  BY DEF S3!Create, S3!Current, S3!Wants
<1> HIDE DEF user
<1>5. S3Gateway(created)
  BY <1>2, <1>3 DEF S3Gateway
<1>6. main \in [S3User -> Pair \cup {S3!None}] /\ main[u] = key
      /\ \A v \in S3User \ {u} : main[v] = sync.main[v]
  BY <1>2 DEF S3Sync
<1> HIDE DEF main
<1>7. /\ new \in S3Sync /\ new.pc = "modify" /\ new.answer = sync.answer /\ new.user = u
      /\ new.todo = sync.todo /\ new.errors = sync.errors /\ new.main = main
  BY <1>2, <1>6 DEF S3Sync, S3!Phase
<1> HIDE DEF new
<1>8. CASE S3!Error(created)
  BY <1>1, <1>5, <1>8, S3Error
<1>9. CASE gateway' = created /\ sync' = new
  <2>1. ~sync.errors => /\ sync.answer[u].stage \in {"active", "soft"}
                        /\ S3Knows(user, new.main[u])
    BY <1>1, <1>2, <1>3, <1>6, <1>7 DEF S3Turn, S3Knows
  <2> QED
    BY <1>1, <1>3, <1>6, <1>7, <1>9, <2>1, S3TurnStep
<1> QED
  BY <1>4, <1>8, <1>9

\* It changes a user, and what it knows of its keys.
LEMMA S3Modify ==
  ASSUME S3Inv, S3!Modify
  PROVE  S3Inv'
<1> DEFINE u == sync.user
           entry == sync.answer[u]
           p == IF entry.stage = "soft" THEN "list" ELSE "next"
           new == [sync EXCEPT !.pc = p]
           user == [gateway[u] EXCEPT !.keys = @ \cup {entry.key}]
           added == [gateway EXCEPT ![u] = user]
<1>1. sync.pc \in {"create", "modify"} /\ UNCHANGED <<wanted, stamp>>
  BY DEF S3!Modify, S3!At
<1>2. /\ sync \in S3Sync /\ u \in S3User /\ S3Gateway(gateway) /\ entry.key \in Pair /\ entry \in S3!Entry
      /\ gateway[u] \in S3!RGWState
      /\ gateway = [gateway EXCEPT ![u] = gateway[u]]
      /\ gateway[u].keys # {} => gateway[u].exists
      /\ ~sync.errors => S3Turn(gateway, sync)
  BY <1>1, S3Here
<1>3. gateway[u].exists
  BY <1>1, S3Here DEF S3!Modify, S3!At, S3!Current
<1>4. /\ user \in S3!RGWState /\ user.exists /\ user.keys = gateway[u].keys \cup {entry.key}
  BY <1>2, <1>3 DEF S3!RGWState
<1>5. \/ S3!Error(added)
      \/ gateway' = added /\ sync' = new
      \/ gateway' = gateway /\ sync' = new /\ sync.main[u] = entry.key
  BY DEF S3!Modify, S3!Current, S3!Wants, S3!Ensured
<1> HIDE DEF user
<1>6. S3Gateway(added)
  BY <1>2, <1>4 DEF S3Gateway
<1>7. /\ p \in S3!Phase
      /\ (p = "list" /\ entry.stage = "soft") \/ (p = "next" /\ entry.stage # "soft")
  BY DEF S3!Phase
<1> HIDE DEF p
<1>8. /\ new \in S3Sync /\ new.pc = p /\ new.answer = sync.answer /\ new.user = u
      /\ new.todo = sync.todo /\ new.errors = sync.errors /\ new.main = sync.main
  BY <1>2, <1>7 DEF S3Sync
<1> HIDE DEF new
<1>9. ~sync.errors => /\ entry.stage \in {"active", "soft"}
                      /\ S3Knows(gateway[u], sync.main[u])
  BY <1>1, <1>2 DEF S3Turn
<1>10. CASE S3!Error(added)
  BY <1>1, <1>6, <1>10, S3Error
<1>11. CASE gateway' = added /\ sync' = new
  <2>1. ~sync.errors /\ p = "next" => S3Right(user, entry)
    BY <1>4, <1>7, <1>9 DEF S3Right
  <2> QED
    BY <1>1, <1>4, <1>7, <1>8, <1>11, <2>1, S3TurnStep
<1>12. CASE gateway' = gateway /\ sync' = new /\ sync.main[u] = entry.key
  <2>1. ~sync.errors /\ p = "next" => S3Right(gateway[u], entry)
    <3>1. CommandsAssumption => S3!None \notin Pair
      BY DEF CommandsAssumption, S3!S3Assumption
    <3> QED
      BY <1>2, <1>3, <1>7, <1>9, <1>12, <3>1, CommandsAssumption DEF S3Right, S3Knows
  <2> QED
    BY <1>1, <1>2, <1>3, <1>7, <1>8, <1>12, <2>1, S3TurnStep
<1> QED
  BY <1>5, <1>10, <1>11, <1>12

\* It lists the keys of a user.
LEMMA S3ListKeys ==
  ASSUME S3Inv, S3!ListKeys
  PROVE  S3Inv'
<1> DEFINE u == sync.user
           new == [sync EXCEPT !.pc = "remove", !.keys = gateway[u].keys]
<1>1. sync.pc = "list" /\ UNCHANGED <<wanted, stamp>>
  BY DEF S3!ListKeys, S3!At
<1>2. /\ sync \in S3Sync /\ u \in S3User /\ S3Gateway(gateway)
      /\ gateway[u] \in S3!RGWState /\ gateway[u].keys \subseteq Pair /\ gateway[u].exists
      /\ gateway = [gateway EXCEPT ![u] = gateway[u]]
      /\ ~sync.errors => S3Turn(gateway, sync)
  BY <1>1, S3Here
<1>3. S3!Error(gateway) \/ (gateway' = gateway /\ sync' = new)
  BY DEF S3!ListKeys, S3!Current, S3!to_remove
<1>4. /\ new \in S3Sync /\ new.pc = "remove" /\ new.answer = sync.answer /\ new.user = u
      /\ new.todo = sync.todo /\ new.errors = sync.errors /\ new.main = sync.main
      /\ new.keys = gateway[u].keys
  BY <1>2 DEF S3Sync, S3!Phase
<1> HIDE DEF new
<1>5. CASE S3!Error(gateway)
  BY <1>1, <1>2, <1>5, S3Error
<1>6. CASE gateway' = gateway /\ sync' = new
  <2>1. ~sync.errors => sync.answer[u].stage = "soft"
    BY <1>1, <1>2 DEF S3Turn
  <2> QED
    BY <1>1, <1>2, <1>4, <1>6, <2>1, S3TurnStep
<1> QED
  BY <1>3, <1>5, <1>6

\* It removes a key of a user, or finds that all are as they should.
LEMMA S3RemoveKey ==
  ASSUME S3Inv, S3!RemoveKey
  PROVE  S3Inv'
<1> DEFINE u == sync.user
<1>1. sync.pc = "remove" /\ UNCHANGED <<wanted, stamp>>
  BY DEF S3!RemoveKey, S3!At
<1>2. /\ sync \in S3Sync /\ u \in S3User /\ S3Gateway(gateway)
      /\ gateway[u] \in S3!RGWState /\ gateway[u].exists
      /\ gateway = [gateway EXCEPT ![u] = gateway[u]]
      /\ ~sync.errors => S3Turn(gateway, sync)
  BY <1>1, S3Here
<1>3. ~sync.errors => sync.answer[u].stage = "soft" /\ gateway[u].keys = sync.keys
  BY <1>1, <1>2 DEF S3Turn
<1>4. CASE sync.keys = {} /\ sync' = [sync EXCEPT !.pc = "next"] /\ gateway' = gateway
  <2> DEFINE new == [sync EXCEPT !.pc = "next"]
  <2>1. /\ new \in S3Sync /\ new.pc = "next" /\ new.answer = sync.answer /\ new.user = u
        /\ new.todo = sync.todo /\ new.errors = sync.errors /\ new.main = sync.main
    BY <1>2 DEF S3Sync, S3!Phase
  <2>2. sync' = new
    BY <1>4
  <2> HIDE DEF new
  <2>3. ~sync.errors => S3Right(gateway[u], sync.answer[u])
    BY <1>2, <1>3, <1>4 DEF S3Right
  <2> QED
    BY <1>1, <1>2, <1>4, <2>1, <2>2, <2>3, S3TurnStep
<1>5. ASSUME NEW k \in sync.keys,
             LET removed == [gateway EXCEPT ![u].keys = @ \ {k}]
             IN (gateway' = removed /\ sync' = [sync EXCEPT !.keys = @ \ {k}]) \/ S3!Error(removed)
      PROVE  S3Inv'
  <2> DEFINE user == [gateway[u] EXCEPT !.keys = @ \ {k}]
             removed == [gateway EXCEPT ![u] = user]
             new == [sync EXCEPT !.keys = @ \ {k}]
  <2>1. /\ user \in S3!RGWState /\ user.exists /\ user.keys = gateway[u].keys \ {k}
    BY <1>2 DEF S3!RGWState
  <2>2. (gateway' = removed /\ sync' = new) \/ S3!Error(removed)
    BY <1>5
  <2> HIDE DEF user
  <2>3. S3Gateway(removed)
    BY <1>2, <2>1 DEF S3Gateway
  <2>4. /\ new \in S3Sync /\ new.pc = "remove" /\ new.answer = sync.answer /\ new.user = u
        /\ new.todo = sync.todo /\ new.errors = sync.errors /\ new.main = sync.main
        /\ new.keys = sync.keys \ {k}
    BY <1>1, <1>2 DEF S3Sync
  <2> HIDE DEF new
  <2>5. CASE S3!Error(removed)
    BY <1>1, <2>3, <2>5, S3Error
  <2>6. CASE gateway' = removed /\ sync' = new
    BY <1>1, <1>3, <2>1, <2>4, <2>6, S3TurnStep
  <2> QED
    BY <2>2, <2>5, <2>6
<1> QED
  BY <1>4, <1>5 DEF S3!RemoveKey, S3!Current

\* It deletes a user.
LEMMA S3Delete ==
  ASSUME S3Inv, S3!Delete
  PROVE  S3Inv'
<1> DEFINE u == sync.user
           deleted == [gateway EXCEPT ![u] = S3!NoUser]
           new == [sync EXCEPT !.pc = "next"]
<1>1. sync.pc = "delete" /\ UNCHANGED <<wanted, stamp>>
  BY DEF S3!Delete, S3!At
<1>2. /\ sync \in S3Sync /\ u \in S3User /\ S3Gateway(gateway)
      /\ ~sync.errors => S3Turn(gateway, sync)
  BY <1>1, S3Here
<1>3. S3!NoUser \in S3!RGWState /\ ~S3!NoUser.exists /\ S3!NoUser.keys = {}
  BY DEF S3!NoUser, S3!RGWState
<1>4. S3!Error(deleted) \/ (gateway' = deleted /\ sync' = new)
  BY DEF S3!Delete, S3!Current
<1>5. S3Gateway(deleted)
  BY <1>2, <1>3 DEF S3Gateway
<1>6. /\ new \in S3Sync /\ new.pc = "next" /\ new.answer = sync.answer /\ new.user = u
      /\ new.todo = sync.todo /\ new.errors = sync.errors /\ new.main = sync.main
  BY <1>2 DEF S3Sync, S3!Phase
<1> HIDE DEF new
<1>7. CASE S3!Error(deleted)
  BY <1>1, <1>5, <1>7, S3Error
<1>8. CASE gateway' = deleted /\ sync' = new
  <2>1. ~sync.errors => S3Right(S3!NoUser, sync.answer[u])
    BY <1>1, <1>2, <1>3 DEF S3Turn, S3Right
  <2> QED
    BY <1>1, <1>3, <1>6, <1>8, <2>1, S3TurnStep
<1> QED
  BY <1>4, <1>7, <1>8

\* The invariant of the S3 users is inductive.
LEMMA S3Step == CommandsAssumption /\ S3Inv /\ [S3!Next]_(S3!vars) => S3Inv'
<1> SUFFICES ASSUME S3Inv, [S3!Next]_(S3!vars)
             PROVE  S3Inv'
  OBVIOUS
<1>1. ASSUME S3!LoadFails \/ S3!Report \/ S3!Stop
      PROVE  S3Inv'
  <2>1. /\ sync' = S3!Idle /\ UNCHANGED <<wanted, gateway>>
        /\ stamp' = stamp \/ \E reported \in BOOLEAN : stamp' = (reported /\ ~sync.errors)
    BY <1>1 DEF S3!LoadFails, S3!Report, S3!Stop
  <2>2. stamp \in BOOLEAN
    BY DEF S3Inv
  <2>3. stamp' \in BOOLEAN
    BY <2>1, <2>2
  <2> QED
    BY <2>1, <2>3, S3End
<1>2. CASE UNCHANGED S3!vars
  BY <1>2 DEF S3!vars, S3Inv
<1> QED
  BY <1>1, <1>2, S3Start, S3LoadUsers, S3NextUser, S3Create, S3Modify, S3ListKeys, S3RemoveKey,
     S3Delete, S3Change DEF S3!Next

\* It implies the types, ...
LEMMA S3TypeOK == S3Inv => S3!TypeOK
BY DEF S3Inv, S3Gateway, S3Typed, S3Sync, S3!TypeOK

\* ... and what the stamp of a run stands for.
LEMMA S3Stamp == S3Inv /\ [S3!Next]_(S3!vars) => S3!Synced
<1> SUFFICES ASSUME S3Inv, [S3!Next]_(S3!vars), stamp', ~stamp
             PROVE  \A u \in S3User : S3!Agrees(u, sync.answer[u])
  BY DEF S3!Synced
<1>1. S3!Report
  <2>1. ASSUME NEW u \in S3User, S3!Change(u)
        PROVE  FALSE
    BY <2>1 DEF S3!Change
  <2>2. stamp' # stamp
    OBVIOUS
  <2>3. ~(\/ S3!LoadUsers \/ S3!LoadFails \/ S3!NextUser \/ S3!Create \/ S3!Modify \/ S3!ListKeys
          \/ S3!RemoveKey \/ S3!Delete \/ S3!Stop)
    BY <2>2 DEF S3!LoadUsers, S3!LoadFails, S3!NextUser, S3!Create, S3!Modify, S3!ListKeys,
       S3!RemoveKey, S3!Delete, S3!Stop
  <2>4. ~S3!Start /\ ~UNCHANGED S3!vars
    BY DEF S3!Start, S3!vars
  <2> QED
    BY <2>1, <2>3, <2>4 DEF S3!Next
<1>2. sync.pc = "next" /\ sync.todo = {} /\ ~sync.errors
  BY <1>1 DEF S3!Report, S3!At
<1>3. ASSUME NEW u \in S3User
      PROVE  S3!Agrees(u, sync.answer[u])
  <2>1. S3Right(gateway[u], sync.answer[u])
    BY <1>2 DEF S3Inv, S3Made, S3Others
  <2>2. sync.answer[u].stage \in {"absent", "active", "soft", "hard"}
    BY <1>2 DEF S3Inv, S3Typed, S3!Entry, S3!Stage
  <2> QED
    BY <2>1, <2>2 DEF S3Right, S3!Agrees
<1> QED
  BY <1>3

---------------------------------------------------------------------------
(***************************************************************************)
(* LUKS keys: how each volume can be opened at each step of a command.     *)
(***************************************************************************)

LuksCommand == [pc : Luks!Phase, slot : {"local", "admin"}, todo : SUBSET Vol, vol : Vol \cup {Luks!None},
                typed : Luks!Typed \cup {Luks!None}]

LuksLeft == [commands : Nat, interrupts : Nat, typos : {0, 1}]

LuksTypes ==
  /\ local \in [Vol -> Key \cup {Luks!None}] /\ admin \in [Vol -> Luks!Typed \cup {Luks!None}]
  /\ formatted \subseteq Vol
  /\ key_file \in Key \cup {Luks!None, Luks!Empty} /\ fingerprint \in Luks!Typed \cup {Luks!None}
  /\ command \in LuksCommand /\ left \in LuksLeft

\* What the command c knows at each of its steps.
LuksAt(c) ==
  /\ c.pc = "key" => key_file = Luks!Empty
  /\ c.pc \in {"next", "kill", "add", "add_admin"} => c.typed \in Luks!Typed /\ key_file # Luks!None
  /\ c.pc \in {"kill", "add", "format", "ask", "add_admin"} => c.vol \in Vol
  /\ c.pc = "format" => key_file \in Key
  /\ c.pc \in {"ask", "add_admin"} => key_file \in Key /\ local[c.vol] = key_file

\* No volume's administrative slot has a mistyped passphrase.
LuksRight == \A v \in Vol : admin[v] # Luks!Typo

\* As long as nothing has been mistyped, and while the only mistyped passphrase so far
\* stands in for the one that opens a volume.
LuksTypo(c) ==
  /\ left.typos = 1 => LuksRight /\ c.typed # Luks!Typo
  /\ c.pc \in {"next", "kill", "add"} /\ c.slot = "local" /\ c.typed = Luks!Typo => LuksRight

LuksInv == LuksTypes /\ Luks!Openable /\ LuksAt(command) /\ LuksTypo(command)

LuksNames == /\ Luks!None \notin Key /\ Luks!Empty \notin Key
             /\ Luks!None \notin Phrase /\ Luks!Typo \notin Phrase /\ Luks!None # Luks!Typo

\* The names of what is no key and no passphrase are none of one.
LEMMA LuksNamed == LuksNames
BY CommandsAssumption DEF CommandsAssumption, Luks!LuksAssumption, LuksNames, Luks!None, Luks!Typo, Luks!Empty

\* No command.
LEMMA LuksIdle ==
  /\ Luks!Idle \in LuksCommand /\ Luks!Idle.pc = "idle" /\ Luks!Idle.typed = Luks!None
BY DEF Luks!Idle, LuksCommand, Luks!Phase

\* In the beginning every volume can be opened.
LEMMA LuksInit ==
  ASSUME \A b \in LuksBounds : b.typos \in {0, 1}, Luks!Init
  PROVE  LuksInv
<1>1. left \in LuksLeft
  BY CommandsAssumption DEF CommandsAssumption, Luks!LuksAssumption, Luks!Init, LuksLeft
<1>2. LuksTypes
  BY <1>1, LuksIdle DEF Luks!Init, LuksTypes
<1>3. LuksRight
  BY LuksNamed DEF Luks!Init, LuksRight, LuksNames
<1> QED
  BY <1>2, <1>3, LuksIdle, LuksNamed DEF Luks!Init, LuksInv, Luks!Openable, LuksAt, LuksTypo, LuksNames

\* A bound that is used is lower than before.
LEMMA LuksUse ==
  ASSUME left \in LuksLeft, NEW b \in {"commands", "interrupts"}, Luks!Use(b)
  PROVE  left' \in LuksLeft /\ left'.typos = left.typos
<1>1. CASE b = "commands"
  BY <1>1 DEF Luks!Use, LuksLeft
<1>2. CASE b = "interrupts"
  BY <1>2 DEF Luks!Use, LuksLeft
<1> QED
  BY <1>1, <1>2

\* The passphrase that is mistyped is the only one.
LEMMA LuksMistype ==
  ASSUME left \in LuksLeft, Luks!Use("typos")
  PROVE  left' \in LuksLeft /\ left.typos = 1 /\ left'.typos = 0
BY DEF Luks!Use, LuksLeft

\* A command begins or ends.
LEMMA LuksBegin ==
  ASSUME LuksInv, NEW new \in LuksCommand, command' = new,
         new.pc \in {"idle", "prompt"} \/ (new.pc = "format" /\ new.vol \in Vol /\ key_file \in Key),
         new.typed = Luks!None, left' \in LuksLeft, left'.typos = left.typos,
         UNCHANGED <<local, admin, formatted, key_file, fingerprint>>
  PROVE  LuksInv'
<1>1. LuksTypes'
  BY DEF LuksInv, LuksTypes
<1>2. Luks!Openable' /\ LuksAt(command)'
  BY DEF LuksInv, Luks!Openable, LuksAt
<1>3. LuksTypo(command)'
  BY LuksNamed DEF LuksInv, LuksTypo, LuksRight, LuksNames
<1> QED
  BY <1>1, <1>2, <1>3 DEF LuksInv

\* A command asks for the passphrases.
LEMMA LuksPrompt ==
  ASSUME LuksInv,
         Luks!Prompt("prompt", "next") \/ Luks!Prompt("ask", "add_admin")
  PROVE  LuksInv'
<1>1. PICK from \in {"prompt", "ask"}, to \in {"next", "add_admin"} :
        Luks!Prompt(from, to) /\ (from = "ask" <=> to = "add_admin")
  OBVIOUS
<1>2. PICK p \in Luks!Typed :
        /\ IF p = Luks!Typo THEN Luks!Use("typos") ELSE UNCHANGED left
        /\ fingerprint' = p
        /\ command' = [command EXCEPT !.pc = to, !.typed = p]
  BY <1>1 DEF Luks!Prompt
<1> DEFINE new == [command EXCEPT !.pc = to, !.typed = p]
<1>3. /\ command.pc = from /\ key_file # Luks!None /\ command' = new
      /\ UNCHANGED <<local, admin, formatted, key_file>>
  BY <1>1, <1>2 DEF Luks!Prompt, Luks!At, Luks!slots
<1>4. /\ new \in LuksCommand /\ new.pc = to /\ new.typed = p /\ new.vol = command.vol
      /\ new.slot = command.slot
  BY DEF LuksInv, LuksTypes, LuksCommand, Luks!Phase
<1> HIDE DEF new
<1>5. left \in LuksLeft
  BY DEF LuksInv, LuksTypes
<1>6. /\ left' \in LuksLeft
      /\ \/ left' = left /\ p # Luks!Typo
         \/ p = Luks!Typo /\ left.typos = 1 /\ left'.typos = 0
  BY <1>2, <1>5, LuksMistype
<1>7. LuksTypes'
  BY <1>2, <1>3, <1>4, <1>6 DEF LuksInv, LuksTypes
<1>8. Luks!Openable' /\ LuksAt(command)'
  BY <1>1, <1>3, <1>4 DEF LuksInv, Luks!Openable, LuksAt
<1>9. LuksTypo(command)'
  BY <1>3, <1>4, <1>6 DEF LuksInv, LuksTypo, LuksRight
<1> QED
  BY <1>7, <1>8, <1>9 DEF LuksInv

\* The keystore is made, its key is written, it is destroyed.
LEMMA LuksKeystore ==
  ASSUME LuksInv, Luks!CreateKeystore \/ Luks!WriteKey \/ Luks!DestroyKeystore
  PROVE  LuksInv'
<1>1. left \in LuksLeft /\ command \in LuksCommand
  BY DEF LuksInv, LuksTypes
<1>2. left' \in LuksLeft /\ left'.typos = left.typos
  BY <1>1, LuksUse DEF Luks!CreateKeystore, Luks!WriteKey, Luks!DestroyKeystore, Luks!Begin
<1>3. UNCHANGED <<local, admin, formatted>>
  BY DEF Luks!CreateKeystore, Luks!WriteKey, Luks!DestroyKeystore, Luks!slots
<1>4. key_file' \in Key \cup {Luks!None, Luks!Empty} /\ fingerprint' \in Luks!Typed \cup {Luks!None}
  BY DEF LuksInv, LuksTypes, Luks!CreateKeystore, Luks!WriteKey, Luks!DestroyKeystore
<1>5. /\ command' \in LuksCommand /\ command'.pc \in {"idle", "key"}
      /\ command'.typed = command.typed \/ command'.typed = Luks!None
      /\ command'.pc = "key" => key_file' = Luks!Empty
  <2>1. CASE Luks!CreateKeystore
    BY <1>1, <2>1 DEF Luks!CreateKeystore, Luks!GoTo, LuksCommand, Luks!Phase
  <2>2. CASE Luks!WriteKey
    BY <2>2, LuksIdle DEF Luks!WriteKey
  <2>3. CASE Luks!DestroyKeystore
    BY <1>1, <2>3 DEF Luks!DestroyKeystore, Luks!Begin, Luks!At
  <2> QED
    BY <2>1, <2>2, <2>3
<1>6. \A v \in formatted : admin[v] \in Phrase
  <2>1. CASE Luks!CreateKeystore
    BY <2>1 DEF Luks!CreateKeystore, LuksInv, Luks!Openable
  <2>2. CASE Luks!WriteKey
    <3>1. key_file = Luks!Empty
      BY <2>2 DEF Luks!WriteKey, Luks!At, LuksInv, LuksAt
    <3> QED
      BY <3>1, LuksNamed DEF LuksInv, LuksTypes, Luks!Openable, LuksNames
  <2>3. CASE Luks!DestroyKeystore
    BY <2>3 DEF Luks!DestroyKeystore, Luks!test_open
  <2> QED
    BY <2>1, <2>2, <2>3
<1>7. LuksTypes'
  BY <1>2, <1>3, <1>4, <1>5 DEF LuksInv, LuksTypes
<1>8. Luks!Openable' /\ LuksAt(command)'
  BY <1>3, <1>5, <1>6 DEF Luks!Openable, LuksAt
<1>9. LuksTypo(command)'
  BY <1>2, <1>3, <1>5, LuksNamed DEF LuksInv, LuksTypo, LuksRight, LuksNames
<1> QED
  BY <1>7, <1>8, <1>9 DEF LuksInv

\* A volume is encrypted, and its administrative slot is filled.
LEMMA LuksVolume ==
  ASSUME LuksInv, Luks!LuksFormat \/ Luks!LuksAddAdmin
  PROVE  LuksInv'
<1> DEFINE v == command.vol
<1>1. /\ LuksTypes /\ v \in Vol /\ key_file \in Key /\ UNCHANGED <<key_file, fingerprint, left>>
      /\ command \in LuksCommand
  BY DEF LuksInv, LuksTypes, LuksAt, Luks!LuksFormat, Luks!LuksAddAdmin, Luks!At
<1>2. CASE Luks!LuksFormat
  <2> DEFINE new == [command EXCEPT !.pc = "ask"]
  <2>1. /\ new \in LuksCommand /\ new.pc = "ask" /\ new.vol = v /\ new.typed = command.typed
    BY <1>1 DEF LuksCommand, Luks!Phase
  <2>2. /\ command' = new /\ formatted' = formatted \cup {v}
        /\ local' = [local EXCEPT ![v] = key_file] /\ admin' = [admin EXCEPT ![v] = Luks!None]
    BY <1>2 DEF Luks!LuksFormat, Luks!GoTo
  <2> HIDE DEF new
  <2>3. /\ LuksTypes' /\ local'[v] = key_file /\ admin'[v] = Luks!None
        /\ \A w \in Vol \ {v} : local'[w] = local[w] /\ admin'[w] = admin[w]
    BY <1>1, <2>1, <2>2 DEF LuksTypes
  <2>4. Luks!Openable' /\ LuksAt(command)'
    BY <1>1, <2>1, <2>2, <2>3, LuksNamed DEF LuksInv, LuksTypes, Luks!Openable, LuksAt, LuksNames
  <2>5. LuksTypo(command)'
    BY <1>1, <2>1, <2>2, <2>3, LuksNamed DEF LuksInv, LuksTypo, LuksRight, LuksNames
  <2> QED
    BY <2>3, <2>4, <2>5 DEF LuksInv
<1>3. CASE Luks!LuksAddAdmin
  <2>1. /\ command.typed \in Luks!Typed /\ local[v] = key_file
        /\ left.typos = 1 => command.typed # Luks!Typo
    BY <1>3 DEF Luks!LuksAddAdmin, Luks!At, LuksInv, LuksAt, LuksTypo
  <2>2. /\ command' = Luks!Idle /\ UNCHANGED <<local, formatted>>
        /\ admin' = [admin EXCEPT ![v] = command.typed]
    BY <1>3 DEF Luks!LuksAddAdmin
  <2>3. /\ LuksTypes' /\ admin'[v] = command.typed
        /\ \A w \in Vol \ {v} : admin'[w] = admin[w]
    BY <1>1, <2>1, <2>2, LuksIdle DEF LuksTypes
  <2>4. Luks!Openable' /\ LuksAt(command)'
    BY <1>1, <2>1, <2>2, <2>3, LuksIdle, LuksNamed DEF LuksInv, LuksTypes, Luks!Openable, LuksAt, LuksNames
  <2>5. LuksTypo(command)'
    BY <1>1, <2>1, <2>2, <2>3, LuksIdle, LuksNamed DEF LuksInv, LuksTypo, LuksRight, LuksNames
  <2> QED
    BY <2>3, <2>4, <2>5 DEF LuksInv
<1> QED
  BY <1>2, <1>3

\* A volume is given up.
LEMMA LuksPurge ==
  ASSUME LuksInv, NEW v \in Vol, Luks!Purge(v)
  PROVE  LuksInv'
<1>1. left \in LuksLeft /\ command.pc = "idle"
  BY DEF LuksInv, LuksTypes, Luks!Purge, Luks!Begin, Luks!At
<1>2. left' \in LuksLeft /\ left'.typos = left.typos
  BY <1>1, LuksUse DEF Luks!Purge, Luks!Begin
<1>3. /\ UNCHANGED <<key_file, fingerprint, command>> /\ formatted' = formatted \ {v}
      /\ local' = [local EXCEPT ![v] = Luks!None] /\ admin' = [admin EXCEPT ![v] = Luks!None]
  BY DEF Luks!Purge
<1>4. /\ LuksTypes' /\ admin'[v] = Luks!None
      /\ \A w \in Vol \ {v} : local'[w] = local[w] /\ admin'[w] = admin[w]
  BY <1>2, <1>3 DEF LuksInv, LuksTypes
<1>5. Luks!Openable' /\ LuksAt(command)'
  BY <1>1, <1>3, <1>4 DEF LuksInv, LuksTypes, Luks!Openable, LuksAt
<1>6. LuksTypo(command)'
  BY <1>1, <1>2, <1>3, <1>4, LuksNamed DEF LuksInv, LuksTypo, LuksRight, LuksNames
<1> QED
  BY <1>4, <1>5, <1>6 DEF LuksInv

\* A command takes the next volume.
LEMMA LuksNextVolume ==
  ASSUME LuksInv, Luks!NextVolume
  PROVE  LuksInv'
<1>1. /\ command.pc = "next" /\ command \in LuksCommand
      /\ UNCHANGED <<local, admin, formatted, key_file, fingerprint, left>>
  BY DEF LuksInv, LuksTypes, Luks!NextVolume, Luks!At, Luks!slots
<1>2. CASE command' = Luks!Idle
  BY <1>1, <1>2, LuksIdle, LuksBegin DEF LuksInv, LuksTypes
<1>3. ASSUME NEW v \in command.todo,
             command' = [command EXCEPT !.pc = "kill", !.vol = v, !.todo = @ \ {v}]
      PROVE  LuksInv'
  <2> DEFINE new == [command EXCEPT !.pc = "kill", !.vol = v, !.todo = @ \ {v}]
  <2>1. /\ new \in LuksCommand /\ new.pc = "kill" /\ new.vol = v /\ v \in Vol
        /\ new.typed = command.typed /\ new.slot = command.slot
    BY <1>1 DEF LuksCommand, Luks!Phase
  <2>2. command' = new
    BY <1>3
  <2> HIDE DEF new
  <2>3. LuksTypes'
    BY <1>1, <2>1, <2>2 DEF LuksInv, LuksTypes
  <2>4. Luks!Openable' /\ LuksAt(command)'
    BY <1>1, <2>1, <2>2 DEF LuksInv, Luks!Openable, LuksAt
  <2>5. LuksTypo(command)'
    BY <1>1, <2>1, <2>2 DEF LuksInv, LuksTypo, LuksRight
  <2> QED
    BY <2>3, <2>4, <2>5 DEF LuksInv
<1> QED
  BY <1>2, <1>3 DEF Luks!NextVolume

\* The slot that a key is removed from or added to.
LEMMA LuksSlot ==
  ASSUME LuksInv, Luks!LuksKillSlot \/ Luks!LuksAddKey
  PROVE  LuksInv'
<1> DEFINE v == command.vol
<1>1. /\ command.pc \in {"kill", "add"} /\ command \in LuksCommand
      /\ UNCHANGED <<formatted, key_file, fingerprint, left>>
  BY DEF LuksInv, LuksTypes, Luks!LuksKillSlot, Luks!LuksAddKey, Luks!At
<1>2. /\ v \in Vol /\ command.typed \in Luks!Typed /\ key_file # Luks!None /\ LuksTypes
      /\ left.typos = 1 => command.typed # Luks!Typo
      /\ command.slot = "local" /\ command.typed = Luks!Typo => LuksRight
  BY <1>1 DEF LuksInv, LuksAt, LuksTypo
<1>3. CASE command' = Luks!Idle /\ UNCHANGED <<local, admin>>
  BY <1>1, <1>3, LuksIdle, LuksBegin DEF LuksInv, LuksTypes
<1>4. ASSUME NEW p \in {"add", "next"}, Luks!GoTo(p),
             \/ UNCHANGED <<local, admin>>
             \/ /\ Luks!Verified(v) /\ command.slot = "local" /\ UNCHANGED admin
                /\ \E k \in Key \cup {Luks!None} : local' = [local EXCEPT ![v] = k]
             \/ /\ Luks!Verified(v) /\ command.slot = "admin" /\ UNCHANGED local
                /\ \E t \in {Luks!None, command.typed} : admin' = [admin EXCEPT ![v] = t]
      PROVE  LuksInv'
  <2> DEFINE new == [command EXCEPT !.pc = p]
  <2>1. /\ new \in LuksCommand /\ new.pc = p /\ new.vol = v
        /\ new.typed = command.typed /\ new.slot = command.slot
    BY <1>1 DEF LuksCommand, Luks!Phase
  <2>2. command' = new
    BY <1>4 DEF Luks!GoTo
  <2> HIDE DEF new
  <2>3. CASE UNCHANGED <<local, admin>>
    <3>1. LuksTypes'
      BY <1>1, <2>1, <2>2, <2>3 DEF LuksInv, LuksTypes
    <3>2. Luks!Openable' /\ LuksAt(command)'
      BY <1>1, <1>2, <2>1, <2>2, <2>3 DEF LuksInv, Luks!Openable, LuksAt
    <3>3. LuksTypo(command)'
      BY <1>1, <1>2, <2>1, <2>2, <2>3 DEF LuksInv, LuksTypo, LuksRight
    <3> QED
      BY <3>1, <3>2, <3>3 DEF LuksInv
  <2>4. ASSUME NEW k \in Key \cup {Luks!None}, local' = [local EXCEPT ![v] = k],
               Luks!Verified(v), command.slot = "local", UNCHANGED admin
        PROVE  LuksInv'
    <3>1. LuksTypes' /\ \A w \in Vol \ {v} : local'[w] = local[w]
      BY <1>1, <1>2, <2>1, <2>2, <2>4 DEF LuksTypes
    <3>2. admin[v] \in Phrase
      BY <1>2, <2>4 DEF Luks!Verified, LuksRight, Luks!Typed
    <3>3. Luks!Openable' /\ LuksAt(command)'
      BY <1>1, <1>2, <2>1, <2>2, <2>4, <3>1, <3>2 DEF LuksInv, LuksTypes, Luks!Openable, LuksAt
    <3>4. LuksTypo(command)'
      BY <1>1, <1>2, <2>1, <2>2, <2>4 DEF LuksInv, LuksTypo, LuksRight
    <3> QED
      BY <3>1, <3>3, <3>4 DEF LuksInv
  <2>5. ASSUME NEW t \in {Luks!None, command.typed}, admin' = [admin EXCEPT ![v] = t],
               Luks!Verified(v), command.slot = "admin", UNCHANGED local
        PROVE  LuksInv'
    <3>1. LuksTypes' /\ admin'[v] = t /\ \A w \in Vol \ {v} : admin'[w] = admin[w]
      BY <1>1, <1>2, <2>1, <2>2, <2>5 DEF LuksTypes
    <3>2. local[v] = key_file
      BY <2>5 DEF Luks!Verified
    <3>3. Luks!Openable' /\ LuksAt(command)'
      BY <1>1, <1>2, <2>1, <2>2, <2>5, <3>1, <3>2 DEF LuksInv, LuksTypes, Luks!Openable, LuksAt
    <3>4. LuksTypo(command)'
      BY <1>1, <1>2, <2>1, <2>2, <2>5, <3>1, LuksNamed DEF LuksInv, LuksTypo, LuksRight, LuksNames
    <3> QED
      BY <3>1, <3>3, <3>4 DEF LuksInv
  <2> QED
    BY <1>4, <2>3, <2>4, <2>5
<1>5. ASSUME ~(command' = Luks!Idle /\ UNCHANGED <<local, admin>>)
      PROVE  \E p \in {"add", "next"} :
             /\ Luks!GoTo(p)
             /\ \/ UNCHANGED <<local, admin>>
                \/ /\ Luks!Verified(v) /\ command.slot = "local" /\ UNCHANGED admin
                   /\ \E k \in Key \cup {Luks!None} : local' = [local EXCEPT ![v] = k]
                \/ /\ Luks!Verified(v) /\ command.slot = "admin" /\ UNCHANGED local
                   /\ \E t \in {Luks!None, command.typed} : admin' = [admin EXCEPT ![v] = t]
  <2>1. command.slot \in {"local", "admin"}
    BY <1>1 DEF LuksCommand
  <2>2. CASE Luks!LuksKillSlot
    BY <1>5, <2>1, <2>2 DEF Luks!LuksKillSlot
  <2>3. CASE Luks!LuksAddKey
    BY <1>5, <2>1, <2>3 DEF Luks!LuksAddKey
  <2> QED
    BY <2>2, <2>3
<1> QED
  BY <1>3, <1>4, <1>5

\* The invariant of the LUKS keys is inductive.
LEMMA LuksStep == LuksInv /\ [Luks!Next]_(Luks!vars) => LuksInv'
<1> SUFFICES ASSUME LuksInv, [Luks!Next]_(Luks!vars)
             PROVE  LuksInv'
  OBVIOUS
<1>0. left \in LuksLeft
  BY DEF LuksInv, LuksTypes
<1>1. ASSUME NEW v \in Vol, Luks!CreateVolume(v)
      PROVE  LuksInv'
  <2> DEFINE new == [Luks!Idle EXCEPT !.pc = "format", !.vol = v]
  <2>1. new \in LuksCommand /\ new.pc = "format" /\ new.vol = v /\ new.typed = Luks!None
    BY DEF Luks!Idle, LuksCommand, Luks!Phase
  <2>2. /\ command' = new /\ key_file \in Key
        /\ UNCHANGED <<local, admin, formatted, key_file, fingerprint>>
    BY <1>1 DEF Luks!CreateVolume, Luks!slots
  <2>3. left' \in LuksLeft /\ left'.typos = left.typos
    BY <1>0, <1>1, LuksUse DEF Luks!CreateVolume, Luks!Begin
  <2> HIDE DEF new
  <2> QED
    BY <2>1, <2>2, <2>3, LuksBegin
<1>2. ASSUME NEW slot \in {"local", "admin"}, NEW vols \in SUBSET Vol, Luks!Rekey(slot, vols)
      PROVE  LuksInv'
  <2> DEFINE new == [Luks!Idle EXCEPT !.pc = "prompt", !.slot = slot, !.todo = vols]
  <2>1. new \in LuksCommand /\ new.pc = "prompt" /\ new.typed = Luks!None
    BY DEF Luks!Idle, LuksCommand, Luks!Phase
  <2>2. /\ command' = new /\ UNCHANGED <<local, admin, formatted, key_file, fingerprint>>
    BY <1>2 DEF Luks!Rekey, Luks!slots
  <2>3. left' \in LuksLeft /\ left'.typos = left.typos
    BY <1>0, <1>2, LuksUse DEF Luks!Rekey, Luks!Begin
  <2> HIDE DEF new
  <2> QED
    BY <2>1, <2>2, <2>3, LuksBegin
<1>3. CASE Luks!Interrupt
  <2>1. left' \in LuksLeft /\ left'.typos = left.typos
    BY <1>0, <1>3, LuksUse DEF Luks!Interrupt
  <2> QED
    BY <1>3, <2>1, LuksIdle, LuksBegin DEF Luks!Interrupt, Luks!slots
<1>4. CASE UNCHANGED Luks!vars
  BY <1>4 DEF Luks!vars, Luks!slots, LuksInv, LuksTypes, Luks!Openable, LuksAt, LuksTypo, LuksRight
<1> QED
  BY <1>1, <1>2, <1>3, <1>4, LuksPrompt, LuksKeystore, LuksVolume, LuksPurge, LuksNextVolume, LuksSlot
     DEF Luks!Next

\* It implies what is promised of them.
LEMMA LuksOpenable == LuksInv => Luks!TypeOK /\ Luks!Openable
BY DEF LuksInv, LuksTypes, LuksCommand, Luks!TypeOK

---------------------------------------------------------------------------
(***************************************************************************)
(* OSDs: where the other complete copy is while an OSD is destroyed.       *)
(***************************************************************************)

OsdCommand == [pc : Osds!Phase, kind : Osds!Kind, ids : SUBSET Osd, todo : SUBSET Osd, id : Osd,
               disk : Disk \cup {Osds!None}, wal : Osds!Wal, strict : BOOLEAN, threads : SUBSET Osd]

OsdTypes ==
  /\ known \subseteq Osd /\ full \subseteq Osd /\ up \subseteq Osd /\ made \subseteq Osd
  /\ journal \subseteq Osd /\ ignored \in BOOLEAN
  /\ elsewhere \in BOOLEAN /\ vg \in [Osd -> Disk \cup {Osds!None}] /\ lv \subseteq Osd \X Osds!Volume
  /\ command \in OsdCommand

\* Which commands get to which steps.
OsdKinds(c) ==
  /\ c.kind = "create" => c.todo = {}
  /\ c.kind = "deactivate" => c.pc = "spawn"
  /\ c.pc \in {"check", "purge"} => c.kind \in {"destroy", "rebuild"}
  /\ c.pc = "stop" => c.kind \in {"destroy", "rebuild", "reactivate"}
  /\ c.pc = "clean" => c.kind = "reactivate"

\* The steps of a purge after the cluster has forgotten the OSD, and all that concern an OSD
\* whose volumes were found.
OsdRemoval == {"rm_data", "rm_block", "rm_wal", "rm_backup", "rm_vg"}
OsdFound == {"check", "clean", "stop", "purge"} \cup OsdRemoval

\* From the check to the end of the purge an OSD runs that has another complete copy.
OsdCopy(c) ==
  c.pc = "purge" \/ c.pc \in OsdRemoval \/ (c.pc = "stop" /\ c.kind # "reactivate")
    => elsewhere \/ (full \cap up) \ {c.id} # {}

\* If no failure was ignored, the write-ahead log is made before and removed after the data.
OsdOrder(c) ==
  /\ c.pc \in {"data", "block"} => <<c.id, "wal">> \in lv
  /\ c.pc = "wal" /\ c.wal = "external" => <<c.id, "backup">> \in lv
  /\ ~ignored =>
       /\ c.pc \in {"rm_block", "rm_wal"} => <<c.id, "data">> \notin lv
       /\ c.pc = "rm_wal" => <<c.id, "block">> \notin lv
       /\ c.pc \in {"rm_backup", "rm_vg"} => <<c.id, "wal">> \notin lv
       /\ c.pc \in OsdFound /\ c.wal = "internal" => c.id \notin journal

\* ... and one that is in vgjnl has its backup.
OsdLogs == ~ignored => \A o \in Osd :
  /\ <<o, "data">> \in lv \/ <<o, "block">> \in lv => <<o, "wal">> \in lv
  /\ <<o, "wal">> \in lv /\ o \in journal => <<o, "backup">> \in lv

OsdInv ==
  /\ OsdTypes /\ Osds!DataKept /\ OsdLogs
  /\ OsdKinds(command) /\ OsdCopy(command) /\ OsdOrder(command)

\* No command.
LEMMA OsdIdle ==
  Osds!Idle \in OsdCommand /\ Osds!Idle.pc = "idle" /\ Osds!Idle.kind = "activate"
<1>1. 0 \in Osd
  BY CommandsAssumption DEF CommandsAssumption, Osds!OsdAssumption
<1> QED
  BY <1>1 DEF Osds!Idle, OsdCommand, Osds!Phase, Osds!Kind, Osds!Wal

\* In the beginning all OSDs are complete.
LEMMA OsdInit == Osds!Init => OsdInv
BY OsdIdle DEF Osds!Init, OsdInv, OsdTypes, Osds!DataKept, OsdLogs, OsdKinds, OsdCopy, OsdOrder,
   OsdFound, OsdRemoval

\* A command that goes to a step which nothing depends on, while the OSDs stay as they are.
LEMMA OsdQuiet ==
  ASSUME OsdInv, NEW new \in OsdCommand, command' = new, OsdKinds(new),
         new.pc \notin OsdFound, new.pc \notin {"data", "block"},
         new.pc = "wal" => new.wal # "external",
         UNCHANGED <<full, elsewhere, vg, lv, journal, ignored>>,
         known' \subseteq Osd, up' \subseteq Osd, made' \subseteq Osd
  PROVE  OsdInv'
<1>1. OsdTypes'
  BY DEF OsdInv, OsdTypes
<1>2. OsdKinds(command)' /\ OsdCopy(command)' /\ OsdOrder(command)'
  BY DEF OsdKinds, OsdCopy, OsdOrder, OsdFound, OsdRemoval
<1>3. OsdLogs' /\ Osds!DataKept'
  BY DEF OsdInv, OsdLogs, Osds!DataKept
<1> QED
  BY <1>1, <1>2, <1>3 DEF OsdInv

\* A command goes on, and changes nothing but its phase.
LEMMA OsdGoTo ==
  ASSUME OsdInv, NEW p \in Osds!Phase, Osds!GoTo(p)
  PROVE  /\ command' \in OsdCommand /\ command'.pc = p /\ command'.kind = command.kind
         /\ command'.todo = command.todo /\ command'.id = command.id /\ command'.wal = command.wal
         /\ command'.disk = command.disk
BY DEF OsdInv, OsdTypes, OsdCommand, Osds!GoTo

\* The cluster copies data, to an OSD or elsewhere.
LEMMA OsdCluster ==
  ASSUME OsdInv, (\E o \in Osd : Osds!Backfill(o)) \/ Osds!Elsewhere
  PROVE  OsdInv'
<1>1. CASE \E o \in Osd : Osds!Backfill(o)
  <2>1. PICK o \in Osd : full' = full \cup {o} /\ UNCHANGED <<known, elsewhere, up, vg, lv, journal, made, ignored,
                                                    command>>
    BY <1>1 DEF Osds!Backfill, Osds!volumes
  <2>2. OsdTypes'
    BY <2>1 DEF OsdInv, OsdTypes
  <2>3. OsdLogs' /\ Osds!DataKept' /\ OsdCopy(command)'
    BY <2>1 DEF OsdInv, OsdLogs, Osds!DataKept, OsdCopy
  <2>4. OsdKinds(command)' /\ OsdOrder(command)'
    BY <2>1 DEF OsdInv, OsdKinds, OsdOrder
  <2> QED
    BY <2>2, <2>3, <2>4 DEF OsdInv
<1>2. CASE Osds!Elsewhere
  <2>1. /\ command.pc = "idle" /\ full # {} /\ elsewhere' = ~elsewhere
        /\ UNCHANGED <<known, full, up, vg, lv, journal, made, ignored, command>>
    BY <1>2 DEF Osds!Elsewhere, Osds!volumes, Osds!At
  <2>2. OsdTypes'
    BY <2>1 DEF OsdInv, OsdTypes
  <2>3. OsdLogs' /\ Osds!DataKept' /\ OsdCopy(command)'
    BY <2>1 DEF OsdInv, OsdLogs, Osds!DataKept, OsdCopy, OsdRemoval
  <2>4. OsdKinds(command)' /\ OsdOrder(command)'
    BY <2>1 DEF OsdInv, OsdKinds, OsdOrder
  <2> QED
    BY <2>2, <2>3, <2>4 DEF OsdInv
<1> QED
  BY <1>1, <1>2

\* A command ends.
LEMMA OsdEnd ==
  ASSUME OsdInv, command' = Osds!Idle, UNCHANGED <<known, full, elsewhere, vg, lv, journal, made, ignored>>,
         up' \subseteq Osd
  PROVE  OsdInv'
BY OsdIdle, OsdQuiet DEF OsdInv, OsdTypes, OsdKinds, OsdFound, OsdRemoval

\* The host boots, or a command begins.
LEMMA OsdBegin ==
  ASSUME OsdInv,
         \/ Osds!Boot
         \/ \E kind \in Osds!Kind, ids \in SUBSET Osd, strict \in BOOLEAN : Osds!Start(kind, ids, strict)
         \/ \E d \in Disk, wal \in Osds!Wal : Osds!StartCreate(d, wal)
  PROVE  OsdInv'
<1>1. CASE Osds!Boot
  <2>1. up' \subseteq Osd
    BY <1>1 DEF Osds!Boot, Osds!list_local_osd_ids
  <2> QED
    BY <1>1, <2>1, OsdEnd DEF Osds!Boot, Osds!volumes
<1>2. ASSUME NEW kind \in Osds!Kind, NEW ids \in SUBSET Osd, NEW strict \in BOOLEAN,
             Osds!Start(kind, ids, strict)
      PROVE  OsdInv'
  <2> DEFINE go == [Osds!Idle EXCEPT !.pc = "next", !.kind = kind, !.ids = ids, !.todo = ids, !.strict = strict]
             stop == [Osds!Idle EXCEPT !.pc = "spawn", !.kind = kind, !.ids = ids, !.todo = ids]
  <2>1. /\ kind # "create" /\ UNCHANGED <<known, full, elsewhere, up, vg, lv, journal, made, ignored>>
        /\ (command' = go /\ kind # "deactivate") \/ (command' = stop /\ kind = "deactivate")
    BY <1>2 DEF Osds!Start, Osds!cluster, Osds!volumes
  <2>2. go \in OsdCommand /\ go.pc = "next" /\ go.kind = kind
    BY OsdIdle DEF OsdCommand, Osds!Phase
  <2>3. stop \in OsdCommand /\ stop.pc = "spawn" /\ stop.kind = kind
    BY OsdIdle DEF OsdCommand, Osds!Phase
  <2> HIDE DEF go, stop
  <2>4. kind # "deactivate" => OsdKinds(go)
    BY <2>1, <2>2 DEF OsdKinds
  <2>5. OsdKinds(stop)
    BY <2>1, <2>3 DEF OsdKinds
  <2> QED
    BY <2>1, <2>2, <2>3, <2>4, <2>5, OsdQuiet DEF OsdInv, OsdTypes, OsdFound, OsdRemoval
<1>3. ASSUME NEW d \in Disk, NEW wal \in Osds!Wal, Osds!StartCreate(d, wal)
      PROVE  OsdInv'
  <2> DEFINE new == [Osds!Idle EXCEPT !.pc = "osd_create", !.kind = "create", !.disk = d, !.wal = wal]
  <2>1. command' = new /\ UNCHANGED <<known, full, elsewhere, up, vg, lv, journal, made, ignored>>
    BY <1>3 DEF Osds!StartCreate, Osds!cluster, Osds!volumes
  <2>2. new \in OsdCommand /\ new.pc = "osd_create" /\ new.todo = {} /\ new.kind = "create"
    BY OsdIdle DEF OsdCommand, Osds!Phase, Osds!Kind, Osds!Idle
  <2> HIDE DEF new
  <2>3. OsdKinds(new)
    BY <2>2 DEF OsdKinds
  <2> QED
    BY <2>1, <2>2, <2>3, OsdQuiet DEF OsdInv, OsdTypes, OsdFound, OsdRemoval
<1> QED
  BY <1>1, <1>2, <1>3

\* It takes the next OSD.
LEMMA OsdNextOsd ==
  ASSUME OsdInv, Osds!NextOsd
  PROVE  OsdInv'
<1>1. /\ command.pc = "next" /\ command \in OsdCommand /\ OsdKinds(command)
      /\ UNCHANGED <<known, full, elsewhere, up, vg, lv, journal, made, ignored>>
  BY DEF OsdInv, OsdTypes, Osds!NextOsd, Osds!At, Osds!cluster, Osds!volumes
<1>2. CASE command' = Osds!Idle
  BY <1>1, <1>2, OsdEnd DEF OsdInv, OsdTypes
<1>3. ASSUME NEW o \in command.todo, NEW p,
             Osds!is_responsible_for(o) \/ command.kind \in {"destroy", "rebuild"},
             p = IF Osds!is_responsible_for(o) /\ (command.kind = "rebuild" => <<o, "data">> \in lv)
                 THEN Osds!First[command.kind] ELSE "next",
             command' = [command EXCEPT !.todo = @ \ {o}, !.id = o, !.wal = Osds!location(o),
                                        !.disk = vg[o], !.pc = p]
      PROVE  OsdInv'
  <2> DEFINE new == [command EXCEPT !.todo = @ \ {o}, !.id = o, !.wal = Osds!location(o),
                                    !.disk = vg[o], !.pc = p]
  <2>1. command.kind \in {"destroy", "rebuild", "activate", "reactivate"}
    BY <1>1 DEF OsdKinds, OsdCommand, Osds!Kind
  <2>2. /\ \/ p = "next"
           \/ p = "check" /\ command.kind \in {"destroy", "rebuild"}
           \/ p = "start" \/ (p = "clean" /\ command.kind = "reactivate")
        /\ p # "next" => <<o, "wal">> \in lv
    BY <1>3, <2>1 DEF Osds!First, Osds!is_responsible_for
  <2>3. p \in Osds!Phase /\ p \in {"next", "check", "start", "clean"}
    BY <2>2 DEF Osds!Phase
  <2>4. o \in Osd /\ Osds!location(o) \in Osds!Wal /\ vg[o] \in Disk \cup {Osds!None}
    BY <1>1 DEF OsdInv, OsdTypes, OsdCommand, Osds!location, Osds!Wal
  <2>5. /\ new \in OsdCommand /\ new.pc = p /\ new.kind = command.kind /\ new.todo = command.todo \ {o}
        /\ new.id = o /\ new.wal = Osds!location(o)
    BY <1>1, <2>3, <2>4 DEF OsdCommand
  <2>6. command' = new
    BY <1>3
  <2> HIDE DEF new
  <2>7. OsdKinds(new)
    BY <2>1, <2>2, <2>5 DEF OsdKinds
  <2>8. ~ignored /\ p # "next" /\ Osds!location(o) = "internal" => o \notin journal
    BY <2>2, <2>4 DEF OsdInv, OsdLogs, Osds!location
  <2>9. OsdKinds(command)' /\ OsdCopy(command)' /\ OsdOrder(command)'
    BY <1>1, <2>3, <2>5, <2>6, <2>7, <2>8 DEF OsdKinds, OsdCopy, OsdOrder, OsdFound, OsdRemoval
  <2>10. OsdTypes' /\ OsdLogs' /\ Osds!DataKept'
    BY <1>1, <2>5, <2>6 DEF OsdInv, OsdTypes, OsdLogs, Osds!DataKept
  <2> QED
    BY <2>9, <2>10 DEF OsdInv
<1> QED
  BY <1>2, <1>3 DEF Osds!NextOsd

\* An OSD gets its number.
LEMMA OsdCreated ==
  ASSUME OsdInv, Osds!OsdCreate
  PROVE  OsdInv'
<1>1. /\ command.pc = "osd_create" /\ command \in OsdCommand /\ OsdKinds(command)
      /\ UNCHANGED <<full, elsewhere, up, vg, lv, journal, made, ignored>>
  BY DEF OsdInv, OsdTypes, Osds!OsdCreate, Osds!At, Osds!volumes
<1>2. CASE Osds!GoTo("next") /\ UNCHANGED known
  <2>1. "next" \in Osds!Phase
    BY DEF Osds!Phase
  <2>2. OsdKinds(command')
    BY <1>1, <1>2, <2>1, OsdGoTo DEF OsdKinds
  <2> QED
    BY <1>1, <1>2, <2>1, <2>2, OsdGoTo, OsdQuiet DEF OsdInv, OsdTypes, OsdFound, OsdRemoval
<1>3. ASSUME NEW o \in Osd, NEW p, p = IF command.wal = "external" THEN "backup" ELSE "wal",
             known' = known \cup {o}, command' = [command EXCEPT !.id = o, !.pc = p]
      PROVE  OsdInv'
  <2> DEFINE new == [command EXCEPT !.id = o, !.pc = p]
  <2>1. p \in Osds!Phase /\ p \in {"backup", "wal"} /\ (p = "wal" => command.wal # "external")
    BY <1>3 DEF Osds!Phase
  <2>2. /\ new \in OsdCommand /\ new.pc = p /\ new.kind = command.kind /\ new.todo = command.todo
        /\ new.wal = command.wal
    BY <1>1, <2>1 DEF OsdCommand
  <2>3. command' = new
    BY <1>3
  <2> HIDE DEF new
  <2>4. OsdKinds(new)
    BY <1>1, <2>1, <2>2 DEF OsdKinds
  <2> QED
    BY <1>1, <1>3, <2>1, <2>2, <2>3, <2>4, OsdQuiet DEF OsdInv, OsdTypes, OsdFound, OsdRemoval
<1> QED
  BY <1>2, <1>3 DEF Osds!OsdCreate, Osds!Skip

\* A command that goes to another step of the same OSD.
LEMMA OsdStepTo ==
  ASSUME OsdInv, NEW p \in Osds!Phase, Osds!GoTo(p), command.kind # "deactivate",
         p \notin {"check", "purge", "stop", "clean"}
  PROVE  /\ OsdKinds(command)' /\ command' \in OsdCommand
         /\ p \notin OsdRemoval => OsdCopy(command)'
<1>1. /\ command' \in OsdCommand /\ command'.pc = p /\ command'.kind = command.kind
      /\ command'.todo = command.todo
  BY OsdGoTo
<1> QED
  BY <1>1 DEF OsdInv, OsdKinds, OsdCopy

\* A volume of a new OSD is made.
LEMMA OsdCreateVolume ==
  ASSUME OsdInv, NEW volume \in Osds!Volume, Osds!CreateVolume(volume)
  PROVE  OsdInv'
<1> DEFINE o == command.id
<1>1. /\ command.pc = volume /\ volume \in {"wal", "backup", "data", "block"}
      /\ command \in OsdCommand /\ o \in Osd
      /\ command.kind # "deactivate" /\ OsdOrder(command)
      /\ UNCHANGED <<known, full, elsewhere, up, made, ignored>>
  BY DEF OsdInv, OsdTypes, OsdKinds, OsdCommand, Osds!CreateVolume, Osds!At, Osds!Volume, Osds!cluster
<1>2. CASE Osds!GoTo("next") /\ UNCHANGED <<vg, lv, journal>>
  <2>1. "next" \in Osds!Phase
    BY DEF Osds!Phase
  <2>2. OsdKinds(command)'
    BY <1>1, <1>2, <2>1, OsdStepTo
  <2>3. OsdKinds(command')
    BY <2>2 DEF OsdKinds
  <2> QED
    BY <1>1, <1>2, <2>1, <2>3, OsdGoTo, OsdQuiet DEF OsdInv, OsdTypes, OsdFound, OsdRemoval
<1>3. ASSUME vg' \in {vg, [vg EXCEPT ![o] = Osds!Disk_(o)]}, lv' = lv \cup {<<o, volume>>},
             journal' = IF volume # "wal" THEN journal
                        ELSE IF command.wal = "external" THEN journal \cup {o} ELSE journal \ {o},
             Osds!GoTo(Osds!After[volume])
      PROVE  OsdInv'
  <2>1. PICK p \in {"wal", "data", "block", "mkfs"} :
          /\ Osds!GoTo(p)
          /\ p = "data" => volume = "wal"
          /\ p = "block" => volume = "data"
          /\ p = "wal" => volume = "backup"
    BY <1>1, <1>3 DEF Osds!After
  <2>2. p \in Osds!Phase
    BY DEF Osds!Phase
  <2>3. /\ command'.pc = p /\ command'.id = o /\ OsdKinds(command)' /\ OsdCopy(command)'
        /\ command' \in OsdCommand
    BY <1>1, <2>1, <2>2, OsdGoTo, OsdStepTo DEF OsdRemoval
  <2>4. Osds!Disk_(o) \in Disk \cup {Osds!None}
    BY <1>1 DEF Osds!Disk_, OsdInv, OsdTypes, OsdCommand
  <2>5. OsdTypes'
    BY <1>1, <1>3, <2>3, <2>4 DEF OsdInv, OsdTypes
  <2>6. volume \in {"data", "block"} => <<o, "wal">> \in lv
    BY <1>1 DEF OsdOrder
  <2>7. volume = "wal" /\ command.wal = "external" => <<o, "backup">> \in lv
    BY <1>1 DEF OsdOrder
  <2>8. ASSUME ~ignored, NEW u \in Osd
        PROVE  /\ <<u, "data">> \in lv' \/ <<u, "block">> \in lv' => <<u, "wal">> \in lv'
               /\ <<u, "wal">> \in lv' /\ u \in journal' => <<u, "backup">> \in lv'
    <3>1. /\ <<u, "data">> \in lv \/ <<u, "block">> \in lv => <<u, "wal">> \in lv
          /\ <<u, "wal">> \in lv /\ u \in journal => <<u, "backup">> \in lv
      BY <2>8 DEF OsdInv, OsdLogs
    <3>2. CASE u = o
      BY <1>1, <1>3, <2>6, <2>7, <3>1, <3>2
    <3>3. CASE u # o
      BY <1>1, <1>3, <3>1, <3>3
    <3> QED
      BY <3>2, <3>3
  <2>9. OsdLogs'
    BY <1>1, <2>8 DEF OsdLogs
  <2>10. OsdOrder(command)'
    BY <1>1, <1>3, <2>1, <2>3, <2>6 DEF OsdOrder, OsdFound, OsdRemoval
  <2> QED
    BY <1>1, <2>3, <2>5, <2>9, <2>10 DEF OsdInv, Osds!DataKept
<1> QED
  BY <1>2, <1>3 DEF Osds!CreateVolume, Osds!Skip

\* The daemon of a new OSD starts.
LEMMA OsdDaemon ==
  ASSUME OsdInv, Osds!Mkfs \/ Osds!StartDaemon
  PROVE  OsdInv'
<1>1. /\ command.pc \in {"mkfs", "start"} /\ command \in OsdCommand /\ command.id \in Osd
      /\ command.kind # "deactivate" /\ UNCHANGED <<known, full, elsewhere, vg, lv, journal, ignored>>
      /\ up' \in {up, up \cup {command.id}} /\ made' \in {made, made \cup {command.id}}
  BY DEF OsdInv, OsdTypes, OsdKinds, OsdCommand, Osds!Mkfs, Osds!StartDaemon, Osds!At, Osds!cluster, Osds!volumes
<1>2. PICK p \in {"start", "next"} : Osds!GoTo(p)
  BY DEF Osds!Mkfs, Osds!StartDaemon
<1>3. p \in Osds!Phase
  BY DEF Osds!Phase
<1>4. OsdKinds(command)'
  BY <1>1, <1>2, <1>3, OsdStepTo
<1>5. OsdKinds(command')
  BY <1>4 DEF OsdKinds
<1>6. up' \subseteq Osd /\ made' \subseteq Osd
  BY <1>1 DEF OsdInv, OsdTypes
<1> QED
  BY <1>1, <1>2, <1>3, <1>5, <1>6, OsdGoTo, OsdQuiet DEF OsdInv, OsdTypes, OsdFound, OsdRemoval

\* destroy asks the cluster whether the OSD is needed.
LEMMA OsdCheckSafe ==
  ASSUME OsdInv, Osds!CheckSafe
  PROVE  OsdInv'
<1>1. /\ command.pc = "check" /\ command \in OsdCommand /\ command.kind \in {"destroy", "rebuild"}
      /\ UNCHANGED <<known, full, elsewhere, up, vg, lv, journal, made, ignored>>
  BY DEF OsdInv, OsdTypes, OsdKinds, Osds!CheckSafe, Osds!At, Osds!cluster, Osds!volumes
<1>2. CASE command' = Osds!Idle
  BY <1>1, <1>2, OsdEnd DEF OsdInv, OsdTypes
<1>3. CASE Osds!GoTo("stop") /\ Osds!run_safety_check({command.id}, command.strict)
  <2>1. "stop" \in Osds!Phase
    BY DEF Osds!Phase
  <2>2. /\ command' \in OsdCommand /\ command'.pc = "stop" /\ command'.kind = command.kind
        /\ command'.todo = command.todo /\ command'.id = command.id /\ command'.wal = command.wal
    BY <1>3, <2>1, OsdGoTo
  <2>3. elsewhere \/ (full \cap up) \ {command.id} # {}
    BY <1>3 DEF Osds!run_safety_check
  <2>4. OsdKinds(command)' /\ OsdCopy(command)' /\ OsdOrder(command)'
    BY <1>1, <2>2, <2>3 DEF OsdInv, OsdKinds, OsdCopy, OsdOrder, OsdFound, OsdRemoval
  <2>5. OsdTypes' /\ OsdLogs' /\ Osds!DataKept'
    BY <1>1, <2>2 DEF OsdInv, OsdTypes, OsdLogs, Osds!DataKept
  <2> QED
    BY <2>4, <2>5 DEF OsdInv
<1> QED
  BY <1>2, <1>3 DEF Osds!CheckSafe

\* A daemon is stopped.
LEMMA OsdStopDaemon ==
  ASSUME OsdInv, Osds!StopDaemon
  PROVE  OsdInv'
<1>1. /\ command.pc = "stop" /\ command.kind \in {"destroy", "rebuild", "reactivate"}
      /\ up' = up \ {command.id} /\ UNCHANGED <<known, full, elsewhere, vg, lv, journal, made, ignored>>
  BY DEF OsdInv, OsdKinds, Osds!StopDaemon, Osds!At, Osds!volumes
<1>2. PICK p \in {"start", "purge"} : Osds!GoTo(p) /\ (p = "start" <=> command.kind = "reactivate")
  BY DEF Osds!StopDaemon
<1>3. p \in Osds!Phase
  BY DEF Osds!Phase
<1>4. /\ command' \in OsdCommand /\ command'.pc = p /\ command'.kind = command.kind
      /\ command'.todo = command.todo /\ command'.id = command.id /\ command'.wal = command.wal
  BY <1>2, <1>3, OsdGoTo
<1>5. OsdKinds(command)' /\ OsdCopy(command)' /\ OsdOrder(command)'
  BY <1>1, <1>2, <1>4 DEF OsdInv, OsdKinds, OsdCopy, OsdOrder, OsdFound, OsdRemoval
<1>6. OsdTypes' /\ OsdLogs' /\ Osds!DataKept'
  BY <1>1, <1>4 DEF OsdInv, OsdTypes, OsdLogs, Osds!DataKept
<1> QED
  BY <1>5, <1>6 DEF OsdInv

\* An OSD is purged from the cluster.
LEMMA OsdPurge ==
  ASSUME OsdInv, Osds!Purge
  PROVE  OsdInv'
<1>1. /\ command.pc = "purge" /\ command.kind \in {"destroy", "rebuild"}
      /\ known' = known \ {command.id} /\ full' = full \ {command.id} /\ Osds!GoTo("rm_data")
      /\ UNCHANGED <<elsewhere, up, vg, lv, journal, made, ignored>>
  BY DEF OsdInv, OsdKinds, Osds!Purge, Osds!At, Osds!volumes
<1>2. "rm_data" \in Osds!Phase
  BY DEF Osds!Phase
<1>3. /\ command' \in OsdCommand /\ command'.pc = "rm_data" /\ command'.id = command.id
      /\ command'.wal = command.wal /\ OsdKinds(command)'
  BY <1>1, <1>2, OsdGoTo, OsdStepTo
<1>4. OsdCopy(command)' /\ OsdOrder(command)'
  BY <1>1, <1>3 DEF OsdInv, OsdCopy, OsdOrder, OsdFound, OsdRemoval
<1>5. OsdTypes' /\ OsdLogs' /\ Osds!DataKept'
  BY <1>1, <1>3 DEF OsdInv, OsdTypes, OsdCopy, OsdLogs, Osds!DataKept
<1> QED
  BY <1>3, <1>4, <1>5 DEF OsdInv

\* A volume of an OSD is removed, or is not, ...
LEMMA OsdRemoveVolume ==
  ASSUME OsdInv, NEW phase \in {"rm_data", "rm_block", "rm_wal", "rm_backup"}, Osds!RemoveVolume(phase)
  PROVE  OsdInv'
<1> DEFINE o == command.id
<1>1. /\ command.pc = phase /\ command \in OsdCommand /\ o \in Osd /\ command.kind # "deactivate"
      /\ made' = made \ {o} /\ UNCHANGED <<known, full, elsewhere, up, vg, journal>>
      /\ OsdOrder(command) /\ OsdCopy(command)
  BY DEF OsdInv, OsdTypes, OsdKinds, OsdCommand, Osds!RemoveVolume, Osds!At, Osds!cluster
<1>2. PICK p \in {"rm_block", "rm_wal", "rm_backup", "rm_vg"}, volume \in {"data", "block", "wal", "backup"} :
        /\ Osds!GoTo(p)
        /\ \/ lv' = lv \ {<<o, volume>>} /\ ignored' = ignored
           \/ lv' = lv /\ ignored' = TRUE
        /\ p = "rm_block" => volume = "data"
        /\ p = "rm_wal" => phase = "rm_block" /\ volume = "block"
        /\ p = "rm_backup" => volume = "wal"
        /\ p = "rm_vg" => volume = "wal" \/ phase = "rm_backup"
        /\ volume = "wal" <=> phase = "rm_wal"
        /\ volume = "backup" <=> phase = "rm_backup"
  <2>1. CASE phase = "rm_data"
    BY <2>1 DEF Osds!RemoveVolume, Osds!Order, Osds!Then
  <2>2. CASE phase = "rm_block"
    BY <2>2 DEF Osds!RemoveVolume, Osds!Order, Osds!Then
  <2>3. CASE phase = "rm_wal"
    BY <2>3 DEF Osds!RemoveVolume, Osds!Order, Osds!Then
  <2>4. CASE phase = "rm_backup"
    BY <2>4 DEF Osds!RemoveVolume, Osds!Order, Osds!Then
  <2> QED
    BY <2>1, <2>2, <2>3, <2>4
<1>3. p \in Osds!Phase
  BY DEF Osds!Phase
<1>4. /\ command'.pc = p /\ command'.id = o /\ command'.wal = command.wal /\ OsdKinds(command)'
      /\ command' \in OsdCommand
  BY <1>1, <1>2, <1>3, OsdGoTo, OsdStepTo
<1>5. OsdCopy(command)'
  BY <1>1, <1>4 DEF OsdCopy, OsdRemoval
<1>6. OsdTypes' /\ Osds!DataKept'
  BY <1>1, <1>2, <1>4 DEF OsdInv, OsdTypes, Osds!DataKept
<1>7. CASE ignored'
  <2>1. OsdLogs'
    BY <1>7 DEF OsdLogs
  <2>2. OsdOrder(command)'
    BY <1>2, <1>4, <1>7 DEF OsdOrder
  <2> QED
    BY <1>4, <1>5, <1>6, <2>1, <2>2 DEF OsdInv
<1>8. CASE ~ignored'
  <2>1. lv' = lv \ {<<o, volume>>} /\ ~ignored /\ ~ignored'
    BY <1>2, <1>8
  <2>2. ASSUME NEW u \in Osd
        PROVE  /\ <<u, "data">> \in lv' \/ <<u, "block">> \in lv' => <<u, "wal">> \in lv'
               /\ <<u, "wal">> \in lv' /\ u \in journal' => <<u, "backup">> \in lv'
    <3>1. /\ <<u, "data">> \in lv \/ <<u, "block">> \in lv => <<u, "wal">> \in lv
          /\ <<u, "wal">> \in lv /\ u \in journal => <<u, "backup">> \in lv
      BY <2>1 DEF OsdInv, OsdLogs
    <3>2. CASE u = o
      <4>1. phase = "rm_wal" => <<o, "data">> \notin lv /\ <<o, "block">> \notin lv
        BY <1>1, <2>1 DEF OsdOrder
      <4>2. phase = "rm_backup" => <<o, "wal">> \notin lv
        BY <1>1, <2>1 DEF OsdOrder
      <4> QED
        BY <1>1, <1>2, <2>1, <3>1, <3>2, <4>1, <4>2
    <3>3. CASE u # o
      BY <1>1, <2>1, <3>1, <3>3
    <3> QED
      BY <3>2, <3>3
  <2>3. OsdLogs'
    BY <2>2 DEF OsdLogs
  <2>4. OsdOrder(command)'
    BY <1>1, <1>2, <1>4, <2>1 DEF OsdOrder, OsdFound, OsdRemoval
  <2> QED
    BY <1>4, <1>5, <1>6, <2>3, <2>4 DEF OsdInv
<1> QED
  BY <1>7, <1>8

\* ... and a volume group after it: in the wrong group the running OSDs keep their logs, and the
\* one that has a complete copy runs.
LEMMA OsdRemoveVg ==
  ASSUME OsdInv, Osds!RemoveVg
  PROVE  OsdInv'
<1> DEFINE o == command.id
<1>1. /\ command.pc = "rm_vg" /\ command \in OsdCommand /\ o \in Osd /\ command.kind # "deactivate"
      /\ UNCHANGED <<known, elsewhere, up, journal, made>> /\ OsdOrder(command) /\ OsdCopy(command)
  BY DEF OsdInv, OsdTypes, OsdKinds, OsdCommand, Osds!RemoveVg, Osds!At
<1>2. PICK p \in {"osd_create", "next"} : Osds!GoTo(p)
  BY DEF Osds!RemoveVg
<1>3. p \in Osds!Phase
  BY DEF Osds!Phase
<1>4. command'.pc = p /\ OsdKinds(command)' /\ OsdCopy(command)' /\ command' \in OsdCommand
  BY <1>1, <1>2, <1>3, OsdGoTo, OsdStepTo DEF OsdRemoval
<1>5. OsdOrder(command)'
  BY <1>4 DEF OsdOrder, OsdFound, OsdRemoval
<1>6. /\ lv' \subseteq lv /\ full' \subseteq full
      /\ full \cap up \subseteq full'
      /\ vg' \in {vg, [vg EXCEPT ![o] = Osds!None]} /\ ignored' \in {ignored, TRUE}
  BY DEF Osds!RemoveVg, Osds!Logs
<1>7. OsdTypes'
  BY <1>1, <1>4, <1>6 DEF OsdInv, OsdTypes
<1>8. Osds!DataKept'
  BY <1>1, <1>6 DEF OsdCopy, OsdRemoval, Osds!DataKept
<1>9. OsdLogs'
  <2> SUFFICES ASSUME ~ignored', NEW u \in Osd
               PROVE  /\ <<u, "data">> \in lv' \/ <<u, "block">> \in lv' => <<u, "wal">> \in lv'
                      /\ <<u, "wal">> \in lv' /\ u \in journal' => <<u, "backup">> \in lv'
    BY DEF OsdLogs
  <2>1. ~ignored
    BY <1>6
  <2>2. ~Osds!InVgjnl /\ <<o, "wal">> \notin lv
    BY <1>1, <2>1 DEF OsdOrder, OsdFound, OsdRemoval, Osds!InVgjnl
  <2>3. lv' = {v \in lv : v[1] = o => v[2] = "wal" /\ v[1] \in journal}
    BY <2>2 DEF Osds!RemoveVg
  <2>4. /\ <<u, "data">> \in lv \/ <<u, "block">> \in lv => <<u, "wal">> \in lv
        /\ <<u, "wal">> \in lv /\ u \in journal => <<u, "backup">> \in lv
    BY <2>1 DEF OsdInv, OsdLogs
  <2>5. CASE u = o
    BY <2>2, <2>3, <2>5
  <2>6. CASE u # o
    BY <1>1, <2>3, <2>4, <2>6
  <2> QED
    BY <2>5, <2>6
<1> QED
  BY <1>4, <1>5, <1>7, <1>8, <1>9 DEF OsdInv

\* deactivate stops the daemons at once.
LEMMA OsdThreads ==
  ASSUME OsdInv, Osds!Spawn \/ (\E t \in Osd : Osds!RunThread(t)) \/ Osds!Joined
  PROVE  OsdInv'
<1>1. /\ command.pc = "spawn" /\ command \in OsdCommand /\ OsdKinds(command)
      /\ UNCHANGED <<known, full, elsewhere, vg, lv, journal, made, ignored>>
  BY DEF OsdInv, OsdTypes, Osds!Spawn, Osds!RunThread, Osds!Joined, Osds!At, Osds!cluster, Osds!volumes
<1>2. up' \subseteq Osd
  BY DEF OsdInv, OsdTypes, Osds!Spawn, Osds!RunThread, Osds!Joined, Osds!cluster
<1>3. CASE Osds!Joined
  BY <1>1, <1>2, <1>3, OsdEnd DEF Osds!Joined
<1>4. CASE Osds!Spawn
  <2>1. PICK o \in command.todo, threads \in SUBSET Osd, id \in Osd :
          command' = [command EXCEPT !.todo = @ \ {o}, !.id = id, !.threads = threads]
    <3>1. PICK o \in command.todo :
            \/ command' = [command EXCEPT !.todo = @ \ {o}, !.id = o, !.threads = @ \cup {o}]
            \/ command' = [command EXCEPT !.todo = @ \ {o}]
      BY <1>4 DEF Osds!Spawn
    <3>2. o \in Osd /\ command.id \in Osd /\ command.threads \subseteq Osd
      BY <1>1 DEF OsdCommand
    <3>3. CASE command' = [command EXCEPT !.todo = @ \ {o}, !.id = o, !.threads = @ \cup {o}]
      BY <3>2, <3>3
    <3>4. CASE command' = [command EXCEPT !.todo = @ \ {o}]
      <4>1. [command EXCEPT !.todo = @ \ {o}]
              = [command EXCEPT !.todo = @ \ {o}, !.id = command.id, !.threads = command.threads]
        BY <1>1 DEF OsdCommand
      <4> QED
        BY <3>2, <3>4, <4>1
    <3> QED
      BY <3>1, <3>3, <3>4
  <2> DEFINE new == [command EXCEPT !.todo = @ \ {o}, !.id = id, !.threads = threads]
  <2>2. new \in OsdCommand /\ new.pc = "spawn" /\ new.kind = command.kind /\ new.todo \subseteq command.todo
    BY <1>1 DEF OsdCommand
  <2>3. command' = new
    BY <2>1
  <2> HIDE DEF new
  <2>4. OsdKinds(new)
    BY <1>1, <2>2 DEF OsdKinds
  <2> QED
    BY <1>1, <1>2, <2>2, <2>3, <2>4, OsdQuiet DEF OsdInv, OsdTypes, OsdFound, OsdRemoval
<1>5. ASSUME NEW t \in Osd, Osds!RunThread(t)
      PROVE  OsdInv'
  <2> DEFINE new == [command EXCEPT !.threads = @ \ {t}]
  <2>1. new \in OsdCommand /\ new.pc = "spawn" /\ new.kind = command.kind /\ new.todo = command.todo
    BY <1>1 DEF OsdCommand
  <2>2. command' = new
    BY <1>5 DEF Osds!RunThread
  <2> HIDE DEF new
  <2>3. OsdKinds(new)
    BY <1>1, <2>1 DEF OsdKinds
  <2> QED
    BY <1>1, <1>2, <2>1, <2>2, <2>3, OsdQuiet DEF OsdInv, OsdTypes, OsdFound, OsdRemoval
<1> QED
  BY <1>3, <1>4, <1>5

\* reactivate has waited for the cluster.
LEMMA OsdClean ==
  ASSUME OsdInv, Osds!Clean
  PROVE  OsdInv'
<1>1. /\ command.pc = "clean" /\ command.kind = "reactivate" /\ Osds!GoTo("stop")
      /\ UNCHANGED <<known, full, elsewhere, up, vg, lv, journal, made, ignored>>
  BY DEF OsdInv, OsdKinds, Osds!Clean, Osds!At, Osds!cluster, Osds!volumes
<1>2. "stop" \in Osds!Phase
  BY DEF Osds!Phase
<1>3. /\ command' \in OsdCommand /\ command'.pc = "stop" /\ command'.kind = "reactivate"
      /\ command'.todo = command.todo /\ command'.id = command.id /\ command'.wal = command.wal
  BY <1>1, <1>2, OsdGoTo
<1>4. OsdKinds(command)' /\ OsdCopy(command)' /\ OsdOrder(command)'
  BY <1>1, <1>3 DEF OsdInv, OsdKinds, OsdCopy, OsdOrder, OsdFound, OsdRemoval
<1>5. OsdTypes' /\ OsdLogs' /\ Osds!DataKept'
  BY <1>1, <1>3 DEF OsdInv, OsdTypes, OsdLogs, Osds!DataKept
<1> QED
  BY <1>4, <1>5 DEF OsdInv

\* A step fails or the command is killed.
LEMMA OsdStepFails ==
  ASSUME OsdInv, Osds!StepFails
  PROVE  OsdInv'
<1>1. command \in OsdCommand /\ UNCHANGED <<known, full, elsewhere, up, vg, lv, journal, made, ignored>>
  BY DEF OsdInv, OsdTypes, Osds!StepFails, Osds!cluster, Osds!volumes
<1>2. CASE command' = Osds!Idle
  BY <1>1, <1>2, OsdEnd DEF OsdInv, OsdTypes
<1>3. CASE command.kind \in {"destroy", "rebuild", "reactivate"} /\ Osds!GoTo("next")
  <2>1. "next" \in Osds!Phase
    BY DEF Osds!Phase
  <2>2. OsdKinds(command)'
    BY <1>3, <2>1, OsdStepTo
  <2>3. OsdKinds(command')
    BY <2>2 DEF OsdKinds
  <2> QED
    BY <1>1, <1>3, <2>1, <2>3, OsdGoTo, OsdQuiet DEF OsdInv, OsdTypes, OsdFound, OsdRemoval
<1>4. CASE command.pc = "stop" /\ command.kind # "reactivate" /\ Osds!GoTo("purge")
  <2>1. "purge" \in Osds!Phase
    BY DEF Osds!Phase
  <2>2. /\ command' \in OsdCommand /\ command'.pc = "purge" /\ command'.kind = command.kind
        /\ command'.todo = command.todo /\ command'.id = command.id /\ command'.wal = command.wal
    BY <1>4, <2>1, OsdGoTo
  <2>3. OsdKinds(command)' /\ OsdCopy(command)' /\ OsdOrder(command)'
    BY <1>1, <1>4, <2>2 DEF OsdInv, OsdKinds, OsdCopy, OsdOrder, OsdFound, OsdRemoval
  <2>4. OsdTypes' /\ OsdLogs' /\ Osds!DataKept'
    BY <1>1, <2>2 DEF OsdInv, OsdTypes, OsdLogs, Osds!DataKept
  <2> QED
    BY <2>3, <2>4 DEF OsdInv
<1> QED
  BY <1>2, <1>3, <1>4 DEF Osds!StepFails, Osds!At, Osds!Skip

\* The invariant of the OSDs is inductive.
LEMMA OsdStep == OsdInv /\ [Osds!Next]_(Osds!vars) => OsdInv'
<1> SUFFICES ASSUME OsdInv, [Osds!Next]_(Osds!vars)
             PROVE  OsdInv'
  OBVIOUS
<1>1. CASE UNCHANGED Osds!vars
  BY <1>1 DEF Osds!vars, Osds!cluster, Osds!volumes, OsdInv, OsdTypes, Osds!DataKept, OsdLogs,
     OsdKinds, OsdCopy, OsdOrder
<1>2. CASE Osds!Step
  BY <1>2, OsdNextOsd, OsdCreated, OsdCreateVolume, OsdDaemon, OsdCheckSafe, OsdStopDaemon, OsdPurge,
     OsdRemoveVolume, OsdRemoveVg, OsdThreads, OsdClean DEF Osds!Step
<1> QED
  BY <1>1, <1>2, OsdCluster, OsdBegin, OsdStepFails DEF Osds!Next

\* It implies what is promised of them.
LEMMA OsdKept == OsdInv => Osds!TypeOK /\ Osds!DataKept /\ Osds!Removable
<1> SUFFICES ASSUME OsdInv
             PROVE  Osds!TypeOK /\ Osds!DataKept /\ Osds!Removable
  OBVIOUS
<1>1. Osds!TypeOK
  BY DEF OsdInv, OsdTypes, OsdCommand, Osds!TypeOK
<1>2. Osds!Removable
  BY DEF OsdInv, OsdLogs, Osds!Removable, Osds!is_responsible_for
<1> QED
  BY <1>1, <1>2 DEF OsdInv

---------------------------------------------------------------------------
(***************************************************************************)
(* The development host: whose id it is that a command writes.             *)
(***************************************************************************)

DevhostConfig == [id : {Vms!NoId} \cup Vms!Id, online : BOOLEAN, age : Vms!Age]
DevhostFile == [id : {Vms!NoId} \cup Vms!Id, online : BOOLEAN]
DevhostImage == {Vms!NoImage, Vms!Raw} \cup Vms!Id
DevhostJob ==
  [pc : Vms!Phase, vm : VM \cup {Vms!None}, cfg : DevhostConfig, existed : BOOLEAN,
   rest : SUBSET VM, shut : BOOLEAN]

DevhostTypes ==
  /\ config \in [VM -> DevhostConfig] /\ nix \in [VM -> DevhostFile]
  /\ torn \subseteq VM \X {"json", "nix"}
  /\ disk \in [VM -> DevhostImage] /\ tmp \in [VM -> DevhostImage]
  /\ nbd \in VM \cup {Vms!None} /\ units \in [VM -> {Vms!NoId} \cup Vms!Id]
  /\ job \in [Vms!Who -> DevhostJob]
  /\ left \in [commands : Nat, failures : Nat, crashes : Nat, days : Nat]

\* One command runs at a time (when no two may).
DevhostAlone == \A w, x \in Vms!Who : job[w].pc # "idle" /\ job[x].pc # "idle" => w = x

\* No two configurations have the same id.
DevhostIds == \A u, v \in VM : u # v /\ config[u].id # Vms!NoId => config[u].id # config[v].id

\* A file that is empty says nothing.
DevhostTorn == \A v \in VM :
  /\ <<v, "json">> \in torn => config[v].id = Vms!NoId
  /\ <<v, "nix">> \in torn => ~nix[v].online

EnsureImage == {"copy", "connect", "write", "disconnect", "undo_disconnect", "rename", "switch"}
EnsureUp == {"wait", "sync"}
Removing == {"rm_nix", "rm_data", "rm_switch"}

\* What a running command has done so far, and nobody has undone.
DevhostDone(j, w) ==
  /\ j.pc \in {"load", "json", "nix"} \cup EnsureImage \cup EnsureUp => w \in User
  /\ j.pc \in {"off_nix", "off_json"} => w = Cleanup
  /\ j.pc \notin {"idle", "look", "off_switch"} => j.vm \in VM
  /\ j.pc \in {"json", "off_nix", "off_json"} =>
       j.cfg.id \in Vms!Id /\ config[j.vm].id \in {Vms!NoId, j.cfg.id}
       /\ \A u \in VM \ {j.vm} : config[u].id # j.cfg.id
  /\ j.pc \in {"nix"} \cup EnsureImage \cup EnsureUp =>
       j.cfg.id \in Vms!Id /\ config[j.vm].id = j.cfg.id
  /\ j.pc \in EnsureImage \cup EnsureUp => nix[j.vm].id = j.cfg.id /\ nix[j.vm].online
  /\ j.pc \in EnsureUp => units[j.vm] = j.cfg.id
  /\ j.pc = "sync" => \E v \in VM : disk[v] = j.cfg.id
  /\ j.pc \in {"rm_json"} \cup Removing /\ w \in User => ~j.existed
  /\ j.pc \in {"off_nix", "off_json"} \/ (j.pc = "rm_json" /\ w = Cleanup) =>
       config[j.vm].age # "fresh"
  /\ j.pc \in Removing => config[j.vm].id = Vms!NoId

DevhostInv ==
  /\ DevhostTypes /\ DevhostAlone /\ DevhostIds /\ DevhostTorn
  /\ \A w \in Vms!Who : DevhostDone(job[w], w)

\* In the beginning there is no VM and no command runs.
LEMMA DevhostInit == CommandsAssumption /\ Vms!Init => DevhostInv
<1> SUFFICES ASSUME CommandsAssumption, Vms!Init
             PROVE  DevhostInv
  OBVIOUS
<1>1. Vms!Idle \in DevhostJob /\ Vms!Idle.pc = "idle"
  BY DEF Vms!Idle, DevhostJob, Vms!Phase, Vms!NoConfig, DevhostConfig, Vms!Age
<1>2. Vms!NoConfig \in DevhostConfig /\ Vms!NoConfig.id = Vms!NoId
  BY DEF Vms!NoConfig, DevhostConfig, Vms!Age
<1>3. Vms!NoFile \in DevhostFile /\ Vms!NoFile.id = Vms!NoId
  BY DEF Vms!NoFile, DevhostFile
<1>4. /\ \A w \in Vms!Who : job[w] = Vms!Idle
      /\ \A v \in VM : config[v] = Vms!NoConfig
      /\ torn = {}
  BY DEF Vms!Init
<1>5. DevhostTypes
  BY <1>1, <1>2, <1>3 DEF Vms!Init, CommandsAssumption, Vms!DevhostAssumption, DevhostTypes, DevhostImage
<1>6. \A w \in Vms!Who : DevhostDone(job[w], w)
  BY <1>1, <1>4 DEF DevhostDone, EnsureImage, EnsureUp, Removing
<1> QED
  BY <1>1, <1>2, <1>4, <1>5, <1>6 DEF DevhostInv, DevhostAlone, DevhostIds, DevhostTorn

\* Devhost counts as FiniteSets does.
LEMMA DevhostCounts ==
  ASSUME NEW S
  PROVE  Vms!Cardinality(S) = Cardinality(S) /\ Vms!IsFiniteSet(S) = IsFiniteSet(S)
BY DEF Vms!Cardinality, Cardinality, Vms!IsFiniteSet, IsFiniteSet

\* While a command runs, all others are idle; and it starts only when none runs.
LEMMA DevhostOthersIdle ==
  ASSUME CommandsAssumption, Together = 1, DevhostInv, NEW w \in Vms!Who,
         job[w].pc # "idle" \/ Vms!MayStart(w)
  PROVE  \A x \in Vms!Who \ {w} : job[x].pc = "idle"
<1>1. CASE job[w].pc # "idle"
  BY <1>1 DEF DevhostInv, DevhostAlone
<1>2. CASE Vms!MayStart(w)
  <2> DEFINE busy == {x \in Vms!Who : ~Vms!At(x, "idle")}
  <2>1. IsFiniteSet(Vms!Who)
    BY DevhostCounts, FS_Union, FS_Singleton DEF CommandsAssumption, Vms!DevhostAssumption, Vms!Who
  <2>2. busy \in SUBSET Vms!Who /\ Cardinality(busy) < 1
    BY <1>2, DevhostCounts DEF Vms!MayStart
  <2>3. (busy = {}) => \A x \in Vms!Who : job[x].pc = "idle"
    BY DEF Vms!At
  <2> HIDE DEF busy
  <2>4. IsFiniteSet(busy)
    BY <2>1, <2>2, FS_Subset
  <2>5. Cardinality(busy) \in Nat
    BY <2>4, FS_CardinalityType
  <2>6. Cardinality(busy) = 0
    BY <2>2, <2>5
  <2>7. busy = {}
    BY <2>4, <2>6, FS_EmptySet
  <2> QED
    BY <2>3, <2>7
<1> QED
  BY <1>1, <1>2

\* What a step of w makes of the job of w, and of the others.
LEMMA DevhostMoves ==
  ASSUME CommandsAssumption, Together = 1, DevhostInv, NEW w \in Vms!Who,
         job[w].pc # "idle" \/ Vms!MayStart(w),
         NEW new \in DevhostJob, job' = [job EXCEPT ![w] = new]
  PROVE  /\ job' \in [Vms!Who -> DevhostJob] /\ job'[w] = new
         /\ \A x \in Vms!Who \ {w} : job'[x].pc = "idle"
<1>1. \A x \in Vms!Who \ {w} : job[x].pc = "idle"
  BY DevhostOthersIdle
<1>2. job \in [Vms!Who -> DevhostJob]
  BY DEF DevhostInv, DevhostTypes
<1> QED
  BY <1>1, <1>2

\* As it goes on, a job changes nothing but its phase.
LEMMA DevhostGoTo ==
  ASSUME DevhostInv, NEW w \in Vms!Who, NEW p \in Vms!Phase, Vms!GoTo(w, p)
  PROVE  \E new \in DevhostJob :
           /\ job' = [job EXCEPT ![w] = new]
           /\ new.pc = p /\ new.vm = job[w].vm /\ new.cfg = job[w].cfg
           /\ new.existed = job[w].existed
<1> DEFINE new == [job[w] EXCEPT !.pc = p]
<1>1. job[w] \in DevhostJob
  BY DEF DevhostInv, DevhostTypes
<1>2. /\ new \in DevhostJob /\ new.pc = p /\ new.vm = job[w].vm /\ new.cfg = job[w].cfg
      /\ new.existed = job[w].existed
  BY <1>1 DEF DevhostJob
<1>3. job' = [job EXCEPT ![w] = new]
  BY DEF Vms!GoTo
<1> HIDE DEF new
<1> QED
  BY <1>2, <1>3

\* The invariant follows from what it says of the command that makes the step.
LEMMA DevhostFollows ==
  ASSUME CommandsAssumption, Together = 1, DevhostInv, NEW w \in Vms!Who,
         job[w].pc # "idle" \/ Vms!MayStart(w),
         NEW new \in DevhostJob, job' = [job EXCEPT ![w] = new],
         config' \in [VM -> DevhostConfig], nix' \in [VM -> DevhostFile],
         torn' \subseteq VM \X {"json", "nix"},
         disk' \in [VM -> DevhostImage], tmp' \in [VM -> DevhostImage],
         nbd' \in VM \cup {Vms!None}, units' \in [VM -> {Vms!NoId} \cup Vms!Id],
         left' \in [commands : Nat, failures : Nat, crashes : Nat, days : Nat],
         DevhostIds', DevhostTorn', (DevhostDone(job[w], w))'
  PROVE  DevhostInv'
<1>1. /\ job' \in [Vms!Who -> DevhostJob] /\ job'[w] = new
      /\ \A x \in Vms!Who \ {w} : job'[x].pc = "idle"
  BY DevhostMoves
<1>2. DevhostTypes'
  BY <1>1 DEF DevhostTypes
<1>3. DevhostAlone'
  BY <1>1 DEF DevhostAlone
<1>4. \A x \in Vms!Who : (DevhostDone(job[x], x))'
  BY <1>1 DEF DevhostDone, EnsureImage, EnsureUp, Removing
<1> QED
  BY <1>2, <1>3, <1>4 DEF DevhostInv

\* A step that writes no file needs only to keep what it says of the command.
LEMMA DevhostQuiet ==
  ASSUME CommandsAssumption, Together = 1, DevhostInv, NEW w \in Vms!Who,
         job[w].pc # "idle" \/ Vms!MayStart(w),
         NEW new \in DevhostJob, job' = [job EXCEPT ![w] = new],
         UNCHANGED Vms!files,
         disk' \in [VM -> DevhostImage], tmp' \in [VM -> DevhostImage],
         nbd' \in VM \cup {Vms!None}, units' \in [VM -> {Vms!NoId} \cup Vms!Id],
         left' \in [commands : Nat, failures : Nat, crashes : Nat, days : Nat],
         (DevhostDone(job[w], w))'
  PROVE  DevhostInv'
BY DevhostFollows DEF DevhostInv, DevhostTypes, DevhostIds, DevhostTorn, Vms!files

\* The exception handler of ensure.
LEMMA DevhostUndo ==
  ASSUME CommandsAssumption, Together = 1, DevhostInv, NEW w \in Vms!Who,
         job[w].pc \notin {"idle", "look", "off_switch"}, w \in User, job' = Vms!Undo(w),
         UNCHANGED Vms!files,
         disk' \in [VM -> DevhostImage], tmp' \in [VM -> DevhostImage],
         nbd' \in VM \cup {Vms!None}, units' \in [VM -> {Vms!NoId} \cup Vms!Id],
         left' \in [commands : Nat, failures : Nat, crashes : Nat, days : Nat]
  PROVE  DevhostInv'
<1>1. job[w] \in DevhostJob /\ job[w].vm \in VM
  BY DEF DevhostInv, DevhostTypes, DevhostDone
<1>2. CASE job[w].existed
  <2>1. Vms!Idle \in DevhostJob /\ Vms!Idle.pc = "idle"
    BY DEF Vms!Idle, DevhostJob, Vms!Phase, Vms!NoConfig, DevhostConfig, Vms!Age
  <2>2. job' = [job EXCEPT ![w] = Vms!Idle]
    BY <1>2 DEF Vms!Undo
  <2>3. job'[w].pc = "idle"
    BY <2>1, <2>2, DevhostMoves
  <2>4. (DevhostDone(job[w], w))'
    BY <2>3 DEF DevhostDone, EnsureImage, EnsureUp, Removing
  <2> QED
    BY <2>1, <2>2, <2>4, DevhostQuiet
<1>3. CASE ~job[w].existed
  <2> DEFINE new == [job[w] EXCEPT !.pc = "rm_json"]
  <2>1. new \in DevhostJob /\ new.pc = "rm_json" /\ new.vm \in VM /\ ~new.existed
    BY <1>1, <1>3 DEF DevhostJob, Vms!Phase
  <2>2. job' = [job EXCEPT ![w] = new]
    BY <1>3 DEF Vms!Undo
  <2> HIDE DEF new
  <2>3. job'[w] = new
    BY <2>1, <2>2, DevhostMoves
  <2>4. w # Cleanup
    BY DEF CommandsAssumption, Vms!DevhostAssumption
  <2>5. (DevhostDone(job[w], w))'
    BY <2>1, <2>3, <2>4 DEF DevhostDone, EnsureImage, EnsureUp, Removing
  <2> QED
    BY <2>1, <2>2, <2>5, DevhostQuiet
<1> QED
  BY <1>2, <1>3

\* A command ends.
LEMMA DevhostEnds ==
  ASSUME CommandsAssumption, Together = 1, DevhostInv, NEW w \in Vms!Who,
         job[w].pc # "idle", job' = [job EXCEPT ![w] = Vms!Idle],
         UNCHANGED <<Vms!files, Vms!images>>, units' \in [VM -> {Vms!NoId} \cup Vms!Id],
         left' \in [commands : Nat, failures : Nat, crashes : Nat, days : Nat]
  PROVE  DevhostInv'
<1>1. Vms!Idle \in DevhostJob /\ Vms!Idle.pc = "idle"
  BY DEF Vms!Idle, DevhostJob, Vms!Phase, Vms!NoConfig, DevhostConfig, Vms!Age
<1>2. job'[w].pc = "idle"
  BY <1>1, DevhostMoves
<1>3. (DevhostDone(job[w], w))'
  BY <1>2 DEF DevhostDone, EnsureImage, EnsureUp, Removing
<1> QED
  BY <1>1, <1>3, DevhostQuiet DEF DevhostInv, DevhostTypes, Vms!images


\* A bound that is used is lower than before.
LEMMA DevhostUse ==
  ASSUME DevhostInv, NEW b \in {"commands", "failures", "crashes", "days"}, Vms!Use(b)
  PROVE  left' \in [commands : Nat, failures : Nat, crashes : Nat, days : Nat] /\ left' # left
<1>1. left \in [commands : Nat, failures : Nat, crashes : Nat, days : Nat]
  BY DEF DevhostInv, DevhostTypes
<1>2. left[b] \in Nat
  BY <1>1
<1> QED
  BY <1>1, <1>2 DEF Vms!Use

\* What a switch makes of the units.
LEMMA DevhostSwitched ==
  ASSUME DevhostInv
  PROVE  /\ Vms!Switched \in [VM -> {Vms!NoId} \cup Vms!Id]
         /\ \A v \in VM : nix[v].online => Vms!Switched[v] = nix[v].id
  BY DEF DevhostInv, DevhostTypes, DevhostFile, Vms!Switched

\* Once the files of a VM are written, ensure goes on with its image and its unit.
LEMMA DevhostGoesOn ==
  ASSUME CommandsAssumption, Together = 1, DevhostInv, NEW w \in Vms!Who,
         job[w].pc \in EnsureImage \cup EnsureUp,
         NEW p \in EnsureImage \cup EnsureUp, Vms!GoTo(w, p), UNCHANGED Vms!files,
         disk' \in [VM -> DevhostImage], tmp' \in [VM -> DevhostImage],
         nbd' \in VM \cup {Vms!None}, units' \in [VM -> {Vms!NoId} \cup Vms!Id],
         left' \in [commands : Nat, failures : Nat, crashes : Nat, days : Nat],
         p \in EnsureUp => units'[job[w].vm] = job[w].cfg.id,
         p = "sync" => \E v \in VM : disk'[v] = job[w].cfg.id
  PROVE  DevhostInv'
<1>1. p \in Vms!Phase /\ p # "load"
  BY DEF EnsureImage, EnsureUp, Vms!Phase
<1>2. PICK new \in DevhostJob :
           /\ job' = [job EXCEPT ![w] = new]
           /\ new.pc = p /\ new.vm = job[w].vm /\ new.cfg = job[w].cfg
           /\ new.existed = job[w].existed
  BY <1>1, DevhostGoTo
<1>3. DevhostDone(job[w], w) /\ job[w].pc # "idle"
  BY DEF DevhostInv, EnsureImage, EnsureUp
<1>4. job'[w] = new
  BY <1>2, <1>3, DevhostMoves
<1>5. (DevhostDone(job[w], w))'
  BY <1>2, <1>3, <1>4 DEF DevhostDone, EnsureImage, EnsureUp, Removing, Vms!files
<1> QED
  BY <1>2, <1>3, <1>5, DevhostQuiet

\* ensure reads what is known of the VM, or gives it the least free id.
LEMMA DevhostLoad ==
  ASSUME CommandsAssumption, Together = 1, DevhostInv, NEW w \in Vms!Who, Vms!Load(w)
  PROVE  DevhostInv'
<1> DEFINE v == job[w].vm
           ids == IF config[v].id # Vms!NoId THEN {config[v].id}
                  ELSE {i \in Vms!free_ids : \A j \in Vms!free_ids : i <= j}
<1>1. /\ job[w] \in DevhostJob /\ DevhostDone(job[w], w) /\ job[w].pc = "load"
      /\ w \in User /\ v \in VM /\ config[v] \in DevhostConfig
      /\ units \in [VM -> {Vms!NoId} \cup Vms!Id]
      /\ left \in [commands : Nat, failures : Nat, crashes : Nat, days : Nat]
  BY DEF Vms!Load, Vms!At, DevhostInv, DevhostTypes, DevhostDone
<1>2. CASE job' = [job EXCEPT ![w] = Vms!Idle]
  BY <1>1, <1>2, DevhostEnds DEF Vms!Load
<1>3. ASSUME NEW i \in ids,
             job' = [job EXCEPT ![w].pc = "json", ![w].existed = Vms!HasNix(v),
                                ![w].cfg = [id |-> i, online |-> TRUE, age |-> "fresh"]]
      PROVE  DevhostInv'
  <2>1. /\ i \in Vms!Id /\ i # Vms!NoId
        /\ config[v].id \in {Vms!NoId, i} /\ \A u \in VM \ {v} : config[u].id # i
    <3>1. CASE config[v].id # Vms!NoId
      BY <1>1, <1>3, <3>1 DEF DevhostConfig, DevhostInv, DevhostIds
    <3>2. CASE config[v].id = Vms!NoId
      BY <1>1, <1>3, <3>2 DEF Vms!free_ids, Vms!Id, Vms!NoId
    <3> QED
      BY <3>1, <3>2
  <2> DEFINE c == [id |-> i, online |-> TRUE, age |-> "fresh"]
             new == [job[w] EXCEPT !.pc = "json", !.existed = Vms!HasNix(v), !.cfg = c]
  <2>2. c \in DevhostConfig /\ c.id = i
    BY <2>1 DEF DevhostConfig, Vms!Age
  <2>3. Vms!HasNix(v) \in BOOLEAN
    BY DEF Vms!HasNix
  <2>4. new \in DevhostJob /\ new.pc = "json" /\ new.vm = v /\ new.cfg = c
    BY <1>1, <2>2, <2>3 DEF DevhostJob, Vms!Phase
  <2>5. job' = [job EXCEPT ![w] = new]
    BY <1>1, <1>3 DEF DevhostInv, DevhostTypes
  <2> HIDE DEF new, c
  <2>6. job'[w] = new
    BY <1>1, <2>4, <2>5, DevhostMoves
  <2>7. (DevhostDone(job[w], w))'
    BY <1>1, <2>1, <2>2, <2>4, <2>6 DEF DevhostDone, EnsureImage, EnsureUp, Removing, Vms!Load, Vms!files
  <2> QED
    BY <1>1, <2>4, <2>5, <2>7, DevhostQuiet DEF Vms!Load, Vms!images, DevhostInv, DevhostTypes
<1> QED
  BY <1>2, <1>3 DEF Vms!Load

\* ensure writes the two files, and goes on with the image or with the switch.
LEMMA DevhostWrites ==
  ASSUME CommandsAssumption, Together = 1, DevhostInv, NEW w \in Vms!Who,
         Vms!WriteJson(w) \/ Vms!WriteNix(w)
  PROVE  DevhostInv'
<1> DEFINE v == job[w].vm
<1>1. /\ job[w] \in DevhostJob /\ DevhostDone(job[w], w) /\ job[w].pc # "idle"
      /\ w \in User /\ v \in VM /\ job[w].cfg \in DevhostConfig
  BY DEF Vms!WriteJson, Vms!WriteNix, Vms!At, DevhostInv, DevhostTypes, DevhostDone, DevhostJob
<1>2. DevhostTypes /\ DevhostIds /\ DevhostTorn
  BY DEF DevhostInv
<1>3. CASE Vms!WriteJson(w)
  <2>1. PICK new \in DevhostJob :
           /\ job' = [job EXCEPT ![w] = new]
           /\ new.pc = "nix" /\ new.vm = v /\ new.cfg = job[w].cfg
           /\ new.existed = job[w].existed
    BY <1>3, DevhostGoTo DEF Vms!WriteJson, Vms!Phase
  <2>2. job'[w] = new
    BY <1>1, <2>1, DevhostMoves
  <2>3. /\ config' \in [VM -> DevhostConfig] /\ config'[v] = job[w].cfg
        /\ \A u \in VM \ {v} : config'[u] = config[u]
    BY <1>1, <1>2, <1>3 DEF Vms!WriteJson, DevhostTypes
  <2>4. job[w].cfg.id \in Vms!Id /\ \A u \in VM \ {v} : config[u].id # job[w].cfg.id
    BY <1>1, <1>3 DEF DevhostDone, Vms!WriteJson, Vms!At
  <2>5. DevhostIds'
    BY <1>2, <2>3, <2>4 DEF DevhostIds
  <2>6. DevhostTorn'
    BY <1>2, <1>3, <2>3 DEF DevhostTorn, Vms!WriteJson
  <2>7. (DevhostDone(job[w], w))'
    BY <1>1, <2>1, <2>2, <2>3, <2>4 DEF DevhostDone, EnsureImage, EnsureUp, Removing
  <2> QED
    BY <1>1, <1>2, <1>3, <2>1, <2>3, <2>5, <2>6, <2>7, DevhostFollows
       DEF Vms!WriteJson, Vms!images, DevhostTypes
<1>4. CASE Vms!WriteNix(w)
  <2> DEFINE p == IF disk[v] # Vms!NoImage THEN "switch" ELSE "copy"
             f == [id |-> job[w].cfg.id, online |-> TRUE]
  <2>1. PICK new \in DevhostJob :
           /\ job' = [job EXCEPT ![w] = new]
           /\ new.pc = p /\ new.vm = v /\ new.cfg = job[w].cfg
           /\ new.existed = job[w].existed
    BY <1>4, DevhostGoTo DEF Vms!WriteNix, Vms!Phase
  <2>2. job'[w] = new
    BY <1>1, <2>1, DevhostMoves
  <2>3. f \in DevhostFile /\ f.id = job[w].cfg.id /\ f.online
    BY <1>1 DEF DevhostFile, DevhostConfig
  <2>4. nix' = [nix EXCEPT ![v] = f]
    BY <1>4 DEF Vms!WriteNix
  <2> HIDE DEF f
  <2>5. /\ nix' \in [VM -> DevhostFile] /\ nix'[v] = f
        /\ \A u \in VM \ {v} : nix'[u] = nix[u]
    BY <1>1, <1>2, <2>3, <2>4 DEF DevhostTypes
  <2>6. DevhostIds'
    BY <1>2, <1>4 DEF DevhostIds, Vms!WriteNix
  <2>7. DevhostTorn'
    BY <1>2, <1>4, <2>3, <2>5 DEF DevhostTorn, Vms!WriteNix
  <2>8. (DevhostDone(job[w], w))'
    BY <1>1, <1>4, <2>1, <2>2, <2>3, <2>5
       DEF DevhostDone, EnsureImage, EnsureUp, Removing, Vms!WriteNix, Vms!At
  <2> QED
    BY <1>1, <1>2, <1>4, <2>1, <2>5, <2>6, <2>7, <2>8, DevhostFollows
       DEF Vms!WriteNix, Vms!images, DevhostTypes
<1> QED
  BY <1>3, <1>4


\* The image is made, the system is switched, and ensure waits for the VM.
LEMMA DevhostEnsure ==
  ASSUME CommandsAssumption, Together = 1, DevhostInv, NEW w \in Vms!Who, Vms!Ensure(w)
  PROVE  DevhostInv'
<1> DEFINE v == job[w].vm
           i == job[w].cfg.id
<1>1. CASE Vms!Load(w) \/ Vms!WriteJson(w) \/ Vms!WriteNix(w)
  BY <1>1, DevhostLoad, DevhostWrites
<1>2. ASSUME job[w].pc \in EnsureImage \cup EnsureUp
      PROVE  /\ job[w].pc \notin {"idle", "look", "off_switch"} /\ w \in User
             /\ v \in VM /\ i \in Vms!Id /\ config[v].id = i /\ nix[v].id = i /\ nix[v].online
             /\ job[w].pc \in EnsureUp => units[v] = i
    BY <1>2 DEF DevhostInv, DevhostDone, EnsureImage, EnsureUp
<1>3. /\ DevhostTypes /\ Vms!NoImage \in DevhostImage /\ Vms!Raw \in DevhostImage
      /\ Vms!Id \subseteq DevhostImage
  BY DEF DevhostInv, DevhostImage
<1>4. CASE Vms!CopyImage(w)
  <2>1. job[w].pc \in EnsureImage \cup EnsureUp
    BY <1>4 DEF Vms!CopyImage, Vms!At, EnsureImage
  <2>2. "connect" \in EnsureImage \cup EnsureUp /\ "connect" \notin EnsureUp
    BY DEF EnsureImage, EnsureUp
  <2> QED
    BY <1>2, <1>3, <1>4, <2>1, <2>2, DevhostGoesOn DEF Vms!CopyImage, DevhostTypes, EnsureUp
<1>5. CASE Vms!Connect(w)
  <2>1. job[w].pc \in EnsureImage \cup EnsureUp
    BY <1>5 DEF Vms!Connect, Vms!At, EnsureImage
  <2>2. PICK p \in {"write", "undo_disconnect"} : Vms!GoTo(w, p)
    BY <1>5 DEF Vms!Connect
  <2>3. p \in EnsureImage \cup EnsureUp /\ p \notin EnsureUp /\ p # "sync"
    BY DEF EnsureImage, EnsureUp
  <2>4. nbd' \in VM \cup {Vms!None}
    BY <1>2, <1>3, <1>5, <2>1 DEF Vms!Connect, DevhostTypes
  <2> QED
    BY <1>2, <1>3, <1>5, <2>1, <2>2, <2>3, <2>4, DevhostGoesOn DEF Vms!Connect, DevhostTypes
<1>6. CASE Vms!WriteEnc(w)
  <2>1. job[w].pc \in EnsureImage \cup EnsureUp
    BY <1>6 DEF Vms!WriteEnc, Vms!At, EnsureImage
  <2>2. "disconnect" \in EnsureImage \cup EnsureUp /\ "disconnect" \notin EnsureUp
    BY DEF EnsureImage, EnsureUp
  <2>3. tmp' \in [VM -> DevhostImage]
    BY <1>2, <1>3, <1>6, <2>1 DEF Vms!WriteEnc, DevhostTypes
  <2> QED
    BY <1>2, <1>3, <1>6, <2>1, <2>2, <2>3, DevhostGoesOn DEF Vms!WriteEnc, DevhostTypes
<1>7. CASE Vms!Disconnect(w)
  <2>1. job[w].pc \in EnsureImage \cup EnsureUp
    BY <1>7 DEF Vms!Disconnect, Vms!At, EnsureImage
  <2>2. "rename" \in EnsureImage \cup EnsureUp /\ "rename" \notin EnsureUp
    BY DEF EnsureImage, EnsureUp
  <2>3. CASE Vms!GoTo(w, "rename")
    BY <1>2, <1>3, <1>7, <2>1, <2>2, <2>3, DevhostGoesOn DEF Vms!Disconnect, DevhostTypes
  <2>4. CASE job' = Vms!Undo(w)
    BY <1>2, <1>3, <1>7, <2>1, <2>4, DevhostUndo DEF Vms!Disconnect, DevhostTypes
  <2> QED
    BY <1>7, <2>3, <2>4 DEF Vms!Disconnect
<1>8. CASE Vms!Rename(w)
  <2>1. job[w].pc \in EnsureImage \cup EnsureUp
    BY <1>8 DEF Vms!Rename, Vms!At, EnsureImage
  <2>2. "switch" \in EnsureImage \cup EnsureUp /\ "switch" \notin EnsureUp
    BY DEF EnsureImage, EnsureUp
  <2>3. disk' \in [VM -> DevhostImage] /\ tmp' \in [VM -> DevhostImage]
    BY <1>2, <1>3, <1>8, <2>1 DEF Vms!Rename, DevhostTypes
  <2>4. CASE tmp[v] # Vms!NoImage
    <3>1. Vms!GoTo(w, "switch")
      BY <1>8, <2>4 DEF Vms!Rename, Vms!GoTo
    <3> QED
      BY <1>2, <1>3, <1>8, <2>1, <2>2, <2>3, <3>1, DevhostGoesOn DEF Vms!Rename, DevhostTypes
  <2>5. CASE tmp[v] = Vms!NoImage
    BY <1>2, <1>3, <1>8, <2>1, <2>3, <2>5, DevhostUndo DEF Vms!Rename, DevhostTypes
  <2> QED
    BY <2>4, <2>5
<1>9. CASE Vms!Switch(w)
  <2>1. job[w].pc \in EnsureImage \cup EnsureUp
    BY <1>9 DEF Vms!Switch, Vms!At, EnsureImage
  <2>2. "wait" \in EnsureImage \cup EnsureUp /\ "wait" \in EnsureUp
    BY DEF EnsureImage, EnsureUp
  <2>3. CASE units' = Vms!Switched /\ Vms!GoTo(w, "wait")
    BY <1>2, <1>3, <1>9, <2>1, <2>2, <2>3, DevhostSwitched, DevhostGoesOn
       DEF Vms!Switch, Vms!images, DevhostTypes
  <2>4. CASE job' = Vms!Undo(w) /\ UNCHANGED units
    BY <1>2, <1>3, <1>9, <2>1, <2>4, DevhostUndo DEF Vms!Switch, Vms!images, DevhostTypes
  <2> QED
    BY <1>9, <2>3, <2>4 DEF Vms!Switch
<1>10. CASE Vms!Wait(w)
  <2>1. job[w].pc \in EnsureImage \cup EnsureUp /\ job[w].pc \in EnsureUp
    BY <1>10 DEF Vms!Wait, Vms!At, EnsureUp
  <2>2. "sync" \in EnsureImage \cup EnsureUp /\ "sync" \in EnsureUp
    BY DEF EnsureImage, EnsureUp
  <2>3. CASE Vms!Answers(i) /\ Vms!GoTo(w, "sync")
    BY <1>2, <1>3, <1>10, <2>1, <2>2, <2>3, DevhostGoesOn
       DEF Vms!Wait, Vms!Answers, Vms!images, DevhostTypes
  <2>4. CASE job' = Vms!Undo(w)
    BY <1>2, <1>3, <1>10, <2>1, <2>4, DevhostUndo DEF Vms!Wait, Vms!images, DevhostTypes
  <2> QED
    BY <1>10, <2>3, <2>4 DEF Vms!Wait
<1>11. CASE Vms!Sync(w)
  BY <1>3, <1>11, DevhostEnds DEF Vms!Sync, Vms!At, DevhostTypes
<1> QED
  BY <1>1, <1>4, <1>5, <1>6, <1>7, <1>8, <1>9, <1>10, <1>11 DEF Vms!Ensure

\* A command starts: nothing is known of what it does yet.
LEMMA DevhostStarts ==
  ASSUME CommandsAssumption, Together = 1, DevhostInv,
         \/ \E w \in User, v \in VM : Vms!StartEnsure(w, v) \/ Vms!StartDestroy(w, v)
         \/ Vms!StartCleanup
  PROVE  DevhostInv'
<1>i. /\ Vms!Idle \in DevhostJob /\ Vms!Idle.pc = "idle" /\ ~Vms!Idle.existed
  BY DEF Vms!Idle, DevhostJob, Vms!Phase, Vms!NoConfig, DevhostConfig, Vms!Age
<1>1. /\ UNCHANGED <<Vms!files, Vms!images, units>> /\ DevhostTypes
      /\ left' \in [commands : Nat, failures : Nat, crashes : Nat, days : Nat]
  BY DevhostUse DEF Vms!StartEnsure, Vms!StartDestroy, Vms!StartCleanup, DevhostInv
<1>2. ASSUME NEW w \in User, NEW v \in VM, Vms!StartEnsure(w, v) \/ Vms!StartDestroy(w, v)
      PROVE  DevhostInv'
  <2>1. w \in Vms!Who /\ w # Cleanup /\ Vms!MayStart(w)
    BY <1>2 DEF CommandsAssumption, Vms!DevhostAssumption, Vms!Who, Vms!StartEnsure, Vms!StartDestroy
  <2>2. PICK p \in {"load", "rm_json"} :
              job' = [job EXCEPT ![w] = [Vms!Idle EXCEPT !.pc = p, !.vm = v]]
    BY <1>2 DEF Vms!StartEnsure, Vms!StartDestroy
  <2> DEFINE new == [Vms!Idle EXCEPT !.pc = p, !.vm = v]
  <2>3. new \in DevhostJob /\ new.pc = p /\ new.vm = v /\ ~new.existed
    BY <1>i DEF DevhostJob, Vms!Phase
  <2>4. job' = [job EXCEPT ![w] = new]
    BY <2>2
  <2> HIDE DEF new
  <2>5. job'[w] = new
    BY <2>1, <2>3, <2>4, DevhostMoves
  <2>6. (DevhostDone(job[w], w))'
    BY <2>1, <2>3, <2>5 DEF DevhostDone, EnsureImage, EnsureUp, Removing
  <2> QED
    BY <1>1, <2>1, <2>3, <2>4, <2>6, DevhostQuiet DEF Vms!images, DevhostTypes
<1>3. CASE Vms!StartCleanup
  <2>1. Cleanup \in Vms!Who /\ Vms!MayStart(Cleanup)
    BY <1>3 DEF Vms!Who, Vms!StartCleanup
  <2> DEFINE new == [Vms!Idle EXCEPT !.pc = "look", !.rest = {v \in VM : Vms!Known(v)}]
  <2>2. new \in DevhostJob /\ new.pc = "look"
    BY <1>i DEF DevhostJob, Vms!Phase
  <2>3. job' = [job EXCEPT ![Cleanup] = new]
    BY <1>3 DEF Vms!StartCleanup
  <2> HIDE DEF new
  <2>4. job'[Cleanup] = new
    BY <2>1, <2>2, <2>3, DevhostMoves
  <2>5. (DevhostDone(job[Cleanup], Cleanup))'
    BY <2>2, <2>4 DEF DevhostDone, EnsureImage, EnsureUp, Removing
  <2> QED
    BY <1>1, <2>1, <2>2, <2>3, <2>5, DevhostQuiet DEF Vms!images, DevhostTypes
<1> QED
  BY <1>2, <1>3


\* destroy takes away one thing after the other.
LEMMA DevhostDestroy ==
  ASSUME CommandsAssumption, Together = 1, DevhostInv, NEW w \in Vms!Who, Vms!Destroy(w)
  PROVE  DevhostInv'
<1> DEFINE v == job[w].vm
<1>1. /\ DevhostTypes /\ DevhostIds /\ DevhostTorn /\ DevhostDone(job[w], w)
      /\ v \in VM /\ job[w].pc # "idle"
  BY DEF DevhostInv, DevhostDone, Vms!Destroy, Vms!RemoveJson, Vms!RemoveNix, Vms!RemoveData,
         Vms!RemoveUnit, Vms!At
<1>2. ASSUME NEW p \in Removing, Vms!GoTo(w, p)
      PROVE  \E new \in DevhostJob : /\ job' = [job EXCEPT ![w] = new] /\ job'[w] = new
                                     /\ new.pc = p /\ new.vm = v /\ new.existed = job[w].existed
  BY <1>1, <1>2, DevhostGoTo, DevhostMoves DEF Removing, Vms!Phase
<1>3. CASE Vms!RemoveJson(w)
  <2>1. PICK new \in DevhostJob : /\ job' = [job EXCEPT ![w] = new] /\ job'[w] = new
                                  /\ new.pc = "rm_nix" /\ new.vm = v /\ new.existed = job[w].existed
    BY <1>2, <1>3 DEF Vms!RemoveJson, Removing
  <2>2. Vms!NoConfig \in DevhostConfig /\ Vms!NoConfig.id = Vms!NoId
    BY DEF Vms!NoConfig, DevhostConfig, Vms!Age
  <2>3. /\ config' \in [VM -> DevhostConfig] /\ config'[v] = Vms!NoConfig
        /\ \A u \in VM \ {v} : config'[u] = config[u]
    BY <1>1, <1>3, <2>2 DEF Vms!RemoveJson, DevhostTypes
  <2>4. DevhostIds'
    BY <1>1, <2>2, <2>3 DEF DevhostIds
  <2>5. DevhostTorn'
    BY <1>1, <1>3, <2>2, <2>3 DEF DevhostTorn, Vms!RemoveJson
  <2>6. (DevhostDone(job[w], w))'
    BY <1>1, <1>3, <2>1, <2>2, <2>3
       DEF DevhostDone, EnsureImage, EnsureUp, Removing, Vms!RemoveJson, Vms!At
  <2> QED
    BY <1>1, <1>3, <2>1, <2>3, <2>4, <2>5, <2>6, DevhostFollows
       DEF Vms!RemoveJson, Vms!images, DevhostTypes
<1>4. CASE Vms!RemoveNix(w)
  <2>1. PICK new \in DevhostJob : /\ job' = [job EXCEPT ![w] = new] /\ job'[w] = new
                                  /\ new.pc = "rm_data" /\ new.vm = v /\ new.existed = job[w].existed
    BY <1>2, <1>4 DEF Vms!RemoveNix, Removing
  <2>2. Vms!NoFile \in DevhostFile /\ ~Vms!NoFile.online
    BY DEF Vms!NoFile, DevhostFile
  <2>3. /\ nix' \in [VM -> DevhostFile] /\ nix'[v] = Vms!NoFile
        /\ \A u \in VM \ {v} : nix'[u] = nix[u]
    BY <1>1, <1>4, <2>2 DEF Vms!RemoveNix, DevhostTypes
  <2>4. DevhostIds'
    BY <1>1, <1>4 DEF DevhostIds, Vms!RemoveNix
  <2>5. DevhostTorn'
    BY <1>1, <1>4, <2>2, <2>3 DEF DevhostTorn, Vms!RemoveNix
  <2>6. (DevhostDone(job[w], w))'
    BY <1>1, <1>4, <2>1
       DEF DevhostDone, EnsureImage, EnsureUp, Removing, Vms!RemoveNix, Vms!At
  <2> QED
    BY <1>1, <1>4, <2>1, <2>3, <2>4, <2>5, <2>6, DevhostFollows
       DEF Vms!RemoveNix, Vms!images, DevhostTypes
<1>5. CASE Vms!RemoveData(w)
  <2>1. PICK new \in DevhostJob : /\ job' = [job EXCEPT ![w] = new] /\ job'[w] = new
                                  /\ new.pc = "rm_switch" /\ new.vm = v /\ new.existed = job[w].existed
    BY <1>2, <1>5 DEF Vms!RemoveData, Removing
  <2>2. disk' \in [VM -> DevhostImage] /\ tmp' \in [VM -> DevhostImage]
    BY <1>1, <1>5 DEF Vms!RemoveData, DevhostTypes, DevhostImage
  <2>3. (DevhostDone(job[w], w))'
    BY <1>1, <1>5, <2>1
       DEF DevhostDone, EnsureImage, EnsureUp, Removing, Vms!RemoveData, Vms!At, Vms!files
  <2> QED
    BY <1>1, <1>5, <2>1, <2>2, <2>3, DevhostQuiet DEF Vms!RemoveData, DevhostTypes
<1>6. CASE Vms!RemoveUnit(w)
  <2>1. UNCHANGED <<Vms!files, Vms!images, left>> /\ units' \in [VM -> {Vms!NoId} \cup Vms!Id]
    BY <1>1, <1>6, DevhostSwitched DEF Vms!RemoveUnit, DevhostTypes
  <2>2. CASE job' = [job EXCEPT ![w] = Vms!Idle]
    BY <1>1, <2>1, <2>2, DevhostEnds DEF DevhostTypes
  <2>3. CASE Vms!GoTo(w, "look")
    <3>1. PICK new \in DevhostJob : job' = [job EXCEPT ![w] = new] /\ new.pc = "look"
      BY <2>3, DevhostGoTo DEF Vms!Phase
    <3>2. job'[w] = new
      BY <1>1, <3>1, DevhostMoves
    <3>3. (DevhostDone(job[w], w))'
      BY <3>1, <3>2 DEF DevhostDone, EnsureImage, EnsureUp, Removing
    <3> QED
      BY <1>1, <2>1, <3>1, <3>3, DevhostQuiet DEF Vms!images, DevhostTypes
  <2> QED
    BY <1>6, <2>2, <2>3 DEF Vms!RemoveUnit
<1> QED
  BY <1>3, <1>4, <1>5, <1>6 DEF Vms!Destroy

\* cleanup chooses what to do with a VM by the age of its last deployment.
LEMMA DevhostLook ==
  ASSUME CommandsAssumption, Together = 1, DevhostInv, Vms!Look
  PROVE  DevhostInv'
<1> DEFINE j == job[Cleanup]
<1>1. /\ Cleanup \in Vms!Who /\ j.pc = "look" /\ j \in DevhostJob /\ DevhostTypes /\ DevhostIds
  BY DEF Vms!Who, Vms!Look, Vms!At, DevhostInv, DevhostTypes
<1>2. ASSUME NEW v \in j.rest, config[v].id # Vms!NoId,
             job' = [job EXCEPT ![Cleanup].pc = Vms!Verdict(config[v]), ![Cleanup].vm = v,
                                ![Cleanup].cfg = config[v], ![Cleanup].rest = @ \ {v}]
      PROVE  DevhostInv'
  <2> DEFINE p == Vms!Verdict(config[v])
             new == [j EXCEPT !.pc = p, !.vm = v, !.cfg = config[v], !.rest = @ \ {v}]
  <2>1. /\ v \in VM /\ config[v] \in DevhostConfig /\ config[v].id \in Vms!Id
    BY <1>1, <1>2 DEF DevhostJob, DevhostTypes, DevhostConfig
  <2>2. p \in {"rm_json", "off_nix", "look"} /\ (p # "look" => config[v].age # "fresh")
    BY DEF Vms!Verdict
  <2>3. new \in DevhostJob /\ new.pc = p /\ new.vm = v /\ new.cfg = config[v]
    BY <1>1, <2>1, <2>2 DEF DevhostJob, Vms!Phase
  <2>4. job' = [job EXCEPT ![Cleanup] = new]
    BY <1>1, <1>2 DEF DevhostTypes
  <2> HIDE DEF new, p
  <2>5. job'[Cleanup] = new
    BY <1>1, <2>3, <2>4, DevhostMoves
  <2>6. Cleanup \notin User
    BY DEF CommandsAssumption, Vms!DevhostAssumption
  <2>7. config' = config /\ \A u \in VM \ {v} : config[u].id # config[v].id
    BY <1>1, <1>2, <2>1 DEF Vms!Look, Vms!files, DevhostIds
  <2>8. p \in {"off_nix", "rm_json"} => config[v].age # "fresh"
    BY <2>2
  <2>9. (DevhostDone(job[Cleanup], Cleanup))'
    <3> DEFINE k == job'[Cleanup]
    <3>1. k.pc = p /\ k.vm = v /\ k.cfg = config[v]
      BY <2>3, <2>5
    <3> HIDE DEF k
    <3>2. /\ k.pc \in {"rm_json", "off_nix", "look"} /\ k.vm \in VM /\ k.cfg.id \in Vms!Id
          /\ config'[k.vm].id = k.cfg.id /\ \A u \in VM \ {k.vm} : config'[u].id # k.cfg.id
          /\ k.pc \in {"off_nix", "rm_json"} => config'[k.vm].age # "fresh"
      BY <2>1, <2>2, <2>7, <2>8, <3>1
    <3> USE DEF k
    <3> QED
      BY <2>6, <3>2 DEF DevhostDone, EnsureImage, EnsureUp, Removing
  <2> QED
    BY <1>1, <2>3, <2>4, <2>9, DevhostQuiet DEF Vms!Look, Vms!images, DevhostTypes
<1>3. CASE job' = [job EXCEPT ![Cleanup] = Vms!Idle]
  BY <1>1, <1>3, DevhostEnds DEF Vms!Look, DevhostTypes
<1>4. CASE Vms!GoTo(Cleanup, "off_switch")
  <2>1. PICK new \in DevhostJob : job' = [job EXCEPT ![Cleanup] = new] /\ new.pc = "off_switch"
    BY <1>1, <1>4, DevhostGoTo DEF Vms!Phase
  <2>2. job'[Cleanup] = new
    BY <1>1, <2>1, DevhostMoves
  <2>3. (DevhostDone(job[Cleanup], Cleanup))'
    BY <2>1, <2>2 DEF DevhostDone, EnsureImage, EnsureUp, Removing
  <2> QED
    BY <1>1, <2>1, <2>3, DevhostQuiet DEF Vms!Look, Vms!images, DevhostTypes
<1> QED
  BY <1>2, <1>3, <1>4, Zenon DEF Vms!Look

\* cleanup shuts down a VM.
LEMMA DevhostOff ==
  ASSUME CommandsAssumption, Together = 1, DevhostInv, Vms!OffNix \/ Vms!OffJson \/ Vms!OffSwitch
  PROVE  DevhostInv'
<1> DEFINE j == job[Cleanup]
           v == j.vm
<1>1. /\ Cleanup \in Vms!Who /\ j.pc # "idle" /\ j \in DevhostJob /\ DevhostDone(j, Cleanup)
      /\ DevhostTypes /\ DevhostIds /\ DevhostTorn /\ j.cfg \in DevhostConfig
  BY DEF Vms!Who, Vms!OffNix, Vms!OffJson, Vms!OffSwitch, Vms!At, DevhostInv, DevhostTypes, DevhostJob
<1>2. CASE Vms!OffNix
  <2> DEFINE f == [id |-> j.cfg.id, online |-> FALSE]
             new == [j EXCEPT !.pc = "off_json", !.shut = TRUE]
  <2>1. j.pc = "off_nix" /\ v \in VM
    BY <1>1, <1>2 DEF Vms!OffNix, Vms!At, DevhostDone
  <2>2. new \in DevhostJob /\ new.pc = "off_json" /\ new.vm = v /\ new.cfg = j.cfg
    BY <1>1 DEF DevhostJob, Vms!Phase
  <2>3. f \in DevhostFile /\ ~f.online
    BY <1>1 DEF DevhostFile, DevhostConfig
  <2>4. job' = [job EXCEPT ![Cleanup] = new] /\ nix' = [nix EXCEPT ![v] = f]
    BY <1>1, <1>2 DEF Vms!OffNix, DevhostTypes
  <2> HIDE DEF new, f
  <2>5. job'[Cleanup] = new
    BY <1>1, <2>2, <2>4, DevhostMoves
  <2>6. /\ nix' \in [VM -> DevhostFile] /\ nix'[v] = f /\ \A u \in VM \ {v} : nix'[u] = nix[u]
    BY <1>1, <2>1, <2>3, <2>4 DEF DevhostTypes
  <2>7. DevhostIds'
    BY <1>1, <1>2 DEF DevhostIds, Vms!OffNix
  <2>8. DevhostTorn'
    BY <1>1, <1>2, <2>3, <2>6 DEF DevhostTorn, Vms!OffNix
  <2>9. (DevhostDone(job[Cleanup], Cleanup))'
    BY <1>1, <1>2, <2>1, <2>2, <2>5 DEF DevhostDone, EnsureImage, EnsureUp, Removing, Vms!OffNix
  <2> QED
    BY <1>1, <1>2, <2>2, <2>4, <2>6, <2>7, <2>8, <2>9, DevhostFollows
       DEF Vms!OffNix, Vms!images, DevhostTypes
<1>3. CASE Vms!OffJson
  <2> DEFINE c == [j.cfg EXCEPT !.online = FALSE]
  <2>1. j.pc = "off_json" /\ v \in VM
    BY <1>1, <1>3 DEF Vms!OffJson, Vms!At, DevhostDone
  <2>2. c \in DevhostConfig /\ c.id = j.cfg.id
    BY <1>1 DEF DevhostConfig
  <2>3. PICK new \in DevhostJob : job' = [job EXCEPT ![Cleanup] = new] /\ new.pc = "look"
    BY <1>1, <1>3, DevhostGoTo DEF Vms!OffJson, Vms!Phase
  <2>4. job'[Cleanup] = new
    BY <1>1, <2>3, DevhostMoves
  <2>5. config' = [config EXCEPT ![v] = c]
    BY <1>3 DEF Vms!OffJson
  <2> HIDE DEF c
  <2>6. /\ config' \in [VM -> DevhostConfig] /\ config'[v] = c
        /\ \A u \in VM \ {v} : config'[u] = config[u]
    BY <1>1, <2>1, <2>2, <2>5 DEF DevhostTypes
  <2>7. DevhostIds'
    BY <1>1, <2>1, <2>2, <2>6 DEF DevhostIds, DevhostDone
  <2>8. DevhostTorn'
    BY <1>1, <1>3, <2>6 DEF DevhostTorn, Vms!OffJson
  <2>9. (DevhostDone(job[Cleanup], Cleanup))'
    BY <2>3, <2>4 DEF DevhostDone, EnsureImage, EnsureUp, Removing
  <2> QED
    BY <1>1, <1>3, <2>3, <2>6, <2>7, <2>8, <2>9, DevhostFollows
       DEF Vms!OffJson, Vms!images, DevhostTypes
<1>4. CASE Vms!OffSwitch
  BY <1>1, <1>4, DevhostSwitched, DevhostEnds DEF Vms!OffSwitch, DevhostTypes
<1> QED
  BY <1>2, <1>3, <1>4


\* A step of a command fails.
LEMMA DevhostStepFails ==
  ASSUME CommandsAssumption, Together = 1, DevhostInv, NEW w \in Vms!Who, Vms!StepFails(w)
  PROVE  DevhostInv'
<1>1. /\ UNCHANGED <<Vms!files, Vms!images, units>> /\ DevhostTypes /\ DevhostDone(job[w], w)
      /\ left' \in [commands : Nat, failures : Nat, crashes : Nat, days : Nat]
      /\ job[w].pc # "idle"
  BY DevhostUse DEF Vms!StepFails, Vms!At, DevhostInv
<1>2. CASE job' = [job EXCEPT ![w] = Vms!Idle]
  BY <1>1, <1>2, DevhostEnds DEF DevhostTypes
<1>3. CASE job' = Vms!Undo(w) /\ job[w].pc \in Vms!InTry
  <2>1. w \in User /\ job[w].pc \notin {"idle", "look", "off_switch"}
    BY <1>1, <1>3 DEF Vms!InTry, DevhostDone, EnsureImage, EnsureUp
  <2> QED
    BY <1>1, <1>3, <2>1, DevhostUndo DEF Vms!images, DevhostTypes
<1>4. ASSUME NEW p \in {"rename", "undo_disconnect"}, Vms!GoTo(w, p), job[w].pc \in EnsureImage
      PROVE  DevhostInv'
  <2>1. p \in EnsureImage \cup EnsureUp /\ p \notin EnsureUp
    BY DEF EnsureImage, EnsureUp
  <2> QED
    BY <1>1, <1>4, <2>1, DevhostGoesOn DEF Vms!images, DevhostTypes, EnsureUp
<1> QED
  BY <1>2, <1>3, <1>4 DEF Vms!StepFails, Vms!At, Vms!GoTo, EnsureImage

\* What happens to the host without a command of fc-devhost.
LEMMA DevhostOutside ==
  ASSUME CommandsAssumption, Together = 1, DevhostInv,
         Vms!AgentSwitch \/ Vms!PowerFailure \/ \E v \in VM : Vms!Pass(v)
  PROVE  DevhostInv'
<1>1. /\ DevhostTypes /\ DevhostAlone /\ DevhostIds /\ DevhostTorn
      /\ \A w \in Vms!Who : DevhostDone(job[w], w)
  BY DEF DevhostInv
<1>2. CASE Vms!AgentSwitch
  <2>1. /\ units' \in [VM -> {Vms!NoId} \cup Vms!Id]
        /\ \A v \in VM : nix[v].online => units'[v] = nix[v].id
    BY <1>2, DevhostSwitched DEF Vms!AgentSwitch
  <2>2. UNCHANGED <<Vms!files, Vms!images, job, left>>
    BY <1>2 DEF Vms!AgentSwitch
  <2>3. \A w \in Vms!Who : (DevhostDone(job[w], w))'
    BY <1>1, <2>1, <2>2 DEF DevhostDone, EnsureImage, EnsureUp, Removing, Vms!files, Vms!images
  <2> QED
    BY <1>1, <2>1, <2>2, <2>3
       DEF DevhostInv, DevhostTypes, DevhostAlone, DevhostIds, DevhostTorn, Vms!files, Vms!images
<1>3. ASSUME NEW v \in VM, Vms!Pass(v)
      PROVE  DevhostInv'
  <2> DEFINE c == [config[v] EXCEPT !.age = IF @ = "fresh" THEN "old" ELSE "dead"]
  <2>1. /\ c \in DevhostConfig /\ c.id = config[v].id /\ c.age # "fresh"
        /\ config' = [config EXCEPT ![v] = c]
    BY <1>1, <1>3 DEF Vms!Pass, DevhostTypes, DevhostConfig, Vms!Age
  <2> HIDE DEF c
  <2>2. /\ config' \in [VM -> DevhostConfig]
        /\ \A u \in VM : config'[u].id = config[u].id
        /\ \A u \in VM : config[u].age # "fresh" => config'[u].age # "fresh"
    BY <1>1, <2>1 DEF DevhostTypes
  <2>3. /\ UNCHANGED <<nix, torn, Vms!images, units, job>>
        /\ left' \in [commands : Nat, failures : Nat, crashes : Nat, days : Nat]
    BY <1>3, DevhostUse DEF Vms!Pass
  <2>4. \A w \in Vms!Who : (DevhostDone(job[w], w))'
    <3> SUFFICES ASSUME NEW w \in Vms!Who PROVE (DevhostDone(job[w], w))'
      OBVIOUS
    <3>1. DevhostDone(job[w], w) /\ UNCHANGED <<nix, disk, units, job>>
      BY <1>1, <2>3 DEF Vms!images
    <3> QED
      BY <2>2, <3>1 DEF DevhostDone, EnsureImage, EnsureUp, Removing
  <2> QED
    BY <1>1, <2>2, <2>3, <2>4
       DEF DevhostInv, DevhostTypes, DevhostAlone, DevhostIds, DevhostTorn, Vms!images
<1>4. CASE Vms!PowerFailure
  <2>1. Vms!Idle \in DevhostJob /\ Vms!Idle.pc = "idle"
    BY DEF Vms!Idle, DevhostJob, Vms!Phase, Vms!NoConfig, DevhostConfig, Vms!Age
  <2>2. Vms!NoConfig \in DevhostConfig /\ Vms!NoConfig.id = Vms!NoId
    BY DEF Vms!NoConfig, DevhostConfig, Vms!Age
  <2>3. Vms!NoFile \in DevhostFile /\ ~Vms!NoFile.online
    BY DEF Vms!NoFile, DevhostFile
  <2>4. job' \in [Vms!Who -> DevhostJob] /\ \A w \in Vms!Who : job'[w].pc = "idle"
    BY <1>4, <2>1 DEF Vms!PowerFailure
  <2>5. PICK T \in SUBSET {<<job[w].vm, "json">> : w \in {x \in Vms!Who : job[x].pc \in {"json", "off_json"}}} :
        \E N \in SUBSET {<<job[w].vm, "nix">> : w \in {x \in Vms!Who : job[x].pc \in {"nix", "off_nix"}}} :
          /\ torn' = torn \cup T \cup N
          /\ config' = [v \in VM |-> IF <<v, "json">> \in T THEN Vms!NoConfig ELSE config[v]]
          /\ nix' = [v \in VM |-> IF <<v, "nix">> \in N THEN Vms!NoFile ELSE nix[v]]
    BY <1>4, Zenon DEF Vms!PowerFailure
  <2>5a. PICK N \in SUBSET {<<job[w].vm, "nix">> : w \in {x \in Vms!Who : job[x].pc \in {"nix", "off_nix"}}} :
          /\ torn' = torn \cup T \cup N
          /\ config' = [v \in VM |-> IF <<v, "json">> \in T THEN Vms!NoConfig ELSE config[v]]
          /\ nix' = [v \in VM |-> IF <<v, "nix">> \in N THEN Vms!NoFile ELSE nix[v]]
    BY <2>5, Zenon
  <2>6. T \subseteq VM \X {"json"} /\ N \subseteq VM \X {"nix"}
    <3>1. ASSUME NEW w \in Vms!Who, job[w].pc \in {"json", "nix", "off_json", "off_nix"}
          PROVE  job[w].vm \in VM
      <4>1. /\ DevhostDone(job[w], w) 
            /\ job[w].pc \notin {"idle", "look", "off_switch"}
        BY <1>1, <3>1
      <4> QED
        BY <4>1 DEF DevhostDone
    <3>2. /\ \A t \in T : \E u \in VM : t = <<u, "json">>
          /\ \A t \in N : \E u \in VM : t = <<u, "nix">>
      BY <2>5, <2>5a, <3>1
    <3> QED
      BY <3>2
  <2>7. config' \in [VM -> DevhostConfig] /\ nix' \in [VM -> DevhostFile]
        /\ torn' \subseteq VM \X {"json", "nix"}
    BY <1>1, <2>2, <2>3, <2>5, <2>5a, <2>6 DEF DevhostTypes
  <2>8. UNCHANGED <<disk, tmp, units>> /\ nbd' = Vms!None
        /\ left' \in [commands : Nat, failures : Nat, crashes : Nat, days : Nat]
    BY <1>4, DevhostUse DEF Vms!PowerFailure
  <2>9. DevhostTypes'
    BY <1>1, <2>4, <2>7, <2>8 DEF DevhostTypes
  <2>10. DevhostIds'
    <3>1. \A v \in VM : config'[v].id \in {Vms!NoId, config[v].id}
      BY <2>2, <2>5, <2>5a
    <3> QED
      BY <1>1, <3>1 DEF DevhostIds
  <2>11. DevhostTorn'
    <3> SUFFICES ASSUME NEW v \in VM
                 PROVE  /\ <<v, "json">> \in torn' => config'[v].id = Vms!NoId
                        /\ <<v, "nix">> \in torn' => ~nix'[v].online
      BY DEF DevhostTorn
    <3>1. <<v, "json">> \notin N /\ <<v, "nix">> \notin T
      BY <2>6
    <3>2. <<v, "json">> \in torn' => config'[v].id = Vms!NoId
      BY <1>1, <2>2, <2>5, <2>5a, <3>1 DEF DevhostTorn
    <3>3. <<v, "nix">> \in torn' => ~nix'[v].online
      BY <1>1, <2>3, <2>5, <2>5a, <3>1 DEF DevhostTorn
    <3> QED
      BY <3>2, <3>3
  <2>12. DevhostAlone' /\ \A w \in Vms!Who : (DevhostDone(job[w], w))'
    BY <2>4 DEF DevhostAlone, DevhostDone, EnsureImage, EnsureUp, Removing
  <2> QED
    BY <2>9, <2>10, <2>11, <2>12 DEF DevhostInv
<1> QED
  BY <1>2, <1>3, <1>4

\* The invariant of a development host is inductive.
LEMMA DevhostStep ==
  CommandsAssumption /\ Together = 1 /\ DevhostInv /\ [Vms!Next]_(Vms!vars) => DevhostInv'
<1> SUFFICES ASSUME CommandsAssumption, Together = 1, DevhostInv, [Vms!Next]_(Vms!vars)
             PROVE  DevhostInv'
  OBVIOUS
<1>1. CASE UNCHANGED Vms!vars
  <2>1. UNCHANGED <<config, nix, torn, disk, tmp, nbd, units, job, left>>
    BY <1>1 DEF Vms!vars, Vms!files, Vms!images
  <2>2. (DevhostTypes /\ DevhostAlone /\ DevhostIds /\ DevhostTorn)'
    BY <2>1 DEF DevhostInv, DevhostTypes, DevhostAlone, DevhostIds, DevhostTorn
  <2>3. \A w \in Vms!Who : (DevhostDone(job[w], w))'
    <3> SUFFICES ASSUME NEW w \in Vms!Who
                 PROVE  (DevhostDone(job[w], w))'
      OBVIOUS
    <3>1. DevhostDone(job[w], w)
      BY DEF DevhostInv
    <3> QED
      BY <2>1, <3>1 DEF DevhostDone
  <2> QED
    BY <2>2, <2>3 DEF DevhostInv
<1>2. CASE Vms!Next
  BY <1>2, DevhostStarts, DevhostLook, DevhostOff, DevhostOutside, DevhostEnsure, DevhostDestroy,
     DevhostStepFails DEF Vms!Next
<1> QED
  BY <1>1, <1>2

\* The ids of VMs that run differ as those of all configurations do, but for a VM that a destroy
\* cut short has left running without its configuration.
LEMMA DevhostSafe == DevhostInv => Vms!TypeOK /\ Vms!DistinctIds
<1> SUFFICES ASSUME DevhostInv
             PROVE  Vms!TypeOK /\ Vms!DistinctIds
  OBVIOUS
<1>1. Vms!TypeOK
  BY DEF DevhostInv, DevhostTypes, DevhostConfig, DevhostFile, DevhostImage, DevhostJob, Vms!TypeOK
<1>2. Vms!DistinctIds
  BY DEF DevhostInv, DevhostIds, Vms!DistinctIds, Vms!Leftover
<1> QED
  BY <1>1, <1>2


\* ensure ends without an error in its last step only.
LEMMA DevhostSuccess ==
  ASSUME CommandsAssumption, Together = 1, DevhostInv, [Vms!Next]_(Vms!vars),
         NEW w \in User, Vms!At(w, "sync"), job'[w].pc = "idle", left' = left
  PROVE  Vms!Sync(w)
<1>1. /\ w \in Vms!Who /\ w # Cleanup /\ Cleanup \in Vms!Who /\ job[w].pc = "sync" /\ DevhostTypes
      /\ \A x \in Vms!Who \ {w} : job[x].pc = "idle"
  BY DevhostOthersIdle DEF Vms!Who, CommandsAssumption, Vms!DevhostAssumption, Vms!At, DevhostInv
<1>2. ~(UNCHANGED job)
  BY <1>1
<1>3. \A b \in {"commands", "failures", "crashes", "days"} : ~Vms!Use(b)
  BY DevhostUse
<1>4. ASSUME NEW x \in Vms!Who, Vms!Ensure(x)
      PROVE  Vms!Sync(w)
  <2>1. x = w
    BY <1>1, <1>4 DEF Vms!Ensure, Vms!Load, Vms!WriteJson, Vms!WriteNix, Vms!CopyImage, Vms!Connect,
       Vms!WriteEnc, Vms!Disconnect, Vms!Rename, Vms!Switch, Vms!Wait, Vms!Sync, Vms!At
  <2> QED
    BY <1>1, <1>4, <2>1 DEF Vms!Ensure, Vms!Load, Vms!WriteJson, Vms!WriteNix, Vms!CopyImage,
       Vms!Connect, Vms!WriteEnc, Vms!Disconnect, Vms!Rename, Vms!Switch, Vms!Wait, Vms!At
<1>5. ~(\E x \in Vms!Who : Vms!Destroy(x))
  BY <1>1, SMTT(30) DEF Vms!Destroy, Vms!RemoveJson, Vms!RemoveNix, Vms!RemoveData, Vms!RemoveUnit, Vms!At
<1>6. ~(Vms!Look \/ Vms!OffNix \/ Vms!OffJson \/ Vms!OffSwitch)
  BY <1>1, Zenon DEF Vms!Look, Vms!OffNix, Vms!OffJson, Vms!OffSwitch, Vms!At
<1>7. ~(Vms!AgentSwitch \/ UNCHANGED Vms!vars)
  BY <1>2, SMTT(30) DEF Vms!AgentSwitch, Vms!vars
<1>8. /\ ~(Vms!StartCleanup \/ Vms!PowerFailure) /\ ~(\E x \in Vms!Who : Vms!StepFails(x))
      /\ ~(\E v \in VM : Vms!Pass(v) \/ \E x \in User : Vms!StartEnsure(x, v) \/ Vms!StartDestroy(x, v))
  BY <1>3 DEF Vms!StartCleanup, Vms!PowerFailure, Vms!StepFails, Vms!Pass, Vms!StartEnsure,
     Vms!StartDestroy
<1> QED
  BY <1>4, <1>5, <1>6, <1>7, <1>8 DEF Vms!Next

\* What ensure has found out before that step is still so.
LEMMA DevhostDelivers ==
  CommandsAssumption /\ Together = 1 /\ DevhostInv /\ [Vms!Next]_(Vms!vars) => Vms!Delivers
<1> SUFFICES ASSUME CommandsAssumption, Together = 1, DevhostInv, [Vms!Next]_(Vms!vars),
                    NEW w \in User, Vms!At(w, "sync"), job'[w].pc = "idle", left' = left
             PROVE  /\ units'[job[w].vm] = config'[job[w].vm].id
                    /\ (\A u \in VM \ {job[w].vm} : ~Vms!Stale(u))
                         => disk'[job[w].vm] = config'[job[w].vm].id
  BY DEF Vms!Delivers
<1> DEFINE v == job[w].vm
<1>1. UNCHANGED <<config, units, disk>>
  BY DevhostSuccess DEF Vms!Sync, Vms!files, Vms!images
<1>2. /\ v \in VM /\ job[w].cfg.id \in Vms!Id /\ config[v].id = job[w].cfg.id
      /\ units[v] = job[w].cfg.id
  BY DEF DevhostInv, DevhostDone, EnsureUp, Vms!At, Vms!Who
<1>3. PICK x \in VM : disk[x] = job[w].cfg.id
  BY DEF DevhostInv, DevhostDone, Vms!At, Vms!Who
<1>4. ASSUME x # v
      PROVE  Vms!Stale(x)
  BY <1>2, <1>3, <1>4 DEF DevhostInv, DevhostIds, Vms!Stale, Vms!Id, Vms!NoId
<1> QED
  BY <1>1, <1>2, <1>3, <1>4

\* Of a VM that was deployed lately no step changes the unit, its Nix file or its id.
LEMMA DevhostKeepsFresh ==
  CommandsAssumption /\ DevhostInv /\ [Vms!Next]_(Vms!vars) => Vms!KeepsFresh
<1> SUFFICES ASSUME CommandsAssumption, DevhostInv, [Vms!Next]_(Vms!vars), NEW v \in VM,
                    Vms!Up(v), nix[v].id = units[v], config[v].age = "fresh", ~Vms!Made(v),
                    torn' \subseteq torn
             PROVE  nix'[v] = nix[v] /\ config'[v].id = config[v].id /\ units'[v] = units[v]
  BY DEF Vms!KeepsFresh
<1>1. /\ DevhostTypes /\ DevhostTorn /\ nix[v] \in DevhostFile /\ nix[v].online
      /\ config[v].id # Vms!NoId /\ nix[v].id = config[v].id /\ units[v] = config[v].id
  BY DEF DevhostInv, DevhostTypes, Vms!Up
<1>2. units' = Vms!Switched => units'[v] = units[v]
  BY <1>1, DevhostSwitched
<1>3. \A w \in Vms!Who : job[w] \in DevhostJob /\ DevhostDone(job[w], w)
  BY DEF DevhostInv, DevhostTypes
<1>4. ASSUME NEW w \in Vms!Who, job[w].vm = v
      PROVE  job[w].pc \notin {"rm_json", "off_nix", "off_json"} \cup Removing
  <2>1. w \in User \/ w = Cleanup
    BY DEF Vms!Who
  <2> QED
    BY <1>1, <1>3, <1>4, <2>1 DEF DevhostDone, Vms!Made, Removing
<1>5. ASSUME NEW w \in Vms!Who, Vms!WriteJson(w)
      PROVE  nix'[v] = nix[v] /\ config'[v].id = config[v].id /\ units'[v] = units[v]
  BY <1>1, <1>3, <1>5 DEF Vms!WriteJson, Vms!At, DevhostDone, DevhostTypes
<1>6. ASSUME NEW w \in Vms!Who, Vms!WriteNix(w)
      PROVE  nix'[v] = nix[v] /\ config'[v].id = config[v].id /\ units'[v] = units[v]
  <2>1. job[w].vm = v => job[w].cfg.id = config[v].id
    BY <1>3, <1>6 DEF Vms!WriteNix, Vms!At, DevhostDone
  <2>2. nix[v] = [id |-> config[v].id, online |-> TRUE]
    BY <1>1 DEF DevhostFile
  <2> QED
    BY <1>1, <1>6, <2>1, <2>2 DEF Vms!WriteNix, DevhostTypes
<1>7. ASSUME NEW w \in Vms!Who, Vms!Ensure(w), ~Vms!WriteJson(w), ~Vms!WriteNix(w)
      PROVE  nix'[v] = nix[v] /\ config'[v].id = config[v].id /\ units'[v] = units[v]
  BY <1>2, <1>7 DEF Vms!Ensure, Vms!Load, Vms!CopyImage, Vms!Connect, Vms!WriteEnc, Vms!Disconnect,
     Vms!Rename, Vms!Switch, Vms!Wait, Vms!Sync, Vms!files
<1>8. ASSUME NEW w \in Vms!Who, Vms!Destroy(w)
      PROVE  nix'[v] = nix[v] /\ config'[v].id = config[v].id /\ units'[v] = units[v]
  <2>1. CASE Vms!RemoveJson(w) \/ Vms!RemoveNix(w)
    <3>1. job[w].vm # v
      BY <1>4, <2>1 DEF Vms!RemoveJson, Vms!RemoveNix, Vms!At, Removing
    <3> QED
      BY <1>1, <2>1, <3>1 DEF Vms!RemoveJson, Vms!RemoveNix, DevhostTypes
  <2>2. CASE Vms!RemoveData(w) \/ Vms!RemoveUnit(w)
    BY <1>2, <2>2 DEF Vms!RemoveData, Vms!RemoveUnit, Vms!files
  <2> QED
    BY <1>8, <2>1, <2>2 DEF Vms!Destroy
<1>9. CASE Vms!OffNix \/ Vms!OffJson
  <2>1. Cleanup \in Vms!Who
    BY DEF Vms!Who
  <2>2. job[Cleanup].vm # v
    BY <1>4, <1>9, <2>1 DEF Vms!OffNix, Vms!OffJson, Vms!At
  <2> QED
    BY <1>1, <1>9, <2>2 DEF Vms!OffNix, Vms!OffJson, DevhostTypes
<1>10. CASE Vms!PowerFailure
  <2>1. PICK T \in SUBSET {<<job[w].vm, "json">> : w \in {x \in Vms!Who : job[x].pc \in {"json", "off_json"}}},
             N \in SUBSET {<<job[w].vm, "nix">> : w \in {x \in Vms!Who : job[x].pc \in {"nix", "off_nix"}}} :
          /\ torn' = torn \cup T \cup N
          /\ config' = [u \in VM |-> IF <<u, "json">> \in T THEN Vms!NoConfig ELSE config[u]]
          /\ nix' = [u \in VM |-> IF <<u, "nix">> \in N THEN Vms!NoFile ELSE nix[u]]
    BY <1>10 DEF Vms!PowerFailure
  <2>2. <<v, "json">> \notin T /\ <<v, "nix">> \notin N
    BY <1>1, <2>1 DEF DevhostTorn
  <2> QED
    BY <1>10, <2>1, <2>2 DEF Vms!PowerFailure
<1>11. ASSUME NEW u \in VM, Vms!Pass(u)
       PROVE  nix'[v] = nix[v] /\ config'[v].id = config[v].id /\ units'[v] = units[v]
  BY <1>1, <1>11 DEF Vms!Pass, DevhostTypes, DevhostConfig
<1>12. CASE \/ Vms!StartCleanup \/ Vms!Look \/ Vms!OffSwitch \/ Vms!AgentSwitch \/ UNCHANGED Vms!vars
            \/ \E u \in VM, w \in User : Vms!StartEnsure(w, u) \/ Vms!StartDestroy(w, u)
            \/ \E w \in Vms!Who : Vms!StepFails(w)
  BY <1>2, <1>12, Zenon DEF Vms!StartCleanup, Vms!Look, Vms!OffSwitch, Vms!AgentSwitch, Vms!vars,
     Vms!StartEnsure, Vms!StartDestroy, Vms!StepFails, Vms!files
<1> QED
  BY <1>5, <1>6, <1>7, <1>8, <1>9, <1>10, <1>11, <1>12 DEF Vms!Next

---------------------------------------------------------------------------
(***************************************************************************)
(* LUKS keys: the types, which hold whatever is mistyped.                  *)
(***************************************************************************)

\* The types of encrypted volumes: a volume gets a key that has been written. They hold however
\* often passphrases are mistyped.
LuksKinds == Luks!TypeOK /\ (command.pc = "format" => key_file \in Key /\ command.vol \in Vol)

\* They are inductive.
LEMMA LuksKindsStep ==
  /\ Luks!Init => LuksKinds
  /\ LuksKinds /\ [Luks!Next]_(Luks!vars) => LuksKinds'
<1> USE DEF LuksKinds, Luks!TypeOK, Luks!slots, Luks!Phase
<1>1. Luks!Idle.pc = "idle" /\ Luks!Idle \in LuksCommand
  BY DEF Luks!Idle, LuksCommand
<1>2. Luks!Init => LuksKinds
  BY <1>1 DEF Luks!Init, LuksCommand
<1> SUFFICES ASSUME LuksKinds, [Luks!Next]_(Luks!vars)
             PROVE  LuksKinds'
  BY <1>2
<1>3. command \in LuksCommand
  BY DEF LuksCommand
<1>4. ASSUME NEW p \in Luks!Phase, command' = [command EXCEPT !.pc = p]
      PROVE  command' \in LuksCommand /\ command'.pc = p
  BY <1>3, <1>4 DEF LuksCommand
<1>5. CASE Luks!CreateKeystore
  BY <1>4, <1>5 DEF Luks!CreateKeystore, Luks!GoTo, LuksCommand
<1>6. CASE Luks!WriteKey
  BY <1>1, <1>6 DEF Luks!WriteKey, LuksCommand
<1>7. CASE Luks!DestroyKeystore
  BY <1>7 DEF Luks!DestroyKeystore, Luks!Begin, Luks!At
<1>8. CASE Luks!LuksFormat
  <2>1. command' \in LuksCommand /\ command'.pc = "ask"
    BY <1>4, <1>8 DEF Luks!LuksFormat, Luks!GoTo
  <2>2. key_file \in Key
    BY <1>8 DEF Luks!LuksFormat, Luks!At
  <2>3. command.vol \in Vol
    BY <1>8 DEF Luks!LuksFormat, Luks!At
  <2> QED
    BY <1>8, <2>1, <2>2, <2>3 DEF Luks!LuksFormat, LuksCommand
<1>9. CASE Luks!LuksAddAdmin
  BY <1>1, <1>9 DEF Luks!LuksAddAdmin, LuksCommand
<1>10. ASSUME NEW from \in Luks!Phase, NEW then \in Luks!Phase \ {"format"}, Luks!Prompt(from, then)
       PROVE  LuksKinds'
  <2>1. PICK p \in Luks!Typed : fingerprint' = p /\ command' = [command EXCEPT !.pc = then, !.typed = p]
    BY <1>10 DEF Luks!Prompt
  <2>2. command' \in LuksCommand /\ command'.pc = then
    BY <1>3, <2>1 DEF LuksCommand
  <2> QED
    BY <1>10, <2>1, <2>2 DEF Luks!Prompt, LuksCommand
<1>11. CASE Luks!NextVolume
  <2>1. command' \in LuksCommand /\ command'.pc # "format"
    <3>1. CASE command' = Luks!Idle
      BY <1>1, <3>1
    <3>2. ASSUME NEW v \in command.todo,
                 command' = [command EXCEPT !.pc = "kill", !.vol = v, !.todo = @ \ {v}]
          PROVE  command' \in LuksCommand /\ command'.pc # "format"
      BY <1>3, <3>2 DEF LuksCommand
    <3> QED
      BY <1>11, <3>1, <3>2 DEF Luks!NextVolume
  <2> QED
    BY <1>11, <2>1 DEF Luks!NextVolume, LuksCommand
<1>12. CASE Luks!LuksKillSlot
  <2>1. command' \in LuksCommand /\ command'.pc # "format"
    BY <1>1, <1>4, <1>12 DEF Luks!LuksKillSlot, Luks!GoTo
  <2>2. local' \in [Vol -> Key \cup {Luks!None}] /\ admin' \in [Vol -> Luks!Typed \cup {Luks!None}]
    BY <1>12 DEF Luks!LuksKillSlot
  <2> QED
    BY <1>12, <2>1, <2>2 DEF Luks!LuksKillSlot, LuksCommand
<1>13. CASE Luks!LuksAddKey
  <2>1. command' \in LuksCommand /\ command'.pc # "format"
    BY <1>1, <1>4, <1>13 DEF Luks!LuksAddKey, Luks!GoTo
  <2>2. command.typed \in Luks!Typed \cup {Luks!None}
    BY <1>3 DEF LuksCommand
  <2>3. local' \in [Vol -> Key \cup {Luks!None}] /\ admin' \in [Vol -> Luks!Typed \cup {Luks!None}]
    BY <1>13, <2>2 DEF Luks!LuksAddKey
  <2> QED
    BY <1>13, <2>1, <2>3 DEF Luks!LuksAddKey, LuksCommand
<1>14. CASE Luks!Interrupt
  BY <1>1, <1>14 DEF Luks!Interrupt, LuksCommand
<1>15. ASSUME NEW v \in Vol, Luks!CreateVolume(v)
       PROVE  LuksKinds'
  <2>1. command' \in LuksCommand
    BY <1>15 DEF Luks!CreateVolume, Luks!Idle, LuksCommand
  <2> QED
    BY <1>15, <2>1 DEF Luks!CreateVolume, LuksCommand
<1>16. ASSUME NEW v \in Vol, Luks!Purge(v)
       PROVE  LuksKinds'
  BY <1>16 DEF Luks!Purge
<1>17. ASSUME NEW slot \in {"local", "admin"}, NEW vols \in SUBSET Vol, Luks!Rekey(slot, vols)
       PROVE  LuksKinds'
  <2>1. command' \in LuksCommand /\ command'.pc = "prompt"
    BY <1>17 DEF Luks!Rekey, Luks!Idle, LuksCommand
  <2> QED
    BY <1>17, <2>1 DEF Luks!Rekey, LuksCommand
<1>18. CASE UNCHANGED Luks!vars
  BY <1>18 DEF Luks!vars
<1> QED
  BY <1>5, <1>6, <1>7, <1>8, <1>9, <1>10, <1>11, <1>12, <1>13, <1>14, <1>15, <1>16, <1>17, <1>18
     DEF Luks!Next

---------------------------------------------------------------------------
(***************************************************************************)
(* The development host: the types, which hold for any number of commands  *)
(* at once.                                                                *)
(***************************************************************************)

\* The types of the development host, which hold for any number of commands at once: a command
\* that is about to write a file knows its VM.
DevhostKinds ==
  /\ config \in [VM -> DevhostConfig] /\ nix \in [VM -> DevhostFile]
  /\ torn \subseteq VM \X {"json", "nix"}
  /\ disk \in [VM -> DevhostImage] /\ tmp \in [VM -> DevhostImage]
  /\ nbd \in VM \cup {Vms!None} /\ units \in [VM -> {Vms!NoId} \cup Vms!Id]
  /\ job \in [Vms!Who -> DevhostJob]
  /\ \A w \in Vms!Who : job[w].pc \in {"load", "json", "nix", "off_nix", "off_json"} => job[w].vm \in VM

\* A command's step.
LEMMA DevhostKindOf ==
  ASSUME DevhostKinds, NEW w \in Vms!Who, NEW new \in DevhostJob, job' = [job EXCEPT ![w] = new],
         new.pc \in {"load", "json", "nix", "off_nix", "off_json"} => new.vm \in VM
  PROVE  /\ job' \in [Vms!Who -> DevhostJob]
         /\ \A x \in Vms!Who :
              job'[x].pc \in {"load", "json", "nix", "off_nix", "off_json"} => job'[x].vm \in VM
BY DEF DevhostKinds

\* One that writes no file next.
LEMMA DevhostKindGoTo ==
  ASSUME DevhostKinds, NEW w \in Vms!Who, NEW p \in Vms!Phase, Vms!GoTo(w, p),
         p \in {"load", "json", "nix", "off_nix", "off_json"} => job[w].vm \in VM
  PROVE  /\ job' \in [Vms!Who -> DevhostJob]
         /\ \A x \in Vms!Who :
              job'[x].pc \in {"load", "json", "nix", "off_nix", "off_json"} => job'[x].vm \in VM
<1> DEFINE new == [job[w] EXCEPT !.pc = p]
<1>1. job[w] \in DevhostJob
  BY DEF DevhostKinds
<1>2. new \in DevhostJob /\ new.pc = p /\ new.vm = job[w].vm
  BY <1>1 DEF DevhostJob
<1>3. job' = [job EXCEPT ![w] = new]
  BY DEF Vms!GoTo
<1> HIDE DEF new
<1> QED
  BY <1>2, <1>3, DevhostKindOf

\* One that ends, or has failed.
LEMMA DevhostKindIdle ==
  ASSUME DevhostKinds, NEW w \in Vms!Who,
         job' = [job EXCEPT ![w] = Vms!Idle] \/ job' = Vms!Undo(w)
  PROVE  /\ job' \in [Vms!Who -> DevhostJob]
         /\ \A x \in Vms!Who :
              job'[x].pc \in {"load", "json", "nix", "off_nix", "off_json"} => job'[x].vm \in VM
<1>1. Vms!Idle \in DevhostJob /\ Vms!Idle.pc = "idle"
  BY DEF Vms!Idle, DevhostJob, Vms!Phase, Vms!NoConfig, DevhostConfig, Vms!Age
<1>2. CASE job' = [job EXCEPT ![w] = Vms!Idle]
  BY <1>1, <1>2, DevhostKindOf
<1>3. CASE job' = [job EXCEPT ![w].pc = "rm_json"]
  BY <1>3, DevhostKindGoTo DEF Vms!GoTo, Vms!Phase
<1> QED
  BY <1>2, <1>3 DEF Vms!Undo

\* A switch.
LEMMA DevhostKindSwitched ==
  ASSUME DevhostKinds
  PROVE  Vms!Switched \in [VM -> {Vms!NoId} \cup Vms!Id]
BY DEF DevhostKinds, DevhostFile, Vms!Switched

\* The steps of ensure.
LEMMA DevhostKindEnsure ==
  ASSUME DevhostKinds, NEW w \in Vms!Who, Vms!Ensure(w)
  PROVE  DevhostKinds'
<1> USE DEF Vms!files, Vms!images
<1> DEFINE jobs == /\ job' \in [Vms!Who -> DevhostJob]
                   /\ \A x \in Vms!Who :
                        job'[x].pc \in {"load", "json", "nix", "off_nix", "off_json"} => job'[x].vm \in VM
<1>1. job[w] \in DevhostJob
  BY DEF DevhostKinds
<1>2. CASE Vms!Load(w)
  <2>1. CASE job' = [job EXCEPT ![w] = Vms!Idle]
    <3>1. jobs
      BY <2>1, DevhostKindIdle
    <3> QED
      BY <1>2, <3>1 DEF Vms!Load, DevhostKinds
  <2>2. ASSUME NEW i \in {Vms!NoId} \cup Vms!Id,
               job' = [job EXCEPT ![w].pc = "json", ![w].existed = Vms!HasNix(job[w].vm),
                                  ![w].cfg = [id |-> i, online |-> TRUE, age |-> "fresh"]]
        PROVE  DevhostKinds'
    <3> DEFINE new == [job[w] EXCEPT !.pc = "json", !.existed = Vms!HasNix(job[w].vm),
                                     !.cfg = [id |-> i, online |-> TRUE, age |-> "fresh"]]
    <3>1. job[w].vm \in VM
      BY <1>2 DEF Vms!Load, Vms!At, DevhostKinds
    <3>2. Vms!HasNix(job[w].vm) \in BOOLEAN
      BY DEF Vms!HasNix
    <3>3. [id |-> i, online |-> TRUE, age |-> "fresh"] \in DevhostConfig
      BY <2>2 DEF DevhostConfig, Vms!Age
    <3>4. new \in DevhostJob /\ new.vm = job[w].vm
      BY <1>1, <3>2, <3>3 DEF DevhostJob, Vms!Phase
    <3>5. job' = [job EXCEPT ![w] = new]
      BY <2>2
    <3> HIDE DEF new
    <3>6. jobs
      BY <3>1, <3>4, <3>5, DevhostKindOf
    <3> QED
      BY <1>2, <3>6 DEF Vms!Load, DevhostKinds
  <2>3. \A v \in VM : config[v].id \in {Vms!NoId} \cup Vms!Id
    BY DEF DevhostKinds, DevhostConfig
  <2>4. job[w].vm \in VM
    BY <1>2 DEF Vms!Load, Vms!At, DevhostKinds
  <2> QED
    BY <1>2, <2>1, <2>2, <2>3, <2>4 DEF Vms!Load, Vms!free_ids
<1>3. CASE Vms!WriteJson(w)
  <2>1. jobs
    BY <1>3, DevhostKindGoTo DEF Vms!WriteJson, Vms!At, Vms!Phase, DevhostKinds
  <2> QED
    BY <1>1, <1>3, <2>1 DEF Vms!WriteJson, DevhostKinds, DevhostJob
<1>4. CASE Vms!WriteNix(w)
  <2>1. jobs
    BY <1>4, DevhostKindGoTo DEF Vms!WriteNix, Vms!Phase
  <2>2. [id |-> job[w].cfg.id, online |-> TRUE] \in DevhostFile
    BY <1>1 DEF DevhostJob, DevhostConfig, DevhostFile
  <2> QED
    BY <1>4, <2>1, <2>2 DEF Vms!WriteNix, DevhostKinds
<1>5. CASE Vms!CopyImage(w)
  <2>1. jobs
    BY <1>5, DevhostKindGoTo DEF Vms!CopyImage, Vms!Phase
  <2> QED
    BY <1>5, <2>1 DEF Vms!CopyImage, DevhostKinds, DevhostImage
<1>6. CASE Vms!Connect(w)
  <2>1. jobs
    BY <1>6, DevhostKindGoTo DEF Vms!Connect, Vms!Phase
  <2> QED
    BY <1>1, <1>6, <2>1 DEF Vms!Connect, DevhostKinds, DevhostJob
<1>7. CASE Vms!WriteEnc(w)
  <2>1. jobs
    BY <1>7, DevhostKindGoTo DEF Vms!WriteEnc, Vms!Phase
  <2>2. job[w].cfg.id \in DevhostImage
    BY <1>1 DEF DevhostJob, DevhostConfig, DevhostImage, Vms!NoId, Vms!NoImage
  <2>3. tmp' \in [VM -> DevhostImage]
    BY <1>7, <2>2 DEF Vms!WriteEnc, DevhostKinds
  <2> QED
    BY <1>7, <2>1, <2>3 DEF Vms!WriteEnc, DevhostKinds
<1>8. CASE Vms!Disconnect(w)
  <2>1. jobs
    BY <1>8, DevhostKindGoTo, DevhostKindIdle DEF Vms!Disconnect, Vms!Phase
  <2> QED
    BY <1>8, <2>1 DEF Vms!Disconnect, DevhostKinds
<1>9. CASE Vms!Rename(w)
  <2>1. jobs
    BY <1>9, DevhostKindGoTo, DevhostKindIdle DEF Vms!Rename, Vms!Phase, Vms!GoTo
  <2>2. disk' \in [VM -> DevhostImage] /\ tmp' \in [VM -> DevhostImage]
    BY <1>9 DEF Vms!Rename, DevhostKinds, DevhostImage
  <2> QED
    BY <1>9, <2>1, <2>2, SMTT(30) DEF Vms!Rename, DevhostKinds
<1>10. CASE Vms!Switch(w)
  <2>1. jobs
    BY <1>10, DevhostKindGoTo, DevhostKindIdle DEF Vms!Switch, Vms!Phase
  <2> QED
    BY <1>10, <2>1, DevhostKindSwitched DEF Vms!Switch, DevhostKinds
<1>11. CASE Vms!Wait(w)
  <2>1. jobs
    BY <1>11, DevhostKindGoTo, DevhostKindIdle DEF Vms!Wait, Vms!Phase
  <2> QED
    BY <1>11, <2>1 DEF Vms!Wait, DevhostKinds
<1>12. CASE Vms!Sync(w)
  <2>1. jobs
    BY <1>12, DevhostKindIdle DEF Vms!Sync
  <2> QED
    BY <1>12, <2>1 DEF Vms!Sync, DevhostKinds
<1> QED
  BY <1>2, <1>3, <1>4, <1>5, <1>6, <1>7, <1>8, <1>9, <1>10, <1>11, <1>12 DEF Vms!Ensure

\* The steps of destroy, and those that fail.
LEMMA DevhostKindDestroy ==
  ASSUME DevhostKinds, NEW w \in Vms!Who, Vms!Destroy(w) \/ Vms!StepFails(w)
  PROVE  DevhostKinds'
<1> USE DEF Vms!files, Vms!images
<1> DEFINE jobs == /\ job' \in [Vms!Who -> DevhostJob]
                   /\ \A x \in Vms!Who :
                        job'[x].pc \in {"load", "json", "nix", "off_nix", "off_json"} => job'[x].vm \in VM
<1>1. CASE Vms!RemoveJson(w)
  <2>1. jobs
    BY <1>1, DevhostKindGoTo DEF Vms!RemoveJson, Vms!Phase
  <2>2. Vms!NoConfig \in DevhostConfig
    BY DEF Vms!NoConfig, DevhostConfig, Vms!Age
  <2> QED
    BY <1>1, <2>1, <2>2 DEF Vms!RemoveJson, DevhostKinds
<1>2. CASE Vms!RemoveNix(w)
  <2>1. jobs
    BY <1>2, DevhostKindGoTo DEF Vms!RemoveNix, Vms!Phase
  <2>2. Vms!NoFile \in DevhostFile
    BY DEF Vms!NoFile, DevhostFile
  <2> QED
    BY <1>2, <2>1, <2>2 DEF Vms!RemoveNix, DevhostKinds
<1>3. CASE Vms!RemoveData(w)
  <2>1. jobs
    BY <1>3, DevhostKindGoTo DEF Vms!RemoveData, Vms!Phase
  <2> QED
    BY <1>3, <2>1 DEF Vms!RemoveData, DevhostKinds, DevhostImage
<1>4. CASE Vms!RemoveUnit(w)
  <2>1. jobs
    BY <1>4, DevhostKindGoTo, DevhostKindIdle DEF Vms!RemoveUnit, Vms!Phase
  <2> QED
    BY <1>4, <2>1, DevhostKindSwitched DEF Vms!RemoveUnit, DevhostKinds
<1>5. CASE Vms!StepFails(w)
  <2>1. jobs
    BY <1>5, DevhostKindGoTo, DevhostKindIdle, Zenon DEF Vms!StepFails, Vms!Phase, Vms!GoTo
  <2> QED
    BY <1>5, <2>1, SMTT(30) DEF Vms!StepFails, DevhostKinds
<1> QED
  BY <1>1, <1>2, <1>3, <1>4, <1>5 DEF Vms!Destroy

\* The steps of cleanup.
LEMMA DevhostKindCleanup ==
  ASSUME DevhostKinds,
         Vms!StartCleanup \/ Vms!Look \/ Vms!OffNix \/ Vms!OffJson \/ Vms!OffSwitch
  PROVE  DevhostKinds'
<1> USE DEF Vms!files, Vms!images
<1> DEFINE jobs == /\ job' \in [Vms!Who -> DevhostJob]
                   /\ \A x \in Vms!Who :
                        job'[x].pc \in {"load", "json", "nix", "off_nix", "off_json"} => job'[x].vm \in VM
<1>0. Cleanup \in Vms!Who
  BY DEF Vms!Who
<1>1. job[Cleanup] \in DevhostJob
  BY <1>0 DEF DevhostKinds
<1>2. CASE Vms!StartCleanup
  <2> DEFINE new == [Vms!Idle EXCEPT !.pc = "look", !.rest = {v \in VM : Vms!Known(v)}]
  <2>1. new \in DevhostJob /\ new.pc = "look"
    BY DEF Vms!Idle, DevhostJob, Vms!Phase, Vms!NoConfig, DevhostConfig, Vms!Age
  <2>2. job' = [job EXCEPT ![Cleanup] = new]
    BY <1>2 DEF Vms!StartCleanup
  <2> HIDE DEF new
  <2>3. jobs
    BY <1>0, <2>1, <2>2, DevhostKindOf, Zenon
  <2> QED
    BY <1>2, <2>3 DEF Vms!StartCleanup, DevhostKinds
<1>3. CASE Vms!Look
  <2>1. ASSUME NEW v \in job[Cleanup].rest,
               job' = [job EXCEPT ![Cleanup].pc = Vms!Verdict(config[v]), ![Cleanup].vm = v,
                                  ![Cleanup].cfg = config[v], ![Cleanup].rest = @ \ {v}]
        PROVE  jobs
    <3> DEFINE new == [job[Cleanup] EXCEPT !.pc = Vms!Verdict(config[v]), !.vm = v,
                                           !.cfg = config[v], !.rest = @ \ {v}]
    <3>1. v \in VM /\ config[v] \in DevhostConfig
      BY <1>1 DEF DevhostJob, DevhostKinds
    <3>2. Vms!Verdict(config[v]) \in Vms!Phase
      BY DEF Vms!Verdict, Vms!Phase
    <3>3. new \in DevhostJob /\ new.vm \in VM
      BY <1>1, <3>1, <3>2 DEF DevhostJob
    <3>4. job' = [job EXCEPT ![Cleanup] = new]
      BY <2>1, Zenon
    <3> HIDE DEF new
    <3> QED
      BY <1>0, <3>3, <3>4, DevhostKindOf
  <2>2. jobs
    BY <1>0, <1>3, <2>1, DevhostKindGoTo, DevhostKindIdle, Zenon DEF Vms!Look, Vms!Phase
  <2> QED
    BY <1>3, <2>2, Zenon DEF Vms!Look, DevhostKinds
<1>4. CASE Vms!OffNix
  <2> DEFINE new == [job[Cleanup] EXCEPT !.pc = "off_json", !.shut = TRUE]
  <2>1. job[Cleanup].vm \in VM
    BY <1>0, <1>4 DEF Vms!OffNix, Vms!At, DevhostKinds
  <2>2. new \in DevhostJob /\ new.vm = job[Cleanup].vm
    BY <1>1 DEF DevhostJob, Vms!Phase
  <2>3. job' = [job EXCEPT ![Cleanup] = new]
    BY <1>4 DEF Vms!OffNix
  <2> HIDE DEF new
  <2>4. jobs
    BY <1>0, <2>1, <2>2, <2>3, DevhostKindOf
  <2>5. [id |-> job[Cleanup].cfg.id, online |-> FALSE] \in DevhostFile
    BY <1>1 DEF DevhostJob, DevhostConfig, DevhostFile
  <2> QED
    BY <1>4, <2>4, <2>5 DEF Vms!OffNix, DevhostKinds
<1>5. CASE Vms!OffJson
  <2>1. jobs
    BY <1>0, <1>5, DevhostKindGoTo DEF Vms!OffJson, Vms!Phase
  <2>2. [job[Cleanup].cfg EXCEPT !.online = FALSE] \in DevhostConfig
    BY <1>1 DEF DevhostJob, DevhostConfig
  <2> QED
    BY <1>5, <2>1, <2>2 DEF Vms!OffJson, DevhostKinds
<1>6. CASE Vms!OffSwitch
  <2>1. jobs
    BY <1>0, <1>6, DevhostKindIdle DEF Vms!OffSwitch
  <2> QED
    BY <1>6, <2>1, DevhostKindSwitched DEF Vms!OffSwitch, DevhostKinds
<1> QED
  BY <1>2, <1>3, <1>4, <1>5, <1>6

\* The files that a power failure may leave empty are those of VMs.
LEMMA DevhostKindPower == DevhostKinds /\ Vms!PowerFailure => DevhostKinds'
<1> SUFFICES ASSUME DevhostKinds, Vms!PowerFailure
             PROVE  DevhostKinds'
  OBVIOUS
<1>1. Vms!Idle \in DevhostJob /\ Vms!Idle.pc = "idle"
  BY DEF Vms!Idle, DevhostJob, Vms!Phase, Vms!NoConfig, DevhostConfig, Vms!Age
<1>2. PICK T \in SUBSET {<<job[w].vm, "json">> : w \in {x \in Vms!Who : job[x].pc \in {"json", "off_json"}}},
           N \in SUBSET {<<job[w].vm, "nix">> : w \in {x \in Vms!Who : job[x].pc \in {"nix", "off_nix"}}} :
        /\ torn' = torn \cup T \cup N
        /\ config' = [v \in VM |-> IF <<v, "json">> \in T THEN Vms!NoConfig ELSE config[v]]
        /\ nix' = [v \in VM |-> IF <<v, "nix">> \in N THEN Vms!NoFile ELSE nix[v]]
  BY DEF Vms!PowerFailure
<1>3. T \subseteq VM \X {"json", "nix"} /\ N \subseteq VM \X {"json", "nix"}
  BY DEF DevhostKinds
<1>4. torn' \subseteq VM \X {"json", "nix"}
  BY <1>2, <1>3 DEF DevhostKinds
<1>5. config' \in [VM -> DevhostConfig]
  BY <1>2 DEF DevhostKinds, Vms!NoConfig, DevhostConfig, Vms!Age
<1>6. nix' \in [VM -> DevhostFile]
  BY <1>2 DEF DevhostKinds, Vms!NoFile, DevhostFile
<1>7. /\ job' = [w \in Vms!Who |-> Vms!Idle] /\ nbd' = Vms!None
      /\ UNCHANGED <<disk, tmp, units>>
  BY DEF Vms!PowerFailure
<1> QED
  BY <1>1, <1>4, <1>5, <1>6, <1>7 DEF DevhostKinds

\* The types are inductive.
LEMMA DevhostKindsStep ==
  /\ Vms!Init => DevhostKinds
  /\ DevhostKinds /\ [Vms!Next]_(Vms!vars) => DevhostKinds'
<1> USE DEF Vms!files, Vms!images
<1>1. Vms!Idle \in DevhostJob /\ Vms!Idle.pc = "idle"
  BY DEF Vms!Idle, DevhostJob, Vms!Phase, Vms!NoConfig, DevhostConfig, Vms!Age
<1>2. Vms!NoConfig \in DevhostConfig /\ Vms!NoFile \in DevhostFile
  BY DEF Vms!NoConfig, Vms!NoFile, DevhostConfig, DevhostFile, Vms!Age
<1>3. Vms!Init => DevhostKinds
  BY <1>1, <1>2 DEF Vms!Init, DevhostKinds, DevhostImage
<1> SUFFICES ASSUME DevhostKinds, [Vms!Next]_(Vms!vars)
             PROVE  DevhostKinds'
  BY <1>3
<1>4. ASSUME NEW w \in User, NEW v \in VM, Vms!StartEnsure(w, v) \/ Vms!StartDestroy(w, v)
      PROVE  DevhostKinds'
  <2>1. w \in Vms!Who
    BY DEF Vms!Who
  <2>2. PICK p \in {"load", "rm_json"} : job' = [job EXCEPT ![w] = [Vms!Idle EXCEPT !.pc = p, !.vm = v]]
    BY <1>4 DEF Vms!StartEnsure, Vms!StartDestroy
  <2> DEFINE new == [Vms!Idle EXCEPT !.pc = p, !.vm = v]
  <2>3. new \in DevhostJob /\ new.vm = v
    BY <1>1 DEF DevhostJob, Vms!Phase
  <2> HIDE DEF new
  <2>4. /\ job' \in [Vms!Who -> DevhostJob]
        /\ \A x \in Vms!Who :
             job'[x].pc \in {"load", "json", "nix", "off_nix", "off_json"} => job'[x].vm \in VM
    BY <2>1, <2>2, <2>3, DevhostKindOf DEF new
  <2> QED
    BY <1>4, <2>4 DEF Vms!StartEnsure, Vms!StartDestroy, DevhostKinds
<1>5. ASSUME NEW v \in VM, Vms!Pass(v)
      PROVE  DevhostKinds'
  <2>1. config' \in [VM -> DevhostConfig]
    BY <1>5 DEF Vms!Pass, DevhostKinds, DevhostConfig, Vms!Age
  <2> QED
    BY <1>5, <2>1 DEF Vms!Pass, DevhostKinds
<1>6. CASE Vms!AgentSwitch
  BY <1>6, DevhostKindSwitched DEF Vms!AgentSwitch, DevhostKinds
<1>7. CASE UNCHANGED Vms!vars
  BY <1>7 DEF Vms!vars, DevhostKinds
<1> QED
  BY <1>4, <1>5, <1>6, <1>7, DevhostKindEnsure, DevhostKindDestroy, DevhostKindCleanup, DevhostKindPower
     DEF Vms!Next

\* They imply those of the module.
LEMMA DevhostKindsTyped == DevhostKinds => Vms!TypeOK
BY DEF DevhostKinds, DevhostConfig, DevhostFile, DevhostImage, DevhostJob, Vms!TypeOK

---------------------------------------------------------------------------
(***************************************************************************)
(* Monitoring checks: every fact is on its ladder, and every check has an  *)
(* exit code.                                                              *)
(***************************************************************************)

\* The highest of some results is one of them.
LEMMA ChecksWorst ==
  ASSUME NEW S \in SUBSET (0 .. 3), S # {}
  PROVE  Monitoring!Worst(S) \in S /\ \A c \in S : c <= Monitoring!Worst(S)
<1>1. \E c \in S : \A d \in S : c >= d
  <2>1. CASE 3 \in S
    BY <2>1
  <2>2. CASE 3 \notin S /\ 2 \in S
    BY <2>2
  <2>3. CASE 3 \notin S /\ 2 \notin S /\ 1 \in S
    BY <2>3
  <2>4. CASE 3 \notin S /\ 2 \notin S /\ 1 \notin S
    <3>1. \A c \in S : c = 0
      BY <2>4
    <3>2. \E c : c \in S
      OBVIOUS
    <3> QED
      BY <3>1, <3>2
  <2> QED
    BY <2>1, <2>2, <2>3, <2>4
<1> DEFINE m == CHOOSE x \in S : \A y \in S : x >= y
<1>2. m \in S /\ \A d \in S : m >= d
  BY <1>1
<1>3. Monitoring!Worst(S) = m
  BY Zenon DEF Monitoring!Worst, Monitoring!Max
<1> HIDE DEF m
<1> QED
  BY <1>2, <1>3

\* The exit codes of nagiosplugin's and the platform's own results.
LEMMA ChecksCodes ==
  /\ 0 \in 0 .. 3 /\ 1 \in 0 .. 3 /\ 2 \in 0 .. 3 /\ 3 \in 0 .. 3
  /\ \A e, w : Monitoring!exit_code(e, w) \in 0 .. 3
  /\ \A v, w, d : Monitoring!Above(v, w, d) \in 0 .. 3
  /\ \A p : \A d \in 0 .. 3 : Monitoring!Guarded(p, d) \in 0 .. 3
  /\ \A S \in SUBSET (0 .. 3) : S # {} => Monitoring!Worst(S) \in 0 .. 3
<1>1. 0 \in 0 .. 3 /\ 1 \in 0 .. 3 /\ 2 \in 0 .. 3 /\ 3 \in 0 .. 3
  OBVIOUS
<1>2. \A e, w : Monitoring!exit_code(e, w) \in 0 .. 3
  BY <1>1, Zenon DEF Monitoring!exit_code
<1>3. \A v, w, d : Monitoring!Above(v, w, d) \in 0 .. 3
  BY <1>2, Zenon DEF Monitoring!Above
<1>4. \A p : \A d \in 0 .. 3 : Monitoring!Guarded(p, d) \in 0 .. 3
  BY <1>1, Zenon DEF Monitoring!Guarded
<1>5. \A S \in SUBSET (0 .. 3) : S # {} => Monitoring!Worst(S) \in 0 .. 3
  BY ChecksWorst, Zenon
<1> QED
  BY <1>1, <1>2, <1>3, <1>4, <1>5, Zenon

\* The highest of three or four.
LEMMA ChecksWorsts ==
  ASSUME NEW a \in 0 .. 3, NEW b \in 0 .. 3, NEW d \in 0 .. 3, NEW e \in 0 .. 3
  PROVE  Monitoring!Worst({a, b, d}) \in 0 .. 3 /\ Monitoring!Worst({a, b} \cup {d, e}) \in 0 .. 3
<1>1. {a, b, d} \in SUBSET (0 .. 3) /\ {a, b, d} # {}
  OBVIOUS
<1>2. {a, b} \cup {d, e} \in SUBSET (0 .. 3) /\ {a, b} \cup {d, e} # {}
  OBVIOUS
<1> QED
  BY <1>1, <1>2, ChecksCodes, Zenon

\* The common ladders.
LEMMA ChecksWorks ==
  /\ Len(Monitoring!Works) \in Nat \ {0} /\ Len(Monitoring!Appears) \in Nat \ {0}
  /\ Len(Monitoring!NodeStates) \in Nat \ {0}
  /\ Len(Monitoring!NodeStates \o <<"DOWN*">>) \in Nat \ {0}
BY DEF Monitoring!Works, Monitoring!Appears, Monitoring!NodeStates

\* A ladder has at least one step.
LEMMA ChecksLadders ==
  ASSUME check \in Monitoring!Deployed
  PROVE  \A f \in Monitoring!Facts : Len(Monitoring!Ladder(check)[f]) \in Nat \ {0}
<1> PICK ladder : ladder = Monitoring!Ladder(check)
  OBVIOUS
<1>1. CASE check = "maintenance"
  <2>1. ladder = [entered |-> <<10, 45, 90, 1435, 1450>>, running |-> <<0, 1, 2>>,
                  queue_days |-> <<0, 7, 8>>]
    BY <1>1 DEF Monitoring!Ladder
  <2>2. Monitoring!Facts = {"entered", "running", "queue_days"}
    BY <2>1 DEF Monitoring!Facts
  <2>3. /\ Len(ladder["entered"]) \in Nat \ {0} /\ Len(ladder["running"]) \in Nat \ {0}
        /\ Len(ladder["queue_days"]) \in Nat \ {0}
    BY <2>1, ChecksWorks
  <2> QED
    BY <2>2, <2>3, Zenon
<1>2. CASE check = "manage"
  <2>1. ladder = [production |-> Monitoring!Works, url |-> Monitoring!Works,
                  version |-> Monitoring!Works, state_version |-> <<"valid", "invalid">>,
                  eval_warnings |-> Monitoring!Appears,
                  channel |-> <<"build", "no_build", "none">>, free |-> <<25, 15, 14>>]
    BY <1>2 DEF Monitoring!Ladder
  <2>2. Monitoring!Facts = {"production", "url", "version", "state_version", "eval_warnings",
                            "channel", "free"}
    BY <2>1 DEF Monitoring!Facts
  <2>3. /\ Len(ladder["production"]) \in Nat \ {0} /\ Len(ladder["url"]) \in Nat \ {0}
        /\ Len(ladder["version"]) \in Nat \ {0} /\ Len(ladder["state_version"]) \in Nat \ {0}
        /\ Len(ladder["eval_warnings"]) \in Nat \ {0} /\ Len(ladder["channel"]) \in Nat \ {0}
        /\ Len(ladder["free"]) \in Nat \ {0}
    BY <2>1, ChecksWorks
  <2> QED
    BY <2>2, <2>3, Zenon
<1>3. CASE check = "slurm"
  <2>1. ladder = [controllers |-> Monitoring!Works, primary |-> Monitoring!Works,
                  slurmd |-> Monitoring!Works, munged |-> Monitoring!Works,
                  info |-> Monitoring!Works, own |-> Monitoring!NodeStates,
                  other |-> Monitoring!NodeStates \o <<"DOWN*">>]
    BY <1>3 DEF Monitoring!Ladder
  <2>2. Monitoring!Facts = {"controllers", "primary", "slurmd", "munged", "info", "own", "other"}
    BY <2>1 DEF Monitoring!Facts
  <2>3. /\ Len(ladder["controllers"]) \in Nat \ {0} /\ Len(ladder["primary"]) \in Nat \ {0}
        /\ Len(ladder["slurmd"]) \in Nat \ {0} /\ Len(ladder["munged"]) \in Nat \ {0}
        /\ Len(ladder["info"]) \in Nat \ {0} /\ Len(ladder["own"]) \in Nat \ {0}
        /\ Len(ladder["other"]) \in Nat \ {0}
    BY <2>1, ChecksWorks
  <2> QED
    BY <2>2, <2>3, Zenon
<1>4. CASE check = "unit"
  <2>1. ladder = [dbus |-> Monitoring!Works, loaded |-> Monitoring!Works,
                  state |-> <<"active", "inactive", "failed">>]
    BY <1>4 DEF Monitoring!Ladder
  <2>2. Monitoring!Facts = {"dbus", "loaded", "state"}
    BY <2>1 DEF Monitoring!Facts
  <2>3. /\ Len(ladder["dbus"]) \in Nat \ {0} /\ Len(ladder["loaded"]) \in Nat \ {0}
        /\ Len(ladder["state"]) \in Nat \ {0}
    BY <2>1, ChecksWorks
  <2> QED
    BY <2>2, <2>3, Zenon
<1>5. CASE check = "units"
  <2>1. ladder = [failed |-> <<{}, {"muted"}, {"muted", "other"}>>]
    BY <1>5 DEF Monitoring!Ladder
  <2>2. Monitoring!Facts = {"failed"}
    BY <2>1 DEF Monitoring!Facts
  <2>3. Len(ladder["failed"]) \in Nat \ {0}
    BY <2>1, ChecksWorks
  <2> QED
    BY <2>2, <2>3, Zenon
<1>6. CASE check = "snapshots"
  <2>1. ladder = [used |-> <<40, 70, 90>>, first |-> <<0, 15, 60>>, second |-> <<0, 25, 60>>,
                  answers |-> Monitoring!Works]
    BY <1>6 DEF Monitoring!Ladder
  <2>2. Monitoring!Facts = {"used", "first", "second", "answers"}
    BY <2>1 DEF Monitoring!Facts
  <2>3. /\ Len(ladder["used"]) \in Nat \ {0} /\ Len(ladder["first"]) \in Nat \ {0}
        /\ Len(ladder["second"]) \in Nat \ {0} /\ Len(ladder["answers"]) \in Nat \ {0}
    BY <2>1, ChecksWorks
  <2> QED
    BY <2>2, <2>3, Zenon
<1>7. CASE check = "cluster"
  <2>1. ladder = [answers |-> Monitoring!Works,
                  health |-> <<"HEALTH_OK", "HEALTH_WARN", "HEALTH_ERR">>, nearfull |-> <<0, 1>>,
                  blocked1 |-> <<0, 1, 2, 201>>, blocked2 |-> <<0, 2, 201>>,
                  oldest1 |-> <<0, 31, 301>>, oldest2 |-> <<0, 301>>]
    BY <1>7 DEF Monitoring!Ladder
  <2>2. Monitoring!Facts = {"answers", "health", "nearfull", "blocked1", "blocked2", "oldest1",
                            "oldest2"}
    BY <2>1 DEF Monitoring!Facts
  <2>3. /\ Len(ladder["answers"]) \in Nat \ {0} /\ Len(ladder["health"]) \in Nat \ {0}
        /\ Len(ladder["nearfull"]) \in Nat \ {0} /\ Len(ladder["blocked1"]) \in Nat \ {0}
        /\ Len(ladder["blocked2"]) \in Nat \ {0} /\ Len(ladder["oldest1"]) \in Nat \ {0}
        /\ Len(ladder["oldest2"]) \in Nat \ {0}
    BY <2>1, ChecksWorks
  <2> QED
    BY <2>2, <2>3, Zenon
<1>8. CASE check = "luks"
  <2>1. ladder = [dumped |-> Monitoring!Works, cipher |-> <<"expected", "other">>,
                  key |-> <<"expected", "none">>, pbkdf |-> <<"expected", "other">>,
                  keyslots |-> <<{0, 1}, {0, 1, 2}, {1}>>,
                  backup |-> <<"same", "differs", "none">>]
    BY <1>8 DEF Monitoring!Ladder
  <2>2. Monitoring!Facts = {"dumped", "cipher", "key", "pbkdf", "keyslots", "backup"}
    BY <2>1 DEF Monitoring!Facts
  <2>3. /\ Len(ladder["dumped"]) \in Nat \ {0} /\ Len(ladder["cipher"]) \in Nat \ {0}
        /\ Len(ladder["key"]) \in Nat \ {0} /\ Len(ladder["pbkdf"]) \in Nat \ {0}
        /\ Len(ladder["keyslots"]) \in Nat \ {0} /\ Len(ladder["backup"]) \in Nat \ {0}
    BY <2>1, ChecksWorks
  <2> QED
    BY <2>2, <2>3, Zenon
<1>9. CASE check = "megaraid"
  <2>1. ladder = [answers |-> Monitoring!Works, changed |-> <<0, 1, 2>>,
                  errors1 |-> <<0, 30, 60>>, errors2 |-> <<0, 30, 80>>,
                  predictive1 |-> <<0, 60>>, predictive2 |-> <<0, 80>>,
                  battery |-> <<"no", "yes", "unknown">>]
    BY <1>9 DEF Monitoring!Ladder
  <2>2. Monitoring!Facts = {"answers", "changed", "errors1", "errors2", "predictive1",
                            "predictive2", "battery"}
    BY <2>1 DEF Monitoring!Facts
  <2>3. /\ Len(ladder["answers"]) \in Nat \ {0} /\ Len(ladder["changed"]) \in Nat \ {0}
        /\ Len(ladder["errors1"]) \in Nat \ {0} /\ Len(ladder["errors2"]) \in Nat \ {0}
        /\ Len(ladder["predictive1"]) \in Nat \ {0} /\ Len(ladder["predictive2"]) \in Nat \ {0}
        /\ Len(ladder["battery"]) \in Nat \ {0}
    BY <2>1, ChecksWorks
  <2> QED
    BY <2>2, <2>3, Zenon
<1>10. CASE check = "disk"
  <2>1. ladder = [used |-> <<400, 510, 610, 810, 910, 951, 980>>]
    BY <1>10 DEF Monitoring!Ladder
  <2>2. Monitoring!Facts = {"used"}
    BY <2>1 DEF Monitoring!Facts
  <2>3. Len(ladder["used"]) \in Nat \ {0}
    BY <2>1, ChecksWorks
  <2> QED
    BY <2>2, <2>3, Zenon
<1>11. CASE check = "interfaces"
  <2>1. ladder = [ethtool |-> Monitoring!Works, link1 |-> Monitoring!Works,
                  speed1 |-> <<10000, 1000, 100>>, duplex1 |-> <<"full", "half">>,
                  link2 |-> Monitoring!Works, speed2 |-> <<1000, 100>>,
                  duplex2 |-> <<"full", "half">>]
    BY <1>11 DEF Monitoring!Ladder
  <2>2. Monitoring!Facts = {"ethtool", "link1", "speed1", "duplex1", "link2", "speed2", "duplex2"}
    BY <2>1 DEF Monitoring!Facts
  <2>3. /\ Len(ladder["ethtool"]) \in Nat \ {0} /\ Len(ladder["link1"]) \in Nat \ {0}
        /\ Len(ladder["speed1"]) \in Nat \ {0} /\ Len(ladder["duplex1"]) \in Nat \ {0}
        /\ Len(ladder["link2"]) \in Nat \ {0} /\ Len(ladder["speed2"]) \in Nat \ {0}
        /\ Len(ladder["duplex2"]) \in Nat \ {0}
    BY <2>1, ChecksWorks
  <2> QED
    BY <2>2, <2>3, Zenon
<1>12. CASE check = "lvm"
  <2>1. ladder = [errors |-> <<0, 1, 2>>]
    BY <1>12 DEF Monitoring!Ladder
  <2>2. Monitoring!Facts = {"errors"}
    BY <2>1 DEF Monitoring!Facts
  <2>3. Len(ladder["errors"]) \in Nat \ {0}
    BY <2>1, ChecksWorks
  <2> QED
    BY <2>2, <2>3, Zenon
<1>13. CASE check = "clamav"
  <2>1. ladder = [cld |-> <<0, 51, 97>>, cvd |-> <<0, 51, 97>>]
    BY <1>13 DEF Monitoring!Ladder
  <2>2. Monitoring!Facts = {"cld", "cvd"}
    BY <2>1 DEF Monitoring!Facts
  <2>3. /\ Len(ladder["cld"]) \in Nat \ {0} /\ Len(ladder["cvd"]) \in Nat \ {0}
    BY <2>1, ChecksWorks
  <2> QED
    BY <2>2, <2>3, Zenon
<1>14. CASE check = "bgp"
  <2>1. ladder = [session1 |-> <<0, 60, 61, Monitoring!NotConfigured>>,
                  session2 |-> <<0, 60, 61, Monitoring!NotConfigured>>]
    BY <1>14 DEF Monitoring!Ladder
  <2>2. Monitoring!Facts = {"session1", "session2"}
    BY <2>1 DEF Monitoring!Facts
  <2>3. /\ Len(ladder["session1"]) \in Nat \ {0} /\ Len(ladder["session2"]) \in Nat \ {0}
    BY <2>1, ChecksWorks
  <2> QED
    BY <2>2, <2>3, Zenon
<1>15. CASE check = "tls"
  <2>1. ladder = [file |-> Monitoring!Works, days |-> <<26, 25, 14, 0>>]
    BY <1>15 DEF Monitoring!Ladder
  <2>2. Monitoring!Facts = {"file", "days"}
    BY <2>1 DEF Monitoring!Facts
  <2>3. /\ Len(ladder["file"]) \in Nat \ {0} /\ Len(ladder["days"]) \in Nat \ {0}
    BY <2>1, ChecksWorks
  <2> QED
    BY <2>2, <2>3, Zenon
<1>16. CASE check = "mongodb"
  <2>1. ladder = [password |-> Monitoring!Works, ping |-> Monitoring!Works,
                  seconds |-> <<0, 3, 6>>, parameter |-> Monitoring!Works,
                  older |-> Monitoring!Appears]
    BY <1>16 DEF Monitoring!Ladder
  <2>2. Monitoring!Facts = {"password", "ping", "seconds", "parameter", "older"}
    BY <2>1 DEF Monitoring!Facts
  <2>3. /\ Len(ladder["password"]) \in Nat \ {0} /\ Len(ladder["ping"]) \in Nat \ {0}
        /\ Len(ladder["seconds"]) \in Nat \ {0} /\ Len(ladder["parameter"]) \in Nat \ {0}
        /\ Len(ladder["older"]) \in Nat \ {0}
    BY <2>1, ChecksWorks
  <2> QED
    BY <2>2, <2>3, Zenon
<1>17. CASE check = "skvaider"
  <2>1. ladder = [models |-> <<"four", "few", "none">>, details |-> Monitoring!Works,
                  chat |-> Monitoring!Works, completions |-> Monitoring!Works,
                  embeddings |-> Monitoring!Works]
    BY <1>17 DEF Monitoring!Ladder
  <2>2. Monitoring!Facts = {"models", "details", "chat", "completions", "embeddings"}
    BY <2>1 DEF Monitoring!Facts
  <2>3. /\ Len(ladder["models"]) \in Nat \ {0} /\ Len(ladder["details"]) \in Nat \ {0}
        /\ Len(ladder["chat"]) \in Nat \ {0} /\ Len(ladder["completions"]) \in Nat \ {0}
        /\ Len(ladder["embeddings"]) \in Nat \ {0}
    BY <2>1, ChecksWorks
  <2> QED
    BY <2>2, <2>3, Zenon
<1>18. CASE check = "neighbours"
  <2>1. ladder = [overflows4 |-> <<0, 1>>, overflows6 |-> <<0, 1>>, entries4 |-> <<30, 31, 51>>,
                  entries6 |-> <<30, 31, 51>>]
    BY <1>18 DEF Monitoring!Ladder
  <2>2. Monitoring!Facts = {"overflows4", "overflows6", "entries4", "entries6"}
    BY <2>1 DEF Monitoring!Facts
  <2>3. /\ Len(ladder["overflows4"]) \in Nat \ {0} /\ Len(ladder["overflows6"]) \in Nat \ {0}
        /\ Len(ladder["entries4"]) \in Nat \ {0} /\ Len(ladder["entries6"]) \in Nat \ {0}
    BY <2>1, ChecksWorks
  <2> QED
    BY <2>2, <2>3, Zenon
<1>19. CASE check = "steal"
  <2>1. ladder = [data |-> Monitoring!Works, steal |-> <<0, 10, 15>>]
    BY <1>19 DEF Monitoring!Ladder
  <2>2. Monitoring!Facts = {"data", "steal"}
    BY <2>1 DEF Monitoring!Facts
  <2>3. /\ Len(ladder["data"]) \in Nat \ {0} /\ Len(ladder["steal"]) \in Nat \ {0}
    BY <2>1, ChecksWorks
  <2> QED
    BY <2>2, <2>3, Zenon
<1>20. CASE check = "routes"
  <2>1. ladder = [default4 |-> Monitoring!Works, default6 |-> Monitoring!Works]
    BY <1>20 DEF Monitoring!Ladder
  <2>2. Monitoring!Facts = {"default4", "default6"}
    BY <2>1 DEF Monitoring!Facts
  <2>3. /\ Len(ladder["default4"]) \in Nat \ {0} /\ Len(ladder["default6"]) \in Nat \ {0}
    BY <2>1, ChecksWorks
  <2> QED
    BY <2>2, <2>3, Zenon
<1> QED
  BY <1>1, <1>2, <1>3, <1>4, <1>5, <1>6, <1>7, <1>8, <1>9, <1>10, <1>11, <1>12, <1>13, <1>14,
     <1>15, <1>16, <1>17, <1>18, <1>19, <1>20
     DEF Monitoring!Deployed

\* A check's exit code is one of Sensu's.
LEMMA ChecksExit ==
  ASSUME NEW c \in Monitoring!Deployed, NEW g, NEW x
  PROVE  Monitoring!Exit(c, g, x) \in 0 .. 3
<1>1. CASE c = "maintenance"
  <2>1. Monitoring!Exit(c, g, x) = Monitoring!check_maintenance(g, x)
    BY <1>1 DEF Monitoring!Exit
  <2> QED
    BY <2>1, ChecksCodes, Zenon DEF Monitoring!check_maintenance
<1>2. CASE c = "manage"
  <2>1. Monitoring!Exit(c, g, x) = Monitoring!check_manage(g, x)
    BY <1>2 DEF Monitoring!Exit
  <2>2. Monitoring!CheckChannel(g, x) \in 0 .. 3
    BY ChecksCodes, Zenon DEF Monitoring!CheckChannel
  <2>3. Monitoring!CheckSpace(g, x) \in 0 .. 3
    BY ChecksCodes, Zenon DEF Monitoring!CheckSpace
  <2>4. PICK e, w : Monitoring!check_manage(g, x)
                      = Monitoring!Worst({Monitoring!exit_code(e, w), Monitoring!CheckChannel(g, x),
                                          Monitoring!CheckSpace(g, x)})
    BY Zenon DEF Monitoring!check_manage
  <2>5. Monitoring!exit_code(e, w) \in 0 .. 3
    BY ChecksCodes, Zenon
  <2> QED
    BY <2>1, <2>2, <2>3, <2>4, <2>5, ChecksWorsts, Zenon
<1>3. CASE c = "slurm"
  <2>1. Monitoring!Exit(c, g, x) = Monitoring!check_slurm(g, x)
    BY <1>3 DEF Monitoring!Exit
  <2>2. \A states : Monitoring!check_controller(x, states) \in 0 .. 3
    BY ChecksCodes, Zenon DEF Monitoring!check_controller
  <2>3. Monitoring!check_node(x) \in 0 .. 3
    BY ChecksCodes, Zenon DEF Monitoring!check_node
  <2>4. \A results \in SUBSET (0 .. 3) :
          (IF results = {} THEN 1 ELSE Monitoring!Worst(results)) \in 0 .. 3
    BY ChecksCodes, Zenon
  <2>5. \A states : (IF g.controller THEN {Monitoring!check_controller(x, states)} ELSE {})
                      \cup (IF g.node THEN {Monitoring!check_node(x)} ELSE {}) \in SUBSET (0 .. 3)
    BY <2>2, <2>3
  <2> QED
    BY <2>1, <2>2, <2>3, <2>4, <2>5, ChecksCodes, Zenon DEF Monitoring!check_slurm
<1>4. CASE c = "unit"
  <2>1. Monitoring!Exit(c, g, x) = Monitoring!check_unit(x)
    BY <1>4 DEF Monitoring!Exit
  <2> QED
    BY <2>1, ChecksCodes, Zenon DEF Monitoring!check_unit
<1>5. CASE c = "units"
  <2>1. Monitoring!Exit(c, g, x) = Monitoring!check_find_failed(g, x)
    BY <1>5 DEF Monitoring!Exit
  <2> QED
    BY <2>1, ChecksCodes, Zenon DEF Monitoring!check_find_failed
<1>6. CASE c = "snapshots"
  <2>1. Monitoring!Exit(c, g, x) = Monitoring!check_snapshot_restore(g, x)
    BY <1>6 DEF Monitoring!Exit
  <2>2. \A codes : Monitoring!highest_status(codes) \in 0 .. 3
    BY ChecksCodes, Zenon DEF Monitoring!highest_status
  <2> QED
    BY <2>1, <2>2, ChecksCodes, Zenon DEF Monitoring!check_snapshot_restore
<1>7. CASE c = "cluster"
  <2>1. Monitoring!Exit(c, g, x) = Monitoring!check_cluster(x)
    BY <1>7 DEF Monitoring!Exit
  <2>2. Monitoring!Health(x) \in 0 .. 3
    BY ChecksCodes, Zenon DEF Monitoring!Health
  <2>3. PICK v, w : Monitoring!CephLog(x)
                      = {Monitoring!Above(v, 1, 200), Monitoring!Above(w, 30, 300)}
    BY Zenon DEF Monitoring!CephLog
  <2>4. PICK e, u : Monitoring!check_cluster(x)
                      = Monitoring!Guarded(x.answers, Monitoring!Worst(
                          {Monitoring!Health(x), Monitoring!exit_code(e, u)}
                            \cup Monitoring!CephLog(x)))
    BY Zenon DEF Monitoring!check_cluster
  <2>5. PICK a \in 0 .. 3, b \in 0 .. 3, d \in 0 .. 3 :
          /\ a = Monitoring!exit_code(e, u)
          /\ b = Monitoring!Above(v, 1, 200) /\ d = Monitoring!Above(w, 30, 300)
    BY ChecksCodes, Zenon
  <2>6. Monitoring!Worst({Monitoring!Health(x), a} \cup {b, d}) \in 0 .. 3
    BY <2>2, ChecksWorsts, Zenon
  <2>7. Monitoring!check_cluster(x) = Monitoring!Guarded(x.answers, Monitoring!Worst(
                                        {Monitoring!Health(x), a} \cup {b, d}))
    BY <2>3, <2>4, <2>5
  <2> QED
    BY <2>1, <2>6, <2>7, ChecksCodes, Zenon
<1>8. CASE c = "luks"
  <2>1. Monitoring!Exit(c, g, x) = Monitoring!check_luks(g, x)
    BY <1>8 DEF Monitoring!Exit
  <2> QED
    BY <2>1, ChecksCodes, Zenon DEF Monitoring!check_luks
<1>9. CASE c = "megaraid"
  <2>1. Monitoring!Exit(c, g, x) = Monitoring!check_megaraid_cache(x)
    BY <1>9 DEF Monitoring!Exit
  <2>2. Monitoring!BatteryReplace(x) \in 0 .. 3
    BY ChecksCodes, Zenon DEF Monitoring!BatteryReplace
  <2>3. Monitoring!Worst({Monitoring!Above(Monitoring!policy_diff(x), 0, 1),
                           Monitoring!BatteryReplace(x)} \cup Monitoring!FailureCount(x)) \in 0 .. 3
    BY <2>2, ChecksCodes, ChecksWorsts, Zenon DEF Monitoring!FailureCount
  <2> QED
    BY <2>1, <2>3, ChecksCodes, Zenon DEF Monitoring!check_megaraid_cache
<1>10. CASE c = "disk"
  <2>1. Monitoring!Exit(c, g, x) = Monitoring!check_disk(g, x)
    BY <1>10 DEF Monitoring!Exit
  <2> QED
    BY <2>1, ChecksCodes, Zenon DEF Monitoring!check_disk
<1>11. CASE c = "interfaces"
  <2>1. Monitoring!Exit(c, g, x) = Monitoring!check_interfaces(g, x)
    BY <1>11 DEF Monitoring!Exit
  <2> QED
    BY <2>1, ChecksCodes, Zenon DEF Monitoring!check_interfaces
<1>12. CASE c = "lvm"
  <2>1. Monitoring!Exit(c, g, x) = Monitoring!check_lvm_integrity(x)
    BY <1>12 DEF Monitoring!Exit
  <2> QED
    BY <2>1, ChecksCodes, Zenon DEF Monitoring!check_lvm_integrity
<1>13. CASE c = "clamav"
  <2>1. Monitoring!Exit(c, g, x) = Monitoring!check_clamav_database(g, x)
    BY <1>13 DEF Monitoring!Exit
  <2>2. PICK e, w : Monitoring!check_clamav_database(g, x)
                      = IF g.files = {} THEN 2 ELSE Monitoring!exit_code(e, w)
    BY Zenon DEF Monitoring!check_clamav_database
  <2> QED
    BY <2>1, <2>2, ChecksCodes, Zenon
<1>14. CASE c = "bgp"
  <2>1. Monitoring!Exit(c, g, x) = Monitoring!check_bgp_sessions(x)
    BY <1>14 DEF Monitoring!Exit
  <2> QED
    BY <2>1, ChecksCodes, Zenon DEF Monitoring!check_bgp_sessions
<1>15. CASE c = "tls"
  <2>1. Monitoring!Exit(c, g, x) = Monitoring!check_certificate(x)
    BY <1>15 DEF Monitoring!Exit
  <2> QED
    BY <2>1, ChecksCodes, Zenon DEF Monitoring!check_certificate
<1>16. CASE c = "mongodb"
  <2>1. Monitoring!Exit(c, g, x) = Monitoring!check_mongodb(g, x)
    BY <1>16 DEF Monitoring!Exit
  <2>2. \A v, w, d : Monitoring!check_levels(v, w, d) \in 0 .. 3
    BY ChecksCodes, Zenon DEF Monitoring!check_levels
  <2>3. Monitoring!check_feature_compat_version(g, x) \in 0 .. 3
    BY ChecksCodes, Zenon DEF Monitoring!check_feature_compat_version
  <2> QED
    BY <2>1, <2>2, <2>3, ChecksCodes, Zenon DEF Monitoring!check_mongodb
<1>17. CASE c = "skvaider"
  <2>1. Monitoring!Exit(c, g, x) = Monitoring!check_skvaider(x)
    BY <1>17 DEF Monitoring!Exit
  <2> QED
    BY <2>1, ChecksCodes, Zenon DEF Monitoring!check_skvaider
<1>18. CASE c = "neighbours"
  <2>1. Monitoring!Exit(c, g, x) = Monitoring!check_neighbours(g, x)
    BY <1>18 DEF Monitoring!Exit
  <2> QED
    BY <2>1, ChecksCodes, Zenon DEF Monitoring!check_neighbours
<1>19. CASE c = "steal"
  <2>1. Monitoring!Exit(c, g, x) = Monitoring!check_cpu_steal(x)
    BY <1>19 DEF Monitoring!Exit
  <2> QED
    BY <2>1, ChecksCodes, Zenon DEF Monitoring!check_cpu_steal
<1>20. CASE c = "routes"
  <2>1. Monitoring!Exit(c, g, x) = Monitoring!check_vrf_default_routes(x)
    BY <1>20 DEF Monitoring!Exit
  <2> QED
    BY <2>1, ChecksCodes, Zenon DEF Monitoring!check_vrf_default_routes
<1> QED
  BY <1>1, <1>2, <1>3, <1>4, <1>5, <1>6, <1>7, <1>8, <1>9, <1>10, <1>11, <1>12, <1>13, <1>14,
     <1>15, <1>16, <1>17, <1>18, <1>19, <1>20
     DEF Monitoring!Deployed

\* The types of a check's facts.
ChecksKinds ==
  /\ check \in Check /\ given \in Monitoring!Given(check)
  /\ level \in [Monitoring!Facts -> Nat]
  /\ \A f \in Monitoring!Facts : level[f] \in 1 .. Len(Monitoring!Ladder(check)[f])

\* They hold in the beginning and after each step, ...
LEMMA ChecksKindsStep ==
  ASSUME CommandsAssumption
  PROVE  /\ Monitoring!Init => ChecksKinds
         /\ ChecksKinds /\ [Monitoring!Next]_(Monitoring!vars) => ChecksKinds'
<1>1. ASSUME Monitoring!Init PROVE ChecksKinds
  <2>1. check \in Monitoring!Deployed
    BY <1>1, CommandsAssumption DEF Monitoring!Init, CommandsAssumption, Monitoring!ChecksAssumption
  <2>2. \A f \in Monitoring!Facts : Len(Monitoring!Ladder(check)[f]) \in Nat \ {0}
    BY <2>1, ChecksLadders
  <2>3. level = [f \in Monitoring!Facts |-> 1]
    BY <1>1 DEF Monitoring!Init
  <2> QED
    BY <1>1, <2>2, <2>3 DEF ChecksKinds, Monitoring!Init
<1>2. ASSUME ChecksKinds, [Monitoring!Next]_(Monitoring!vars) PROVE ChecksKinds'
  <2>1. check \in Monitoring!Deployed
    BY <1>2, CommandsAssumption DEF ChecksKinds, CommandsAssumption, Monitoring!ChecksAssumption
  <2>2. \A g \in Monitoring!Facts : Len(Monitoring!Ladder(check)[g]) \in Nat \ {0}
    BY <2>1, ChecksLadders
  <2>3. CASE Monitoring!Worsen
    <3>1. PICK f \in Monitoring!Facts : /\ level[f] < Len(Monitoring!Ladder(check)[f])
                                        /\ level' = [level EXCEPT ![f] = @ + 1]
      BY <2>3 DEF Monitoring!Worsen
    <3>2. check' = check /\ given' = given
      BY <2>3 DEF Monitoring!Worsen
    <3>3. Monitoring!Facts' = Monitoring!Facts
      BY <3>2 DEF Monitoring!Facts
    <3>4. Monitoring!Ladder(check)' = Monitoring!Ladder(check)
      BY <3>2
    <3>5. level' \in [Monitoring!Facts -> Nat]
      BY <1>2, <3>1 DEF ChecksKinds
    <3>6. \A g \in Monitoring!Facts : level'[g] \in 1 .. Len(Monitoring!Ladder(check)[g])
      BY <1>2, <3>1, <2>2 DEF ChecksKinds
    <3> QED
      BY <1>2, <3>2, <3>3, <3>4, <3>5, <3>6 DEF ChecksKinds
  <2>4. CASE Monitoring!Ask
    <3>1. check' = check
      BY <2>4 DEF Monitoring!Ask
    <3>2. Monitoring!Facts' = Monitoring!Facts /\ Monitoring!Ladder(check)' = Monitoring!Ladder(check)
      BY <3>1 DEF Monitoring!Facts
    <3>3. level' = [f \in Monitoring!Facts |-> IF f \in Monitoring!News THEN 1 ELSE level[f]]
      BY <2>4 DEF Monitoring!Ask
    <3>4. level' \in [Monitoring!Facts -> Nat]
      BY <1>2, <3>3 DEF ChecksKinds
    <3>5. \A g \in Monitoring!Facts : level'[g] \in 1 .. Len(Monitoring!Ladder(check)[g])
      BY <1>2, <2>2, <3>3 DEF ChecksKinds
    <3>6. given' \in Monitoring!Given(check)
      <4>1. CASE check = "neighbours"
        <5>1. Monitoring!Given(check) = [state : BOOLEAN]
          BY <4>1 DEF Monitoring!Given, Monitoring!Yes
        <5>2. given \in [state : BOOLEAN] /\ given' = [given EXCEPT !.state = TRUE]
          BY <1>2, <2>4, <4>1, <5>1 DEF Monitoring!Ask, ChecksKinds
        <5> QED
          BY <5>1, <5>2
      <4>2. CASE check # "neighbours"
        BY <1>2, <2>4, <4>2 DEF Monitoring!Ask, ChecksKinds
      <4> QED
        BY <4>1, <4>2
    <3> QED
      BY <1>2, <3>1, <3>2, <3>4, <3>5, <3>6 DEF ChecksKinds
  <2>5. CASE Monitoring!Reconfigure
    BY <1>2, <2>5 DEF Monitoring!Reconfigure, ChecksKinds, Monitoring!Facts
  <2>6. CASE UNCHANGED Monitoring!vars
    BY <1>2, <2>6 DEF Monitoring!vars, ChecksKinds, Monitoring!Facts
  <2> QED
    BY <1>2, <2>3, <2>4, <2>5, <2>6 DEF Monitoring!Next
<1> QED
  BY <1>1, <1>2

\* ... and a check always has an exit code.
LEMMA ChecksTyped ==
  ASSUME CommandsAssumption, ChecksKinds
  PROVE  Monitoring!TypeOK
<1>1. check \in Monitoring!Deployed
  BY CommandsAssumption DEF ChecksKinds, CommandsAssumption, Monitoring!ChecksAssumption
<1>2. Monitoring!Exit(check, given, Monitoring!Found) \in 0 .. 3
  BY <1>1, ChecksExit, Zenon
<1>3. DOMAIN level = Monitoring!Facts
  BY DEF ChecksKinds
<1> QED
  BY <1>2, <1>3, Zenon DEF ChecksKinds, Monitoring!TypeOK

---------------------------------------------------------------------------
(***************************************************************************)
(* What the checks say when facts get worse: two findings of the same      *)
(* facts are compared, of which the second is no better. Each check but    *)
(* fc-maintenance's gives the second no lower code, and says something of  *)
(* the first when a fact that it watches is as bad as it gets.             *)
(***************************************************************************)

\* Two findings of a check's facts, of which the second is no better than the first.
ChecksClimb(ladder, l, m, x, y) ==
  /\ x = [f \in DOMAIN ladder |-> ladder[f][l[f]]]
  /\ y = [f \in DOMAIN ladder |-> ladder[f][m[f]]]
  /\ \A f \in DOMAIN ladder :
       l[f] \in 1 .. Len(ladder[f]) /\ m[f] \in 1 .. Len(ladder[f]) /\ l[f] <= m[f]

\* A fact is as bad as it gets.
ChecksBad(ladder, l, f) == l[f] = Len(ladder[f])

\* Where they are on a ladder of two, three and four.
ChecksOnTwo(ladder, l, x, y, f) ==
  /\ \/ x[f] = ladder[f][1] /\ y[f] \in {ladder[f][1], ladder[f][2]}
     \/ x[f] = ladder[f][2] /\ y[f] = ladder[f][2]
  /\ ChecksBad(ladder, l, f) => x[f] = ladder[f][2]
ChecksOnThree(ladder, l, x, y, f) ==
  /\ \/ x[f] = ladder[f][1] /\ y[f] \in {ladder[f][1], ladder[f][2], ladder[f][3]}
     \/ x[f] = ladder[f][2] /\ y[f] \in {ladder[f][2], ladder[f][3]}
     \/ x[f] = ladder[f][3] /\ y[f] = ladder[f][3]
  /\ ChecksBad(ladder, l, f) => x[f] = ladder[f][3]
ChecksOnFour(ladder, l, x, y, f) ==
  /\ \/ x[f] = ladder[f][1] /\ y[f] \in {ladder[f][1], ladder[f][2], ladder[f][3], ladder[f][4]}
     \/ x[f] = ladder[f][2] /\ y[f] \in {ladder[f][2], ladder[f][3], ladder[f][4]}
     \/ x[f] = ladder[f][3] /\ y[f] \in {ladder[f][3], ladder[f][4]}
     \/ x[f] = ladder[f][4] /\ y[f] = ladder[f][4]
  /\ ChecksBad(ladder, l, f) => x[f] = ladder[f][4]

\* On such a ladder, ...
LEMMA ChecksTwo ==
  ASSUME NEW ladder, NEW l, NEW m, NEW x, NEW y, ChecksClimb(ladder, l, m, x, y),
         NEW f, f \in DOMAIN ladder, Len(ladder[f]) = 2
  PROVE  ChecksOnTwo(ladder, l, x, y, f)
<1>1. PICK i, j : i = l[f] /\ j = m[f]
  OBVIOUS
<1>2. /\ i \in 1 .. 2 /\ j \in 1 .. 2 /\ i <= j
      /\ x[f] = ladder[f][i] /\ y[f] = ladder[f][j]
  BY <1>1 DEF ChecksClimb
<1>3. \/ i = 1 /\ j \in {1, 2}
      \/ i = 2 /\ j \in {2}
  BY <1>2
<1> QED
  BY <1>1, <1>2, <1>3 DEF ChecksOnTwo, ChecksBad

\* ... on one of three ...
LEMMA ChecksThree ==
  ASSUME NEW ladder, NEW l, NEW m, NEW x, NEW y, ChecksClimb(ladder, l, m, x, y),
         NEW f, f \in DOMAIN ladder, Len(ladder[f]) = 3
  PROVE  ChecksOnThree(ladder, l, x, y, f)
<1>1. PICK i, j : i = l[f] /\ j = m[f]
  OBVIOUS
<1>2. /\ i \in 1 .. 3 /\ j \in 1 .. 3 /\ i <= j
      /\ x[f] = ladder[f][i] /\ y[f] = ladder[f][j]
  BY <1>1 DEF ChecksClimb
<1>3. \/ i = 1 /\ j \in {1, 2, 3}
      \/ i = 2 /\ j \in {2, 3}
      \/ i = 3 /\ j \in {3}
  BY <1>2
<1> QED
  BY <1>1, <1>2, <1>3 DEF ChecksOnThree, ChecksBad

\* ... and on one of four.
LEMMA ChecksFour ==
  ASSUME NEW ladder, NEW l, NEW m, NEW x, NEW y, ChecksClimb(ladder, l, m, x, y),
         NEW f, f \in DOMAIN ladder, Len(ladder[f]) = 4
  PROVE  ChecksOnFour(ladder, l, x, y, f)
<1>1. PICK i, j : i = l[f] /\ j = m[f]
  OBVIOUS
<1>2. /\ i \in 1 .. 4 /\ j \in 1 .. 4 /\ i <= j
      /\ x[f] = ladder[f][i] /\ y[f] = ladder[f][j]
  BY <1>1 DEF ChecksClimb
<1>3. \/ i = 1 /\ j \in {1, 2, 3, 4}
      \/ i = 2 /\ j \in {2, 3, 4}
      \/ i = 3 /\ j \in {3, 4}
      \/ i = 4 /\ j \in {4}
  BY <1>2
<1> QED
  BY <1>1, <1>2, <1>3 DEF ChecksOnFour, ChecksBad

\* More errors and warnings never lower an exit code, ...
LEMMA ChecksMore ==
  ASSUME NEW e1, NEW w1, NEW e2, NEW w2, e1 => e2, w1 => e2 \/ w2
  PROVE  Monitoring!exit_code(e1, w1) <= Monitoring!exit_code(e2, w2)
BY DEF Monitoring!exit_code

\* ... nor do more errors where nothing is worth a warning, ...
LEMMA ChecksCritical ==
  ASSUME NEW e, NEW d, e => d
  PROVE  /\ Monitoring!exit_code(e, FALSE) <= Monitoring!exit_code(d, FALSE)
         /\ Monitoring!exit_code(e, FALSE) = 0 => ~e
BY DEF Monitoring!exit_code

\* ... nor does a higher value, ...
LEMMA ChecksHigher ==
  ASSUME NEW v \in Int, NEW w \in Int, v <= w, NEW warning \in Int, NEW critical \in Int
  PROVE  Monitoring!Above(v, warning, critical) <= Monitoring!Above(w, warning, critical)
BY DEF Monitoring!Above, Monitoring!exit_code

\* ... a command that fails, ...
LEMMA ChecksGuarded ==
  ASSUME NEW p, NEW q, q => p, NEW a \in 0 .. 3, NEW b \in 0 .. 3, a <= b
  PROVE  Monitoring!Guarded(p, a) <= Monitoring!Guarded(q, b)
BY DEF Monitoring!Guarded

\* ... or higher results of which it is the highest.
LEMMA ChecksHighest ==
  ASSUME NEW S \in SUBSET (0 .. 3), S # {}, NEW T \in SUBSET (0 .. 3), T # {},
         \A a \in S : \E b \in T : a <= b
  PROVE  Monitoring!Worst(S) <= Monitoring!Worst(T)
<1> PICK v \in 0 .. 3, w \in 0 .. 3 : v = Monitoring!Worst(S) /\ w = Monitoring!Worst(T)
  BY ChecksWorst
<1>1. v \in S /\ \A b \in T : b <= w
  BY ChecksWorst
<1> QED
  BY <1>1

\* Nothing is wrong when the code is 0.
LEMMA ChecksOK ==
  /\ \A e, w : Monitoring!exit_code(e, w) = 0 => ~e /\ ~w
  /\ \A p, a : Monitoring!Guarded(p, a) = 0 => p /\ a = 0
  /\ \A S \in SUBSET (0 .. 3) : S # {} /\ Monitoring!Worst(S) = 0 => \A a \in S : a = 0
<1>1. \A e, w : Monitoring!exit_code(e, w) = 0 => ~e /\ ~w
  BY DEF Monitoring!exit_code
<1>2. \A p, a : Monitoring!Guarded(p, a) = 0 => p /\ a = 0
  BY DEF Monitoring!Guarded
<1>3. ASSUME NEW S \in SUBSET (0 .. 3), S # {}, Monitoring!Worst(S) = 0, NEW a \in S
      PROVE  a = 0
  BY <1>3, ChecksWorst
<1> QED
  BY <1>1, <1>2, <1>3

\* What works or not, and what appears.
LEMMA ChecksFlags ==
  ASSUME NEW ladder, NEW l, NEW m, NEW x, NEW y, ChecksClimb(ladder, l, m, x, y),
         NEW f, f \in DOMAIN ladder
  PROVE  /\ ladder[f] = Monitoring!Works => (y[f] => x[f]) /\ (ChecksBad(ladder, l, f) => ~x[f])
         /\ ladder[f] = Monitoring!Appears => (x[f] => y[f]) /\ (ChecksBad(ladder, l, f) => x[f])
<1>1. ASSUME ladder[f] = Monitoring!Works
      PROVE  (y[f] => x[f]) /\ (ChecksBad(ladder, l, f) => ~x[f])
  <2>1. Len(ladder[f]) = 2 /\ ladder[f][1] = TRUE /\ ladder[f][2] = FALSE
    BY <1>1 DEF Monitoring!Works
  <2>2. PICK a, b : a = ladder[f][1] /\ b = ladder[f][2]
    OBVIOUS
  <2>3. /\ (x[f] = a /\ y[f] = a) \/ (x[f] = a /\ y[f] = b) \/ (x[f] = b /\ y[f] = b)
        /\ ChecksBad(ladder, l, f) => x[f] = b
    <3>1. Len(ladder[f]) = 2
      BY <2>1
    <3> QED
      BY <3>1, <2>2, ChecksTwo DEF ChecksOnTwo
  <2> QED
    BY <2>1, <2>2, <2>3, Zenon
<1>2. ASSUME ladder[f] = Monitoring!Appears
      PROVE  (x[f] => y[f]) /\ (ChecksBad(ladder, l, f) => x[f])
  <2>1. Len(ladder[f]) = 2 /\ ladder[f][1] = FALSE /\ ladder[f][2] = TRUE
    BY <1>2 DEF Monitoring!Appears
  <2>2. PICK a, b : a = ladder[f][1] /\ b = ladder[f][2]
    OBVIOUS
  <2>3. /\ (x[f] = a /\ y[f] = a) \/ (x[f] = a /\ y[f] = b) \/ (x[f] = b /\ y[f] = b)
        /\ ChecksBad(ladder, l, f) => x[f] = b
    <3>1. Len(ladder[f]) = 2
      BY <2>1
    <3> QED
      BY <3>1, <2>2, ChecksTwo DEF ChecksOnTwo
  <2> QED
    BY <2>1, <2>2, <2>3, Zenon
<1> QED
  BY <1>1, <1>2, Zenon

\* Four results, and four that are no lower.
ChecksBelow(a, b, c, d, p, q, r, s) ==
  /\ a \in 0 .. 3 /\ b \in 0 .. 3 /\ c \in 0 .. 3 /\ d \in 0 .. 3
  /\ p \in 0 .. 3 /\ q \in 0 .. 3 /\ r \in 0 .. 3 /\ s \in 0 .. 3
  /\ a <= p /\ b <= q /\ c <= r /\ d <= s

\* The highest of these is no lower either, and is 0 when they all are.
LEMMA ChecksFold ==
  ASSUME NEW a, NEW b, NEW c, NEW d, NEW p, NEW q, NEW r, NEW s,
         ChecksBelow(a, b, c, d, p, q, r, s)
  PROVE  \E v \in 0 .. 3, w \in 0 .. 3 :
           /\ v = Monitoring!Worst({a, b} \cup {c, d}) /\ w = Monitoring!Worst({p, q} \cup {r, s})
           /\ v <= w /\ (v = 0 => a = 0 /\ b = 0 /\ c = 0 /\ d = 0)
<1> USE DEF ChecksBelow
<1>1. Monitoring!Worst({a, b} \cup {c, d}) <= Monitoring!Worst({p, q} \cup {r, s})
  BY ChecksHighest
<1>2. Monitoring!Worst({a, b} \cup {c, d}) = 0 => a = 0 /\ b = 0 /\ c = 0 /\ d = 0
  BY ChecksOK
<1>3. /\ Monitoring!Worst({a, b} \cup {c, d}) \in 0 .. 3
      /\ Monitoring!Worst({p, q} \cup {r, s}) \in 0 .. 3
  BY ChecksWorsts
<1> QED
  BY <1>1, <1>2, <1>3

\* The higher of two values.
LEMMA ChecksMax ==
  ASSUME NEW a \in Int, NEW b \in Int
  PROVE  Monitoring!Max({a, b}) = IF a >= b THEN a ELSE b
<1> DEFINE m == CHOOSE x \in {a, b} : \A y \in {a, b} : x >= y
<1>1. \E x \in {a, b} : \A y \in {a, b} : x >= y
  OBVIOUS
<1>2. m \in {a, b} /\ \A y \in {a, b} : m >= y
  BY <1>1
<1> HIDE DEF m
<1>3. Monitoring!Max({a, b}) = m
  BY Zenon DEF Monitoring!Max, m
<1> QED
  BY <1>2, <1>3

\* What the checks promise of two such findings.
ChecksPromise(ladder, l, x, y) ==
  /\ Monitoring!Exit(check, given, x) <= Monitoring!Exit(check, given, y)
  /\ \A f \in DOMAIN ladder : Monitoring!Watched(f) /\ ChecksBad(ladder, l, f) =>
       Monitoring!Exit(check, given, x) # 0

\* What check_manage says of the system that is configured.
ChecksSystem(z) ==
  Monitoring!exit_code(~z.production \/ ~z.url,
    \/ given.initial \/ ~z.version \/ z.state_version # "valid" \/ z.eval_warnings
    \/ (z.production /\ given.production /\ z.url /\ given.local))

\* fc-manage check: the system, its channel and the free space are worse together or apart.
LEMMA ChecksManage ==
  ASSUME check = "manage", given \in Monitoring!Given(check), NEW ladder,
         ladder = Monitoring!Ladder(check),
         NEW l, NEW m, NEW x, NEW y, ChecksClimb(ladder, l, m, x, y)
  PROVE  ChecksPromise(ladder, l, x, y)
<1>1. ladder = [production |-> Monitoring!Works, url |-> Monitoring!Works,
                version |-> Monitoring!Works, state_version |-> <<"valid", "invalid">>,
                eval_warnings |-> Monitoring!Appears,
                channel |-> <<"build", "no_build", "none">>, free |-> <<25, 15, 14>>]
  BY DEF Monitoring!Ladder
<1>2. DOMAIN ladder = {"production", "url", "version", "state_version", "eval_warnings",
                       "channel", "free"}
  BY <1>1
<1>3. /\ Len(ladder["production"]) = 2 /\ Len(ladder["url"]) = 2 /\ Len(ladder["version"]) = 2
      /\ Len(ladder["state_version"]) = 2 /\ Len(ladder["eval_warnings"]) = 2
      /\ Len(ladder["channel"]) = 3
      /\ Len(ladder["free"]) = 3
  BY <1>1 DEF Monitoring!Works, Monitoring!Appears
<1>4. /\ y.production => x.production
      /\ ChecksBad(ladder, l, "production") => ~x.production
  BY <1>1, ChecksFlags
<1>5. /\ y.url => x.url
      /\ ChecksBad(ladder, l, "url") => ~x.url
  BY <1>1, ChecksFlags
<1>6. /\ y.version => x.version
      /\ ChecksBad(ladder, l, "version") => ~x.version
  BY <1>1, ChecksFlags
<1>7. /\ x.state_version # "valid" => y.state_version # "valid"
      /\ ChecksBad(ladder, l, "state_version") => x.state_version # "valid"
  <2>1. /\ ladder["state_version"][1] = "valid" /\ ladder["state_version"][2] = "invalid"
    BY <1>1
  <2>2. ChecksOnTwo(ladder, l, x, y, "state_version")
    BY <1>2, <1>3, ChecksTwo, Zenon
  <2> QED
    BY <2>1, <2>2 DEF ChecksOnTwo
<1>8. /\ x.eval_warnings => y.eval_warnings
      /\ ChecksBad(ladder, l, "eval_warnings") => x.eval_warnings
  BY <1>1, ChecksFlags
<1>9. /\ \/ x.channel = "build" /\ y.channel \in {"build", "no_build", "none"}
         \/ x.channel = "no_build" /\ y.channel \in {"no_build", "none"}
         \/ x.channel = "none" /\ y.channel \in {"none"}
      /\ ChecksBad(ladder, l, "channel") => x.channel = "none"
  <2>1. /\ ladder["channel"][1] = "build" /\ ladder["channel"][2] = "no_build"
        /\ ladder["channel"][3] = "none"
    BY <1>1
  <2>2. ChecksOnThree(ladder, l, x, y, "channel")
    BY <1>2, <1>3, ChecksThree, Zenon
  <2> QED
    BY <2>1, <2>2 DEF ChecksOnThree
<1>10. /\ x.free \in Int /\ y.free \in Int /\ y.free <= x.free
       /\ ChecksBad(ladder, l, "free") => x.free = 14
  <2>1. /\ ladder["free"][1] = 25 /\ ladder["free"][2] = 15 /\ ladder["free"][3] = 14
    BY <1>1
  <2>2. ChecksOnThree(ladder, l, x, y, "free")
    BY <1>2, <1>3, ChecksThree, Zenon
  <2>3. /\ \/ x.free = 25 /\ y.free \in {25, 15, 14}
           \/ x.free = 15 /\ y.free \in {15, 14}
           \/ x.free = 14 /\ y.free \in {14}
        /\ ChecksBad(ladder, l, "free") => x.free = 14
    BY <2>1, <2>2 DEF ChecksOnThree
  <2> QED
    BY <2>3
<1>11. /\ Monitoring!Exit(check, given, x) = Monitoring!check_manage(given, x)
       /\ Monitoring!Exit(check, given, y) = Monitoring!check_manage(given, y)
  BY DEF Monitoring!Exit
<1>12. Monitoring!Watched("free") => given.sized
  BY DEF Monitoring!Watched
<1>13. given.size = 10
  BY DEF Monitoring!Given
<1>14. /\ ChecksSystem(x) \in 0 .. 3 /\ ChecksSystem(y) \in 0 .. 3
       /\ ChecksSystem(x) <= ChecksSystem(y)
       /\ ChecksBad(ladder, l, "production") \/ ChecksBad(ladder, l, "url") \/ ChecksBad(ladder, l,
                "version")
            => ChecksSystem(x) # 0
       /\ ChecksBad(ladder, l, "state_version") \/ ChecksBad(ladder, l, "eval_warnings")
            => ChecksSystem(x) # 0
  BY <1>4, <1>5, <1>6, <1>7, <1>8 DEF ChecksSystem, Monitoring!exit_code
<1>15. /\ Monitoring!CheckChannel(given, x) \in 0 .. 3
       /\ Monitoring!CheckChannel(given, y) \in 0 .. 3
       /\ Monitoring!CheckChannel(given, x) <= Monitoring!CheckChannel(given, y)
       /\ ChecksBad(ladder, l, "channel") => Monitoring!CheckChannel(given, x) # 0
  BY <1>5, <1>9 DEF Monitoring!CheckChannel
<1>16. /\ Monitoring!CheckSpace(given, x) \in 0 .. 3 /\ Monitoring!CheckSpace(given, y) \in 0 .. 3
       /\ Monitoring!CheckSpace(given, x) <= Monitoring!CheckSpace(given, y)
       /\ ChecksBad(ladder, l, "free") => Monitoring!CheckSpace(given, x) # 0
  BY <1>13, <1>10 DEF Monitoring!CheckSpace, Monitoring!exit_code
<1>17. ChecksBelow(ChecksSystem(x), Monitoring!CheckChannel(given, x),
                  Monitoring!CheckSpace(given, x), Monitoring!CheckSpace(given, x),
                  ChecksSystem(y), Monitoring!CheckChannel(given, y),
                  Monitoring!CheckSpace(given, y), Monitoring!CheckSpace(given, y))
  BY <1>14, <1>15, <1>16 DEF ChecksBelow
<1>18. PICK v \in 0 .. 3, w \in 0 .. 3 :
        /\ v = Monitoring!Worst({ChecksSystem(x), Monitoring!CheckChannel(given, x)}
                  \cup {Monitoring!CheckSpace(given, x), Monitoring!CheckSpace(given, x)})
        /\ w = Monitoring!Worst({ChecksSystem(y), Monitoring!CheckChannel(given, y)}
                  \cup {Monitoring!CheckSpace(given, y), Monitoring!CheckSpace(given, y)})
        /\ v <= w
        /\ v = 0 => /\ ChecksSystem(x) = 0 /\ Monitoring!CheckChannel(given, x) = 0
                    /\ Monitoring!CheckSpace(given, x) = 0
  BY <1>17, ChecksFold
<1>19. Monitoring!check_manage(given, x) = v /\ Monitoring!check_manage(given, y) = w
  <2>1. \A a, b, c : {a, b, c} = {a, b} \cup {c, c}
    OBVIOUS
  <2>2. \A z : Monitoring!check_manage(given, z) =
           Monitoring!Worst({ChecksSystem(z), Monitoring!CheckChannel(given, z),
                    Monitoring!CheckSpace(given, z)})
    BY Zenon DEF Monitoring!check_manage, ChecksSystem
  <2> QED
    BY <2>1, <2>2, <1>18
<1>20. Monitoring!check_manage(given, x) <= Monitoring!check_manage(given, y)
  BY <1>19, <1>18
<1>21. Monitoring!check_manage(given, x) = 0 =>
        /\ ~ChecksBad(ladder, l, "production") /\ ~ChecksBad(ladder, l, "url")
        /\ ~ChecksBad(ladder, l, "version") /\ ~ChecksBad(ladder, l, "state_version")
        /\ ~ChecksBad(ladder, l, "eval_warnings") /\ ~ChecksBad(ladder, l, "channel")
        /\ (given.sized => ~ChecksBad(ladder, l, "free"))
  BY <1>19, <1>18, <1>14, <1>15, <1>16
<1> QED
  BY <1>2, <1>11, <1>20, <1>21, <1>12, Zenon DEF ChecksPromise

\* The states of the nodes that the controller is asked for, and what they say.
ChecksStates(z) == (IF given.node THEN {z.own} ELSE {})
         \cup (IF given.others THEN {z.other} ELSE {})
ChecksIn(z) == (given.node /\ z.own = "IDLE") \/ (given.others /\ z.other = "IDLE")
ChecksOut(z) == (given.node /\ z.own # "IDLE") \/ (given.others /\ z.other # "IDLE")

\* The results of one of its checks, or of both.
ChecksResults(a, b) == (IF given.controller THEN {a} ELSE {}) \cup (IF given.node THEN {b} ELSE {})

\* fc-slurm check: one result of the controller's nodes and one of the own node.
LEMMA ChecksSlurm ==
  ASSUME check = "slurm", given \in Monitoring!Given(check), NEW ladder,
         ladder = Monitoring!Ladder(check),
         NEW l, NEW m, NEW x, NEW y, ChecksClimb(ladder, l, m, x, y)
  PROVE  ChecksPromise(ladder, l, x, y)
<1>1. ladder = [controllers |-> Monitoring!Works, primary |-> Monitoring!Works,
                slurmd |-> Monitoring!Works, munged |-> Monitoring!Works,
                info |-> Monitoring!Works, own |-> Monitoring!NodeStates,
                other |-> Monitoring!NodeStates \o <<"DOWN*">>]
  BY DEF Monitoring!Ladder
<1>2. DOMAIN ladder = {"controllers", "primary", "slurmd", "munged", "info", "own", "other"}
  BY <1>1
<1>3. /\ Len(ladder["controllers"]) = 2 /\ Len(ladder["primary"]) = 2 /\ Len(ladder["slurmd"]) = 2
      /\ Len(ladder["munged"]) = 2 /\ Len(ladder["info"]) = 2 /\ Len(ladder["own"]) = 3
      /\ Len(ladder["other"]) = 4
  BY <1>1 DEF Monitoring!Works, Monitoring!NodeStates
<1>4. /\ y.controllers => x.controllers
      /\ ChecksBad(ladder, l, "controllers") => ~x.controllers
  BY <1>1, ChecksFlags
<1>5. /\ y.primary => x.primary
      /\ ChecksBad(ladder, l, "primary") => ~x.primary
  BY <1>1, ChecksFlags
<1>6. /\ y.slurmd => x.slurmd
      /\ ChecksBad(ladder, l, "slurmd") => ~x.slurmd
  BY <1>1, ChecksFlags
<1>7. /\ y.munged => x.munged
      /\ ChecksBad(ladder, l, "munged") => ~x.munged
  BY <1>1, ChecksFlags
<1>8. /\ y.info => x.info
      /\ ChecksBad(ladder, l, "info") => ~x.info
  BY <1>1, ChecksFlags
<1>9. /\ \/ x.own = "IDLE" /\ y.own \in {"IDLE", "IDLE+DRAIN", "DOWN"}
         \/ x.own = "IDLE+DRAIN" /\ y.own \in {"IDLE+DRAIN", "DOWN"}
         \/ x.own = "DOWN" /\ y.own \in {"DOWN"}
      /\ ChecksBad(ladder, l, "own") => x.own = "DOWN"
  <2>1. /\ ladder["own"][1] = "IDLE" /\ ladder["own"][2] = "IDLE+DRAIN" /\ ladder["own"][3] = "DOWN"
    BY <1>1 DEF Monitoring!NodeStates
  <2>2. ChecksOnThree(ladder, l, x, y, "own")
    BY <1>2, <1>3, ChecksThree, Zenon
  <2> QED
    BY <2>1, <2>2 DEF ChecksOnThree
<1>10. /\ \/ x.other = "IDLE" /\ y.other \in {"IDLE", "IDLE+DRAIN", "DOWN", "DOWN*"}
          \/ x.other = "IDLE+DRAIN" /\ y.other \in {"IDLE+DRAIN", "DOWN", "DOWN*"}
          \/ x.other = "DOWN" /\ y.other \in {"DOWN", "DOWN*"}
          \/ x.other = "DOWN*" /\ y.other \in {"DOWN*"}
       /\ ChecksBad(ladder, l, "other") => x.other = "DOWN*"
  <2>1. /\ ladder["other"][1] = "IDLE" /\ ladder["other"][2] = "IDLE+DRAIN"
        /\ ladder["other"][3] = "DOWN"
        /\ ladder["other"][4] = "DOWN*"
    BY <1>1 DEF Monitoring!NodeStates
  <2>2. ChecksOnFour(ladder, l, x, y, "other")
    BY <1>2, <1>3, ChecksFour, Zenon
  <2> QED
    BY <2>1, <2>2 DEF ChecksOnFour
<1>11. /\ Monitoring!Exit(check, given, x) = Monitoring!check_slurm(given, x)
       /\ Monitoring!Exit(check, given, y) = Monitoring!check_slurm(given, y)
  BY DEF Monitoring!Exit
<1>12. /\ Monitoring!Watched("primary") => given.controller
       /\ Monitoring!Watched("own") => given.node
       /\ Monitoring!Watched("other") => given.controller /\ given.others
       /\ Monitoring!Watched("slurmd") => given.node
       /\ Monitoring!Watched("munged") => given.node
       /\ Monitoring!Watched("info") => given.node
  BY DEF Monitoring!Watched
<1>13. /\ Monitoring!check_node(x) \in 0 .. 2 /\ Monitoring!check_node(y) \in 0 .. 2
       /\ Monitoring!check_node(x) <= Monitoring!check_node(y)
       /\ ChecksBad(ladder, l, "slurmd") \/ ChecksBad(ladder, l, "munged")
            => Monitoring!check_node(x) # 0
       /\ ChecksBad(ladder, l, "info") \/ ChecksBad(ladder, l, "own")
            => Monitoring!check_node(x) # 0
  BY <1>6, <1>7, <1>8, <1>9 DEF Monitoring!check_node, Monitoring!exit_code
<1>14. /\ ChecksIn(y) => ChecksIn(x)
       /\ ChecksOut(x) => ChecksOut(y)
       /\ given.others => (ChecksBad(ladder, l, "other") => ChecksOut(x))
  BY <1>9, <1>10 DEF ChecksIn, ChecksOut
<1>15. ASSUME NEW z, z.own \in {"IDLE", "IDLE+DRAIN", "DOWN"},
             z.other \in {"IDLE", "IDLE+DRAIN", "DOWN", "DOWN*"}
      PROVE  Monitoring!check_controller(z, ChecksStates(z)) =
               IF (~given.node /\ ~given.others) \/ ~z.primary \/ ~ChecksIn(z) THEN 2
               ELSE IF ChecksOut(z) THEN 1 ELSE 0
  BY <1>15 DEF Monitoring!check_controller, Monitoring!exit_code, Monitoring!NodesOut,
     Monitoring!NodesOffline, ChecksStates, ChecksIn, ChecksOut
<1>16. /\ Monitoring!check_controller(x, ChecksStates(x)) \in 0 .. 2
       /\ Monitoring!check_controller(y, ChecksStates(y)) \in 0 .. 2
       /\ Monitoring!check_controller(x, ChecksStates(x))
                <= Monitoring!check_controller(y, ChecksStates(y))
       /\ ChecksBad(ladder, l, "primary") => Monitoring!check_controller(x, ChecksStates(x)) # 0
       /\ given.others
            =>
                (ChecksBad(ladder, l, "other") => Monitoring!check_controller(x,
                         ChecksStates(x)) # 0)
  BY <1>5, <1>9, <1>10, <1>14, <1>15
<1>17. PICK a \in 0 .. 2, b \in 0 .. 2, p \in 0 .. 2, q \in 0 .. 2 :
        /\ a = Monitoring!check_controller(x, ChecksStates(x)) /\ b = Monitoring!check_node(x)
        /\ p = Monitoring!check_controller(y, ChecksStates(y)) /\ q = Monitoring!check_node(y)
        /\ a <= p /\ b <= q
  BY <1>13, <1>16
<1>18. /\ Monitoring!check_slurm(given, x) =
            IF ~x.controllers THEN 2
            ELSE IF ChecksResults(a, b) = {} THEN 1 ELSE Monitoring!Worst(ChecksResults(a, b))
       /\ Monitoring!check_slurm(given, y) =
            IF ~y.controllers THEN 2
            ELSE IF ChecksResults(p, q) = {} THEN 1 ELSE Monitoring!Worst(ChecksResults(p, q))
  BY <1>17, Zenon DEF Monitoring!check_slurm, ChecksStates, ChecksResults
<1>19. /\ ChecksResults(a, b) = {} <=> ChecksResults(p, q) = {}
       /\ ChecksResults(a, b) # {} =>
            /\ Monitoring!Worst(ChecksResults(a, b)) \in 0 .. 2
            /\ Monitoring!Worst(ChecksResults(a, b)) <= Monitoring!Worst(ChecksResults(p, q))
            /\ Monitoring!Worst(ChecksResults(a, b)) = 0 => \A c \in ChecksResults(a, b) : c = 0
  <2>1. /\ ChecksResults(a, b) \in SUBSET (0 .. 3) /\ ChecksResults(p, q) \in SUBSET (0 .. 3)
        /\ ChecksResults(a, b) = {} <=> ChecksResults(p, q) = {}
        /\ ChecksResults(a, b) \subseteq 0 .. 2
        /\ \A c \in ChecksResults(a, b) : \E d \in ChecksResults(p, q) : c <= d
    BY <1>17 DEF ChecksResults
  <2> QED
    BY <2>1, ChecksHighest, ChecksOK, ChecksWorst
<1>20. Monitoring!check_slurm(given, x) <= Monitoring!check_slurm(given, y)
  BY <1>4, <1>18, <1>19
<1>21. Monitoring!check_slurm(given, x) = 0 =>
        /\ ~ChecksBad(ladder, l, "controllers")
        /\ (given.controller => ~ChecksBad(ladder, l, "primary"))
        /\ (given.node => ~ChecksBad(ladder, l, "slurmd"))
        /\ (given.node => ~ChecksBad(ladder, l, "munged"))
        /\ (given.node => ~ChecksBad(ladder, l, "info"))
        /\ (given.node => ~ChecksBad(ladder, l, "own"))
        /\ (given.controller /\ given.others => ~ChecksBad(ladder, l, "other"))
  BY <1>4, <1>18, <1>19, <1>17, <1>13, <1>16 DEF ChecksResults
<1> QED
  BY <1>2, <1>11, <1>20, <1>21, <1>12, Zenon DEF ChecksPromise

\* check-unit: D-Bus, the unit and its state.
LEMMA ChecksUnit ==
  ASSUME check = "unit", NEW ladder, ladder = Monitoring!Ladder(check),
         NEW l, NEW m, NEW x, NEW y, ChecksClimb(ladder, l, m, x, y)
  PROVE  ChecksPromise(ladder, l, x, y)
<1>1. ladder = [dbus |-> Monitoring!Works, loaded |-> Monitoring!Works,
                state |-> <<"active", "inactive", "failed">>]
  BY DEF Monitoring!Ladder
<1>2. DOMAIN ladder = {"dbus", "loaded", "state"}
  BY <1>1
<1>3. /\ Len(ladder["dbus"]) = 2 /\ Len(ladder["loaded"]) = 2 /\ Len(ladder["state"]) = 3
  BY <1>1 DEF Monitoring!Works
<1>4. /\ y.dbus => x.dbus
      /\ ChecksBad(ladder, l, "dbus") => ~x.dbus
  BY <1>1, ChecksFlags
<1>5. /\ y.loaded => x.loaded
      /\ ChecksBad(ladder, l, "loaded") => ~x.loaded
  BY <1>1, ChecksFlags
<1>6. /\ \/ x.state = "active" /\ y.state \in {"active", "inactive", "failed"}
         \/ x.state = "inactive" /\ y.state \in {"inactive", "failed"}
         \/ x.state = "failed" /\ y.state \in {"failed"}
      /\ ChecksBad(ladder, l, "state") => x.state = "failed"
  <2>1. /\ ladder["state"][1] = "active" /\ ladder["state"][2] = "inactive"
        /\ ladder["state"][3] = "failed"
    BY <1>1
  <2>2. ChecksOnThree(ladder, l, x, y, "state")
    BY <1>2, <1>3, ChecksThree, Zenon
  <2> QED
    BY <2>1, <2>2 DEF ChecksOnThree
<1>7. /\ Monitoring!Exit(check, given, x) = Monitoring!check_unit(x)
      /\ Monitoring!Exit(check, given, y) = Monitoring!check_unit(y)
  BY DEF Monitoring!Exit
<1>8. Monitoring!check_unit(x) <= Monitoring!check_unit(y)
  BY <1>4, <1>5, <1>6 DEF Monitoring!check_unit, Monitoring!Guarded, Monitoring!exit_code
<1>9. Monitoring!check_unit(x) = 0 => x.dbus /\ x.loaded /\ x.state # "failed"
  BY <1>4, <1>5, <1>6 DEF Monitoring!check_unit, Monitoring!Guarded, Monitoring!exit_code
<1> QED
  BY <1>2, <1>4, <1>5, <1>6, <1>7, <1>8, <1>9, Zenon DEF ChecksPromise

\* check-units: more failed units are no better than fewer.
LEMMA ChecksUnits ==
  ASSUME check = "units", given \in Monitoring!Given(check), NEW ladder,
         ladder = Monitoring!Ladder(check),
         NEW l, NEW m, NEW x, NEW y, ChecksClimb(ladder, l, m, x, y)
  PROVE  ChecksPromise(ladder, l, x, y)
<1>1. ladder = [failed |-> <<{}, {"muted"}, {"muted", "other"}>>]
  BY DEF Monitoring!Ladder
<1>2. DOMAIN ladder = {"failed"}
  BY <1>1
<1>3. /\ Len(ladder["failed"]) = 3
  BY <1>1
<1>4. /\ \/ x.failed = {} /\ y.failed \in {{}, {"muted"}, {"muted", "other"}}
         \/ x.failed = {"muted"} /\ y.failed \in {{"muted"}, {"muted", "other"}}
         \/ x.failed = {"muted", "other"} /\ y.failed \in {{"muted", "other"}}
      /\ ChecksBad(ladder, l, "failed") => x.failed = {"muted", "other"}
  <2>1. /\ ladder["failed"][1] = {} /\ ladder["failed"][2] = {"muted"}
        /\ ladder["failed"][3] = {"muted", "other"}
    BY <1>1
  <2>2. ChecksOnThree(ladder, l, x, y, "failed")
    BY <1>2, <1>3, ChecksThree, Zenon
  <2> QED
    BY <2>1, <2>2 DEF ChecksOnThree
<1>5. /\ Monitoring!Exit(check, given, x) = Monitoring!check_find_failed(given, x)
      /\ Monitoring!Exit(check, given, y) = Monitoring!check_find_failed(given, y)
  BY DEF Monitoring!Exit
<1>6. Monitoring!check_find_failed(given, x) <= Monitoring!check_find_failed(given, y)
  BY <1>4 DEF Monitoring!check_find_failed, Monitoring!exit_code
<1>7. Monitoring!check_find_failed(given, x) = 0 => x.failed # {"muted", "other"}
  BY <1>4 DEF Monitoring!check_find_failed, Monitoring!exit_code
<1> QED
  BY <1>2, <1>4, <1>5, <1>6, <1>7, Zenon DEF ChecksPromise

\* The check of a restore: the worse of two snapshots counts.
LEMMA ChecksSnapshots ==
  ASSUME check = "snapshots", given \in Monitoring!Given(check), NEW ladder,
         ladder = Monitoring!Ladder(check),
         NEW l, NEW m, NEW x, NEW y, ChecksClimb(ladder, l, m, x, y)
  PROVE  ChecksPromise(ladder, l, x, y)
<1>1. ladder = [used |-> <<40, 70, 90>>, first |-> <<0, 15, 60>>, second |-> <<0, 25, 60>>,
                answers |-> Monitoring!Works]
  BY DEF Monitoring!Ladder
<1>2. DOMAIN ladder = {"used", "first", "second", "answers"}
  BY <1>1
<1>3. /\ Len(ladder["used"]) = 3 /\ Len(ladder["first"]) = 3 /\ Len(ladder["second"]) = 3
      /\ Len(ladder["answers"]) = 2
  BY <1>1 DEF Monitoring!Works
<1>4. /\ x.used \in Nat /\ y.used \in Nat /\ x.used <= y.used /\ x.used >= 40
      /\ ChecksBad(ladder, l, "used") => x.used = 90
  <2>1. /\ ladder["used"][1] = 40 /\ ladder["used"][2] = 70 /\ ladder["used"][3] = 90
    BY <1>1
  <2>2. ChecksOnThree(ladder, l, x, y, "used")
    BY <1>2, <1>3, ChecksThree, Zenon
  <2>3. /\ \/ x.used = 40 /\ y.used \in {40, 70, 90}
           \/ x.used = 70 /\ y.used \in {70, 90}
           \/ x.used = 90 /\ y.used \in {90}
        /\ ChecksBad(ladder, l, "used") => x.used = 90
    BY <2>1, <2>2 DEF ChecksOnThree
  <2> QED
    BY <2>3
<1>5. /\ x.first \in Nat /\ y.first \in Nat /\ x.first <= y.first /\ x.first >= 0
      /\ ChecksBad(ladder, l, "first") => x.first = 60
  <2>1. /\ ladder["first"][1] = 0 /\ ladder["first"][2] = 15 /\ ladder["first"][3] = 60
    BY <1>1
  <2>2. ChecksOnThree(ladder, l, x, y, "first")
    BY <1>2, <1>3, ChecksThree, Zenon
  <2>3. /\ \/ x.first = 0 /\ y.first \in {0, 15, 60}
           \/ x.first = 15 /\ y.first \in {15, 60}
           \/ x.first = 60 /\ y.first \in {60}
        /\ ChecksBad(ladder, l, "first") => x.first = 60
    BY <2>1, <2>2 DEF ChecksOnThree
  <2> QED
    BY <2>3
<1>6. /\ x.second \in Nat /\ y.second \in Nat /\ x.second <= y.second /\ x.second >= 0
      /\ ChecksBad(ladder, l, "second") => x.second = 60
  <2>1. /\ ladder["second"][1] = 0 /\ ladder["second"][2] = 25 /\ ladder["second"][3] = 60
    BY <1>1
  <2>2. ChecksOnThree(ladder, l, x, y, "second")
    BY <1>2, <1>3, ChecksThree, Zenon
  <2>3. /\ \/ x.second = 0 /\ y.second \in {0, 25, 60}
           \/ x.second = 25 /\ y.second \in {25, 60}
           \/ x.second = 60 /\ y.second \in {60}
        /\ ChecksBad(ladder, l, "second") => x.second = 60
    BY <2>1, <2>2 DEF ChecksOnThree
  <2> QED
    BY <2>3
<1>7. /\ y.answers => x.answers
      /\ ChecksBad(ladder, l, "answers") => ~x.answers
  BY <1>1, ChecksFlags
<1>8. /\ Monitoring!Exit(check, given, x) = Monitoring!check_snapshot_restore(given, x)
      /\ Monitoring!Exit(check, given, y) = Monitoring!check_snapshot_restore(given, y)
  BY DEF Monitoring!Exit
<1>9. given.full = 95 /\ given.nearfull = 85
  BY DEF Monitoring!Given
<1>10. PICK a \in 0 .. 2, b \in 0 .. 2, p \in 0 .. 2, q \in 0 .. 2 :
        /\ a = Monitoring!restore_impact(given, x, x.first)
        /\ b = Monitoring!restore_impact(given, x, x.second)
        /\ p = Monitoring!restore_impact(given, y, y.first)
        /\ q = Monitoring!restore_impact(given, y, y.second)
  BY DEF Monitoring!restore_impact, Monitoring!exit_code
<1>11. /\ a <= p
       /\ ChecksBad(ladder, l, "used") \/ ChecksBad(ladder, l, "first") => a # 0
  BY <1>9, <1>10, <1>4, <1>5 DEF Monitoring!restore_impact, Monitoring!exit_code
<1>12. /\ b <= q
       /\ ChecksBad(ladder, l, "second") => b # 0
  BY <1>9, <1>10, <1>4, <1>6 DEF Monitoring!restore_impact, Monitoring!exit_code
<1>13. /\ Monitoring!check_snapshot_restore(given, x) =
            IF ~x.answers THEN 3 ELSE IF 2 \in {a, b} THEN 2 ELSE IF 1 \in {a, b} THEN 1 ELSE 0
       /\ Monitoring!check_snapshot_restore(given, y) =
            IF ~y.answers THEN 3 ELSE IF 2 \in {p, q} THEN 2 ELSE IF 1 \in {p, q} THEN 1 ELSE 0
  BY <1>10 DEF Monitoring!check_snapshot_restore, Monitoring!highest_status
<1>14. Monitoring!check_snapshot_restore(given, x) <= Monitoring!check_snapshot_restore(given, y)
  BY <1>7, <1>11, <1>12, <1>13
<1>15. Monitoring!check_snapshot_restore(given, x) = 0 =>
           ~ChecksBad(ladder, l, "used") /\ ~ChecksBad(ladder, l, "first")
                    /\ ~ChecksBad(ladder, l, "second") /\ x.answers
  BY <1>7, <1>11, <1>12, <1>13
<1> QED
  BY <1>2, <1>7, <1>8, <1>14, <1>15, Zenon DEF ChecksPromise

\* The codes of a Ceph cluster: full OSDs, requests blocked and for how long.
ChecksFull(z) == IF z.nearfull > 0 THEN 2 ELSE 0
ChecksMost(a, b) == IF a >= b THEN a ELSE b
ChecksBlocked(z) == Monitoring!Above(ChecksMost(z.blocked1, z.blocked2), 1, 200)
ChecksOldest(z) == Monitoring!Above(ChecksMost(z.oldest1, z.oldest2), 30, 300)

\* The check of a Ceph cluster, which is as bad as the worst of four results.
LEMMA ChecksCluster ==
  ASSUME check = "cluster", NEW ladder, ladder = Monitoring!Ladder(check),
         NEW l, NEW m, NEW x, NEW y, ChecksClimb(ladder, l, m, x, y)
  PROVE  ChecksPromise(ladder, l, x, y)
<1>1. ladder = [answers |-> Monitoring!Works,
                health |-> <<"HEALTH_OK", "HEALTH_WARN", "HEALTH_ERR">>, nearfull |-> <<0, 1>>,
                blocked1 |-> <<0, 1, 2, 201>>, blocked2 |-> <<0, 2, 201>>,
                oldest1 |-> <<0, 31, 301>>, oldest2 |-> <<0, 301>>]
  BY DEF Monitoring!Ladder
<1>2. DOMAIN ladder = {"answers", "health", "nearfull", "blocked1", "blocked2", "oldest1",
                       "oldest2"}
  BY <1>1
<1>3. /\ Len(ladder["answers"]) = 2 /\ Len(ladder["health"]) = 3 /\ Len(ladder["nearfull"]) = 2
      /\ Len(ladder["blocked1"]) = 4 /\ Len(ladder["blocked2"]) = 3 /\ Len(ladder["oldest1"]) = 3
      /\ Len(ladder["oldest2"]) = 2
  BY <1>1 DEF Monitoring!Works
<1>4. /\ y.answers => x.answers
      /\ ChecksBad(ladder, l, "answers") => ~x.answers
  BY <1>1, ChecksFlags
<1>5. /\ \/ x.health = "HEALTH_OK" /\ y.health \in {"HEALTH_OK", "HEALTH_WARN", "HEALTH_ERR"}
         \/ x.health = "HEALTH_WARN" /\ y.health \in {"HEALTH_WARN", "HEALTH_ERR"}
         \/ x.health = "HEALTH_ERR" /\ y.health \in {"HEALTH_ERR"}
      /\ ChecksBad(ladder, l, "health") => x.health = "HEALTH_ERR"
  <2>1. /\ ladder["health"][1] = "HEALTH_OK" /\ ladder["health"][2] = "HEALTH_WARN"
        /\ ladder["health"][3] = "HEALTH_ERR"
    BY <1>1
  <2>2. ChecksOnThree(ladder, l, x, y, "health")
    BY <1>2, <1>3, ChecksThree, Zenon
  <2> QED
    BY <2>1, <2>2 DEF ChecksOnThree
<1>6. /\ x.nearfull \in Int /\ y.nearfull \in Int /\ x.nearfull <= y.nearfull
      /\ ChecksBad(ladder, l, "nearfull") => x.nearfull = 1
  <2>1. /\ ladder["nearfull"][1] = 0 /\ ladder["nearfull"][2] = 1
    BY <1>1
  <2>2. ChecksOnTwo(ladder, l, x, y, "nearfull")
    BY <1>2, <1>3, ChecksTwo, Zenon
  <2>3. /\ \/ x.nearfull = 0 /\ y.nearfull \in {0, 1}
           \/ x.nearfull = 1 /\ y.nearfull \in {1}
        /\ ChecksBad(ladder, l, "nearfull") => x.nearfull = 1
    BY <2>1, <2>2 DEF ChecksOnTwo
  <2> QED
    BY <2>3
<1>7. /\ x.blocked1 \in Int /\ y.blocked1 \in Int /\ x.blocked1 <= y.blocked1
      /\ ChecksBad(ladder, l, "blocked1") => x.blocked1 = 201
  <2>1. /\ ladder["blocked1"][1] = 0 /\ ladder["blocked1"][2] = 1 /\ ladder["blocked1"][3] = 2
        /\ ladder["blocked1"][4] = 201
    BY <1>1
  <2>2. ChecksOnFour(ladder, l, x, y, "blocked1")
    BY <1>2, <1>3, ChecksFour, Zenon
  <2>3. /\ \/ x.blocked1 = 0 /\ y.blocked1 \in {0, 1, 2, 201}
           \/ x.blocked1 = 1 /\ y.blocked1 \in {1, 2, 201}
           \/ x.blocked1 = 2 /\ y.blocked1 \in {2, 201}
           \/ x.blocked1 = 201 /\ y.blocked1 \in {201}
        /\ ChecksBad(ladder, l, "blocked1") => x.blocked1 = 201
    BY <2>1, <2>2 DEF ChecksOnFour
  <2> QED
    BY <2>3
<1>8. /\ x.blocked2 \in Int /\ y.blocked2 \in Int /\ x.blocked2 <= y.blocked2
      /\ ChecksBad(ladder, l, "blocked2") => x.blocked2 = 201
  <2>1. /\ ladder["blocked2"][1] = 0 /\ ladder["blocked2"][2] = 2 /\ ladder["blocked2"][3] = 201
    BY <1>1
  <2>2. ChecksOnThree(ladder, l, x, y, "blocked2")
    BY <1>2, <1>3, ChecksThree, Zenon
  <2>3. /\ \/ x.blocked2 = 0 /\ y.blocked2 \in {0, 2, 201}
           \/ x.blocked2 = 2 /\ y.blocked2 \in {2, 201}
           \/ x.blocked2 = 201 /\ y.blocked2 \in {201}
        /\ ChecksBad(ladder, l, "blocked2") => x.blocked2 = 201
    BY <2>1, <2>2 DEF ChecksOnThree
  <2> QED
    BY <2>3
<1>9. /\ x.oldest1 \in Int /\ y.oldest1 \in Int /\ x.oldest1 <= y.oldest1
      /\ ChecksBad(ladder, l, "oldest1") => x.oldest1 = 301
  <2>1. /\ ladder["oldest1"][1] = 0 /\ ladder["oldest1"][2] = 31 /\ ladder["oldest1"][3] = 301
    BY <1>1
  <2>2. ChecksOnThree(ladder, l, x, y, "oldest1")
    BY <1>2, <1>3, ChecksThree, Zenon
  <2>3. /\ \/ x.oldest1 = 0 /\ y.oldest1 \in {0, 31, 301}
           \/ x.oldest1 = 31 /\ y.oldest1 \in {31, 301}
           \/ x.oldest1 = 301 /\ y.oldest1 \in {301}
        /\ ChecksBad(ladder, l, "oldest1") => x.oldest1 = 301
    BY <2>1, <2>2 DEF ChecksOnThree
  <2> QED
    BY <2>3
<1>10. /\ x.oldest2 \in Int /\ y.oldest2 \in Int /\ x.oldest2 <= y.oldest2
       /\ ChecksBad(ladder, l, "oldest2") => x.oldest2 = 301
  <2>1. /\ ladder["oldest2"][1] = 0 /\ ladder["oldest2"][2] = 301
    BY <1>1
  <2>2. ChecksOnTwo(ladder, l, x, y, "oldest2")
    BY <1>2, <1>3, ChecksTwo, Zenon
  <2>3. /\ \/ x.oldest2 = 0 /\ y.oldest2 \in {0, 301}
           \/ x.oldest2 = 301 /\ y.oldest2 \in {301}
        /\ ChecksBad(ladder, l, "oldest2") => x.oldest2 = 301
    BY <2>1, <2>2 DEF ChecksOnTwo
  <2> QED
    BY <2>3
<1>11. /\ Monitoring!Exit(check, given, x) = Monitoring!check_cluster(x)
       /\ Monitoring!Exit(check, given, y) = Monitoring!check_cluster(y)
  BY DEF Monitoring!Exit
<1>12. /\ Monitoring!check_cluster(x) = Monitoring!Guarded(x.answers,
              Monitoring!Worst({Monitoring!Health(x), ChecksFull(x)}
                       \cup {ChecksBlocked(x), ChecksOldest(x)}))
       /\ Monitoring!check_cluster(y) = Monitoring!Guarded(y.answers,
              Monitoring!Worst({Monitoring!Health(y), ChecksFull(y)}
                       \cup {ChecksBlocked(y), ChecksOldest(y)}))
  <2>1. /\ Monitoring!Max({x.blocked1, x.blocked2}) = ChecksMost(x.blocked1, x.blocked2)
        /\ Monitoring!Max({y.blocked1, y.blocked2}) = ChecksMost(y.blocked1, y.blocked2)
        /\ Monitoring!Max({x.oldest1, x.oldest2}) = ChecksMost(x.oldest1, x.oldest2)
        /\ Monitoring!Max({y.oldest1, y.oldest2}) = ChecksMost(y.oldest1, y.oldest2)
    BY <1>7, <1>8, <1>9, <1>10, ChecksMax DEF ChecksMost
  <2>2. \A z : Monitoring!exit_code(z.nearfull > 0, FALSE) = ChecksFull(z)
    BY DEF Monitoring!exit_code, ChecksFull
  <2> QED
    BY <2>1, <2>2, Zenon DEF Monitoring!check_cluster, Monitoring!CephLog, ChecksBlocked,
       ChecksOldest
<1>13. /\ Monitoring!Health(x) \in 0 .. 3 /\ Monitoring!Health(y) \in 0 .. 3
       /\ Monitoring!Health(x) <= Monitoring!Health(y)
       /\ ChecksBad(ladder, l, "health") => Monitoring!Health(x) # 0
  BY <1>5 DEF Monitoring!Health
<1>14. /\ ChecksFull(x) \in 0 .. 3 /\ ChecksFull(y) \in 0 .. 3 /\ ChecksFull(x) <= ChecksFull(y)
       /\ ChecksBad(ladder, l, "nearfull") => ChecksFull(x) # 0
  BY <1>6 DEF ChecksFull
<1>15. /\ ChecksBlocked(x) \in 0 .. 3 /\ ChecksBlocked(y) \in 0 .. 3
       /\ ChecksBlocked(x) <= ChecksBlocked(y)
       /\ ChecksBad(ladder, l, "blocked1") \/ ChecksBad(ladder, l, "blocked2")
            => ChecksBlocked(x) # 0
  BY <1>7, <1>8 DEF ChecksBlocked, ChecksMost, Monitoring!Above, Monitoring!exit_code
<1>16. /\ ChecksOldest(x) \in 0 .. 3 /\ ChecksOldest(y) \in 0 .. 3
       /\ ChecksOldest(x) <= ChecksOldest(y)
       /\ ChecksBad(ladder, l, "oldest1") \/ ChecksBad(ladder, l, "oldest2") => ChecksOldest(x) # 0
  BY <1>9, <1>10 DEF ChecksOldest, ChecksMost, Monitoring!Above, Monitoring!exit_code
<1>17. ChecksBelow(Monitoring!Health(x), ChecksFull(x), ChecksBlocked(x), ChecksOldest(x),
                  Monitoring!Health(y), ChecksFull(y), ChecksBlocked(y), ChecksOldest(y))
  BY <1>13, <1>14, <1>15, <1>16 DEF ChecksBelow
<1>18. PICK v \in 0 .. 3, w \in 0 .. 3 :
        /\ v = Monitoring!Worst({Monitoring!Health(x), ChecksFull(x)}
                 \cup {ChecksBlocked(x), ChecksOldest(x)})
        /\ w = Monitoring!Worst({Monitoring!Health(y), ChecksFull(y)}
                 \cup {ChecksBlocked(y), ChecksOldest(y)})
        /\ v <= w
        /\ v = 0 => /\ Monitoring!Health(x) = 0 /\ ChecksFull(x) = 0
                    /\ ChecksBlocked(x) = 0 /\ ChecksOldest(x) = 0
  BY <1>17, ChecksFold
<1>19. /\ Monitoring!check_cluster(x) = Monitoring!Guarded(x.answers, v)
       /\ Monitoring!check_cluster(y) = Monitoring!Guarded(y.answers, w)
  BY <1>12, <1>18, Zenon
<1>20. Monitoring!check_cluster(x) <= Monitoring!check_cluster(y)
  BY <1>4, <1>19, <1>18 DEF Monitoring!Guarded
<1>21. Monitoring!check_cluster(x) = 0 =>
        /\ ~ChecksBad(ladder, l, "answers") /\ ~ChecksBad(ladder, l, "health")
        /\ ~ChecksBad(ladder, l, "nearfull") /\ ~ChecksBad(ladder, l, "blocked1")
        /\ ~ChecksBad(ladder, l, "blocked2") /\ ~ChecksBad(ladder, l, "oldest1")
        /\ ~ChecksBad(ladder, l, "oldest2")
  BY <1>4, <1>19, <1>18, <1>13, <1>14, <1>15, <1>16 DEF Monitoring!Guarded
<1> QED
  BY <1>2, <1>11, <1>20, <1>21, Zenon DEF ChecksPromise

\* The errors on a volume are those of five kinds.
ChecksVolume(z) == \/ z.cipher # "expected" \/ z.key # "expected" \/ z.pbkdf # "expected"
                   \/ z.keyslots # {0, 1} \/ (given.external /\ z.backup # "same")

\* fc-luks check: any deviation is an error.
LEMMA ChecksLuks ==
  ASSUME check = "luks", given \in Monitoring!Given(check), NEW ladder,
         ladder = Monitoring!Ladder(check),
         NEW l, NEW m, NEW x, NEW y, ChecksClimb(ladder, l, m, x, y)
  PROVE  ChecksPromise(ladder, l, x, y)
<1>1. ladder = [dumped |-> Monitoring!Works, cipher |-> <<"expected", "other">>,
                key |-> <<"expected", "none">>, pbkdf |-> <<"expected", "other">>,
                keyslots |-> <<{0, 1}, {0, 1, 2}, {1}>>, backup |-> <<"same", "differs", "none">>]
  BY DEF Monitoring!Ladder
<1>2. DOMAIN ladder = {"dumped", "cipher", "key", "pbkdf", "keyslots", "backup"}
  BY <1>1
<1>3. /\ Len(ladder["dumped"]) = 2 /\ Len(ladder["cipher"]) = 2 /\ Len(ladder["key"]) = 2
      /\ Len(ladder["pbkdf"]) = 2 /\ Len(ladder["keyslots"]) = 3 /\ Len(ladder["backup"]) = 3
  BY <1>1 DEF Monitoring!Works
<1>4. /\ y.dumped => x.dumped
      /\ ChecksBad(ladder, l, "dumped") => ~x.dumped
  BY <1>1, ChecksFlags
<1>5. /\ x.cipher # "expected" => y.cipher # "expected"
      /\ ChecksBad(ladder, l, "cipher") => x.cipher # "expected"
  <2>1. /\ ladder["cipher"][1] = "expected" /\ ladder["cipher"][2] = "other"
    BY <1>1
  <2>2. ChecksOnTwo(ladder, l, x, y, "cipher")
    BY <1>2, <1>3, ChecksTwo, Zenon
  <2> QED
    BY <2>1, <2>2 DEF ChecksOnTwo
<1>6. /\ x.key # "expected" => y.key # "expected"
      /\ ChecksBad(ladder, l, "key") => x.key # "expected"
  <2>1. /\ ladder["key"][1] = "expected" /\ ladder["key"][2] = "none"
    BY <1>1
  <2>2. ChecksOnTwo(ladder, l, x, y, "key")
    BY <1>2, <1>3, ChecksTwo, Zenon
  <2> QED
    BY <2>1, <2>2 DEF ChecksOnTwo
<1>7. /\ x.pbkdf # "expected" => y.pbkdf # "expected"
      /\ ChecksBad(ladder, l, "pbkdf") => x.pbkdf # "expected"
  <2>1. /\ ladder["pbkdf"][1] = "expected" /\ ladder["pbkdf"][2] = "other"
    BY <1>1
  <2>2. ChecksOnTwo(ladder, l, x, y, "pbkdf")
    BY <1>2, <1>3, ChecksTwo, Zenon
  <2> QED
    BY <2>1, <2>2 DEF ChecksOnTwo
<1>8. /\ x.keyslots # {0, 1} => y.keyslots # {0, 1}
      /\ ChecksBad(ladder, l, "keyslots") => x.keyslots # {0, 1}
  <2>1. /\ ladder["keyslots"][1] = {0, 1} /\ ladder["keyslots"][2] = {0, 1, 2}
        /\ ladder["keyslots"][3] = {1}
    BY <1>1
  <2>2. ChecksOnThree(ladder, l, x, y, "keyslots")
    BY <1>2, <1>3, ChecksThree, Zenon
  <2> QED
    BY <2>1, <2>2 DEF ChecksOnThree
<1>9. /\ x.backup # "same" => y.backup # "same"
      /\ ChecksBad(ladder, l, "backup") => x.backup # "same"
  <2>1. /\ ladder["backup"][1] = "same" /\ ladder["backup"][2] = "differs"
        /\ ladder["backup"][3] = "none"
    BY <1>1
  <2>2. ChecksOnThree(ladder, l, x, y, "backup")
    BY <1>2, <1>3, ChecksThree, Zenon
  <2> QED
    BY <2>1, <2>2 DEF ChecksOnThree
<1>10. /\ Monitoring!Exit(check, given, x) = Monitoring!check_luks(given, x)
       /\ Monitoring!Exit(check, given, y) = Monitoring!check_luks(given, y)
  BY DEF Monitoring!Exit
<1>11. Monitoring!Watched("backup") => given.external
  BY DEF Monitoring!Watched
<1>12. ChecksVolume(x) => ChecksVolume(y)
  BY <1>5, <1>6, <1>7, <1>8, <1>9 DEF ChecksVolume
<1>13. /\ ChecksBad(ladder, l, "cipher") \/ ChecksBad(ladder, l, "key") => ChecksVolume(x)
       /\ ChecksBad(ladder, l, "pbkdf") \/ ChecksBad(ladder, l, "keyslots") => ChecksVolume(x)
       /\ given.external => (ChecksBad(ladder, l, "backup") => ChecksVolume(x))
  BY <1>5, <1>6, <1>7, <1>8, <1>9  DEF ChecksVolume
<1>14. ASSUME NEW z
      PROVE  Monitoring!LuksErrors(given, z) = {} <=> ~ChecksVolume(z)
  <2>1. /\ "cipher" \in Monitoring!LuksErrors(given, z) <=> z.cipher # "expected"
        /\ "key" \in Monitoring!LuksErrors(given, z) <=> z.key # "expected"
        /\ "pbkdf" \in Monitoring!LuksErrors(given, z) <=> z.pbkdf # "expected"
    BY DEF Monitoring!LuksErrors
  <2>2. "keyslots" \in Monitoring!LuksErrors(given, z) <=> z.keyslots # {0, 1}
    BY Zenon DEF Monitoring!LuksErrors
  <2>3. "backup" \in Monitoring!LuksErrors(given, z) <=> given.external /\ z.backup # "same"
    BY DEF Monitoring!LuksErrors
  <2>4. Monitoring!LuksErrors(given, z) \subseteq {"cipher", "key", "pbkdf", "keyslots", "backup"}
    BY DEF Monitoring!LuksErrors
  <2> QED
    BY <2>1, <2>2, <2>3, <2>4, Zenon DEF ChecksVolume
<1>15. Monitoring!check_luks(given, x) <= Monitoring!check_luks(given, y)
  BY <1>4, <1>12, <1>14 DEF Monitoring!check_luks
<1>16. Monitoring!check_luks(given, x) = 0 =>
        /\ ~ChecksBad(ladder, l, "dumped") /\ ~ChecksBad(ladder, l, "cipher")
        /\ ~ChecksBad(ladder, l, "key") /\ ~ChecksBad(ladder, l, "pbkdf")
        /\ ~ChecksBad(ladder, l, "keyslots") /\ (given.external => ~ChecksBad(ladder, l, "backup"))
  BY <1>4, <1>13, <1>14 DEF Monitoring!check_luks
<1> QED
  BY <1>2, <1>10, <1>15, <1>16, <1>11, Zenon DEF ChecksPromise

\* The codes of a RAID controller: its policies, battery, and drives.
ChecksPolicies(z) == Monitoring!Above(z.changed, 0, 1)
ChecksErrors(z) == Monitoring!Above(z.errors1 + z.errors2, 50, 70)
ChecksPredicted(z) == Monitoring!Above(z.predictive1 + z.predictive2, 50, 70)

\* check_megaraid_cache, which is as bad as the worst of four results.
LEMMA ChecksMegaraid ==
  ASSUME check = "megaraid", NEW ladder, ladder = Monitoring!Ladder(check),
         NEW l, NEW m, NEW x, NEW y, ChecksClimb(ladder, l, m, x, y)
  PROVE  ChecksPromise(ladder, l, x, y)
<1>1. ladder = [answers |-> Monitoring!Works, changed |-> <<0, 1, 2>>, errors1 |-> <<0, 30, 60>>,
                errors2 |-> <<0, 30, 80>>, predictive1 |-> <<0, 60>>, predictive2 |-> <<0, 80>>,
                battery |-> <<"no", "yes", "unknown">>]
  BY DEF Monitoring!Ladder
<1>2. DOMAIN ladder = {"answers", "changed", "errors1", "errors2", "predictive1", "predictive2",
                       "battery"}
  BY <1>1
<1>3. /\ Len(ladder["answers"]) = 2 /\ Len(ladder["changed"]) = 3 /\ Len(ladder["errors1"]) = 3
      /\ Len(ladder["errors2"]) = 3 /\ Len(ladder["predictive1"]) = 2
      /\ Len(ladder["predictive2"]) = 2
      /\ Len(ladder["battery"]) = 3
  BY <1>1 DEF Monitoring!Works
<1>4. /\ y.answers => x.answers
      /\ ChecksBad(ladder, l, "answers") => ~x.answers
  BY <1>1, ChecksFlags
<1>5. /\ x.changed \in Int /\ y.changed \in Int /\ x.changed <= y.changed
      /\ ChecksBad(ladder, l, "changed") => x.changed = 2
  <2>1. /\ ladder["changed"][1] = 0 /\ ladder["changed"][2] = 1 /\ ladder["changed"][3] = 2
    BY <1>1
  <2>2. ChecksOnThree(ladder, l, x, y, "changed")
    BY <1>2, <1>3, ChecksThree, Zenon
  <2>3. /\ \/ x.changed = 0 /\ y.changed \in {0, 1, 2}
           \/ x.changed = 1 /\ y.changed \in {1, 2}
           \/ x.changed = 2 /\ y.changed \in {2}
        /\ ChecksBad(ladder, l, "changed") => x.changed = 2
    BY <2>1, <2>2 DEF ChecksOnThree
  <2> QED
    BY <2>3
<1>6. /\ x.errors1 \in Nat /\ y.errors1 \in Nat /\ x.errors1 <= y.errors1
      /\ ChecksBad(ladder, l, "errors1") => x.errors1 = 60
  <2>1. /\ ladder["errors1"][1] = 0 /\ ladder["errors1"][2] = 30 /\ ladder["errors1"][3] = 60
    BY <1>1
  <2>2. ChecksOnThree(ladder, l, x, y, "errors1")
    BY <1>2, <1>3, ChecksThree, Zenon
  <2>3. /\ \/ x.errors1 = 0 /\ y.errors1 \in {0, 30, 60}
           \/ x.errors1 = 30 /\ y.errors1 \in {30, 60}
           \/ x.errors1 = 60 /\ y.errors1 \in {60}
        /\ ChecksBad(ladder, l, "errors1") => x.errors1 = 60
    BY <2>1, <2>2 DEF ChecksOnThree
  <2> QED
    BY <2>3
<1>7. /\ x.errors2 \in Nat /\ y.errors2 \in Nat /\ x.errors2 <= y.errors2
      /\ ChecksBad(ladder, l, "errors2") => x.errors2 = 80
  <2>1. /\ ladder["errors2"][1] = 0 /\ ladder["errors2"][2] = 30 /\ ladder["errors2"][3] = 80
    BY <1>1
  <2>2. ChecksOnThree(ladder, l, x, y, "errors2")
    BY <1>2, <1>3, ChecksThree, Zenon
  <2>3. /\ \/ x.errors2 = 0 /\ y.errors2 \in {0, 30, 80}
           \/ x.errors2 = 30 /\ y.errors2 \in {30, 80}
           \/ x.errors2 = 80 /\ y.errors2 \in {80}
        /\ ChecksBad(ladder, l, "errors2") => x.errors2 = 80
    BY <2>1, <2>2 DEF ChecksOnThree
  <2> QED
    BY <2>3
<1>8. /\ x.predictive1 \in Nat /\ y.predictive1 \in Nat /\ x.predictive1 <= y.predictive1
      /\ ChecksBad(ladder, l, "predictive1") => x.predictive1 = 60
  <2>1. /\ ladder["predictive1"][1] = 0 /\ ladder["predictive1"][2] = 60
    BY <1>1
  <2>2. ChecksOnTwo(ladder, l, x, y, "predictive1")
    BY <1>2, <1>3, ChecksTwo, Zenon
  <2>3. /\ \/ x.predictive1 = 0 /\ y.predictive1 \in {0, 60}
           \/ x.predictive1 = 60 /\ y.predictive1 \in {60}
        /\ ChecksBad(ladder, l, "predictive1") => x.predictive1 = 60
    BY <2>1, <2>2 DEF ChecksOnTwo
  <2> QED
    BY <2>3
<1>9. /\ x.predictive2 \in Nat /\ y.predictive2 \in Nat /\ x.predictive2 <= y.predictive2
      /\ ChecksBad(ladder, l, "predictive2") => x.predictive2 = 80
  <2>1. /\ ladder["predictive2"][1] = 0 /\ ladder["predictive2"][2] = 80
    BY <1>1
  <2>2. ChecksOnTwo(ladder, l, x, y, "predictive2")
    BY <1>2, <1>3, ChecksTwo, Zenon
  <2>3. /\ \/ x.predictive2 = 0 /\ y.predictive2 \in {0, 80}
           \/ x.predictive2 = 80 /\ y.predictive2 \in {80}
        /\ ChecksBad(ladder, l, "predictive2") => x.predictive2 = 80
    BY <2>1, <2>2 DEF ChecksOnTwo
  <2> QED
    BY <2>3
<1>10. /\ \/ x.battery = "no" /\ y.battery \in {"no", "yes", "unknown"}
          \/ x.battery = "yes" /\ y.battery \in {"yes", "unknown"}
          \/ x.battery = "unknown" /\ y.battery \in {"unknown"}
       /\ ChecksBad(ladder, l, "battery") => x.battery = "unknown"
  <2>1. /\ ladder["battery"][1] = "no" /\ ladder["battery"][2] = "yes"
        /\ ladder["battery"][3] = "unknown"
    BY <1>1
  <2>2. ChecksOnThree(ladder, l, x, y, "battery")
    BY <1>2, <1>3, ChecksThree, Zenon
  <2> QED
    BY <2>1, <2>2 DEF ChecksOnThree
<1>11. /\ Monitoring!Exit(check, given, x) = Monitoring!check_megaraid_cache(x)
       /\ Monitoring!Exit(check, given, y) = Monitoring!check_megaraid_cache(y)
  BY DEF Monitoring!Exit
<1>12. /\ Monitoring!check_megaraid_cache(x) = Monitoring!Guarded(x.answers,
              Monitoring!Worst({ChecksPolicies(x), Monitoring!BatteryReplace(x)}
                       \cup {ChecksErrors(x), ChecksPredicted(x)}))
       /\ Monitoring!check_megaraid_cache(y) = Monitoring!Guarded(y.answers,
              Monitoring!Worst({ChecksPolicies(y), Monitoring!BatteryReplace(y)}
                       \cup {ChecksErrors(y), ChecksPredicted(y)}))
  <2>1. Monitoring!policy_diff(x) = x.changed /\ Monitoring!policy_diff(y) = y.changed
    BY <1>5 DEF Monitoring!policy_diff
  <2> QED
    BY <2>1, Zenon DEF Monitoring!check_megaraid_cache, Monitoring!FailureCount, ChecksPolicies,
                       ChecksErrors, ChecksPredicted
<1>13. /\ ChecksPolicies(x) \in 0 .. 3 /\ ChecksPolicies(y) \in 0 .. 3
       /\ ChecksPolicies(x) <= ChecksPolicies(y)
       /\ ChecksBad(ladder, l, "changed") => ChecksPolicies(x) # 0
  BY <1>5 DEF ChecksPolicies, Monitoring!Above, Monitoring!exit_code
<1>14. /\ Monitoring!BatteryReplace(x) \in 0 .. 3 /\ Monitoring!BatteryReplace(y) \in 0 .. 3
       /\ Monitoring!BatteryReplace(x) <= Monitoring!BatteryReplace(y)
       /\ ChecksBad(ladder, l, "battery") => Monitoring!BatteryReplace(x) # 0
  BY <1>10 DEF Monitoring!BatteryReplace
<1>15. /\ ChecksErrors(x) \in 0 .. 3 /\ ChecksErrors(y) \in 0 .. 3
       /\ ChecksErrors(x) <= ChecksErrors(y)
       /\ ChecksBad(ladder, l, "errors1") \/ ChecksBad(ladder, l, "errors2") => ChecksErrors(x) # 0
  <2>1. PICK i \in Int, j \in Int : i = x.errors1 + x.errors2 /\ j = y.errors1 + y.errors2
    BY <1>6, <1>7
  <2>2. /\ i <= j
        /\ ChecksBad(ladder, l, "errors1") \/ ChecksBad(ladder, l, "errors2") => i > 50
    BY <2>1, <1>6, <1>7
  <2> QED
    BY <2>1, <2>2 DEF ChecksErrors, Monitoring!Above, Monitoring!exit_code
<1>16. /\ ChecksPredicted(x) \in 0 .. 3 /\ ChecksPredicted(y) \in 0 .. 3
       /\ ChecksPredicted(x) <= ChecksPredicted(y)
       /\ ChecksBad(ladder, l, "predictive1") \/ ChecksBad(ladder, l, "predictive2")
            => ChecksPredicted(x) # 0
  <2>1. PICK i \in Int, j \in Int : i = x.predictive1 + x.predictive2
                 /\ j = y.predictive1 + y.predictive2
    BY <1>8, <1>9
  <2>2. /\ i <= j
        /\ ChecksBad(ladder, l, "predictive1") \/ ChecksBad(ladder, l, "predictive2") => i > 50
    BY <2>1, <1>8, <1>9
  <2> QED
    BY <2>1, <2>2 DEF ChecksPredicted, Monitoring!Above, Monitoring!exit_code
<1>17. ChecksBelow(ChecksPolicies(x), Monitoring!BatteryReplace(x), ChecksErrors(x),
                ChecksPredicted(x),
                  ChecksPolicies(y), Monitoring!BatteryReplace(y), ChecksErrors(y),
                           ChecksPredicted(y))
  BY <1>13, <1>14, <1>15, <1>16 DEF ChecksBelow
<1>18. PICK v \in 0 .. 3, w \in 0 .. 3 :
        /\ v = Monitoring!Worst({ChecksPolicies(x), Monitoring!BatteryReplace(x)}
                 \cup {ChecksErrors(x), ChecksPredicted(x)})
        /\ w = Monitoring!Worst({ChecksPolicies(y), Monitoring!BatteryReplace(y)}
                 \cup {ChecksErrors(y), ChecksPredicted(y)})
        /\ v <= w
        /\ v = 0 => /\ ChecksPolicies(x) = 0 /\ Monitoring!BatteryReplace(x) = 0
                    /\ ChecksErrors(x) = 0 /\ ChecksPredicted(x) = 0
  BY <1>17, ChecksFold
<1>19. /\ Monitoring!check_megaraid_cache(x) = Monitoring!Guarded(x.answers, v)
       /\ Monitoring!check_megaraid_cache(y) = Monitoring!Guarded(y.answers, w)
  BY <1>12, <1>18, Zenon
<1>20. Monitoring!check_megaraid_cache(x) <= Monitoring!check_megaraid_cache(y)
  BY <1>4, <1>19, <1>18 DEF Monitoring!Guarded
<1>21. Monitoring!check_megaraid_cache(x) = 0 =>
        /\ ~ChecksBad(ladder, l, "answers") /\ ~ChecksBad(ladder, l, "changed")
        /\ ~ChecksBad(ladder, l, "errors1") /\ ~ChecksBad(ladder, l, "errors2")
        /\ ~ChecksBad(ladder, l, "predictive1") /\ ~ChecksBad(ladder, l, "predictive2")
        /\ ~ChecksBad(ladder, l, "battery")
  BY <1>4, <1>19, <1>18, <1>13, <1>14, <1>15, <1>16 DEF Monitoring!Guarded
<1> QED
  BY <1>2, <1>11, <1>20, <1>21, Zenon DEF ChecksPromise

\* check_disk: the limits, whatever the size, are below a full disk.
LEMMA ChecksDisk ==
  ASSUME check = "disk", given \in Monitoring!Given(check), NEW ladder,
         ladder = Monitoring!Ladder(check),
         NEW l, NEW m, NEW x, NEW y, ChecksClimb(ladder, l, m, x, y)
  PROVE  ChecksPromise(ladder, l, x, y)
<1>1. ladder = [used |-> <<400, 510, 610, 810, 910, 951, 980>>]
  BY DEF Monitoring!Ladder
<1>2. DOMAIN ladder = {"used"}
  BY <1>1
<1>3. /\ Len(ladder["used"]) = 7
  BY <1>1
<1>4. /\ x.used \in Int /\ y.used \in Int /\ x.used <= y.used
      /\ ChecksBad(ladder, l, "used") => x.used = 980
  <2>1. PICK i, j : i = l["used"] /\ j = m["used"]
    OBVIOUS
  <2>2. /\ i \in 1 .. 7 /\ j \in 1 .. 7 /\ i <= j
        /\ x.used = ladder["used"][i] /\ y.used = ladder["used"][j]
    BY <1>2, <1>3, <2>1 DEF ChecksClimb
  <2>3. /\ ladder["used"][1] = 400 /\ ladder["used"][2] = 510 /\ ladder["used"][3] = 610
        /\ ladder["used"][4] = 810 /\ ladder["used"][5] = 910 /\ ladder["used"][6] = 951
        /\ ladder["used"][7] = 980
    BY <1>1
  <2>4. ChecksBad(ladder, l, "used") => i = 7
    BY <1>3, <2>1 DEF ChecksBad
  <2> QED
    BY <2>2, <2>3, <2>4
<1>5. /\ Monitoring!Exit(check, given, x) = Monitoring!check_disk(given, x)
      /\ Monitoring!Exit(check, given, y) = Monitoring!check_disk(given, y)
  BY DEF Monitoring!Exit
<1>6. given.size \in DOMAIN Monitoring!Scale
  BY DEF Monitoring!Given
<1>7. /\ Monitoring!Scale[given.size] \in Int
      /\ Monitoring!Scale[given.size] \in {501, 1000, 1995}
  BY <1>6 DEF Monitoring!Scale
<1>8. /\ Monitoring!magic_range(given.size, 90, 50) \in Int
      /\ Monitoring!magic_range(given.size, 90, 50) < 980
      /\ Monitoring!magic_range(given.size, 95, 60) \in Int
  BY <1>7, ChecksMax DEF Monitoring!magic_range
<1>9. Monitoring!check_disk(given, x) <= Monitoring!check_disk(given, y)
  BY <1>4, <1>8, ChecksHigher DEF Monitoring!check_disk
<1>10. Monitoring!check_disk(given, x) = 0 => x.used # 980
  BY <1>4, <1>8 DEF Monitoring!check_disk, Monitoring!Above, Monitoring!exit_code
<1> QED
  BY <1>2, <1>4, <1>5, <1>9, <1>10, Zenon DEF ChecksPromise

\* A link is slower than it should be or down, or not duplex, at an interface that is there.
ChecksSlow(link, speed) == Monitoring!query(link, speed) < 1000
ChecksLinks(z) == \/ 1 \in given.there /\ (ChecksSlow(z.link1, z.speed1) \/ z.duplex1 # "full")
                  \/ 2 \in given.there /\ (ChecksSlow(z.link2, z.speed2) \/ z.duplex2 # "full")

\* check_interfaces: either of two links is enough.
LEMMA ChecksInterfaces ==
  ASSUME check = "interfaces", given \in Monitoring!Given(check), NEW ladder,
         ladder = Monitoring!Ladder(check), NEW l, NEW m, NEW x, NEW y, ChecksClimb(ladder, l, m, x, y)
  PROVE  ChecksPromise(ladder, l, x, y)
<1>1. ladder = [ethtool |-> Monitoring!Works, link1 |-> Monitoring!Works,
                speed1 |-> <<10000, 1000, 100>>, duplex1 |-> <<"full", "half">>,
                link2 |-> Monitoring!Works, speed2 |-> <<1000, 100>>,
                duplex2 |-> <<"full", "half">>]
  BY DEF Monitoring!Ladder
<1>2. DOMAIN ladder = {"ethtool", "link1", "speed1", "duplex1", "link2", "speed2", "duplex2"}
  BY <1>1
<1>3. /\ Len(ladder["ethtool"]) = 2 /\ Len(ladder["link1"]) = 2 /\ Len(ladder["speed1"]) = 3
      /\ Len(ladder["duplex1"]) = 2 /\ Len(ladder["link2"]) = 2 /\ Len(ladder["speed2"]) = 2
      /\ Len(ladder["duplex2"]) = 2
  BY <1>1 DEF Monitoring!Works
<1>4. /\ y.ethtool => x.ethtool
      /\ ChecksBad(ladder, l, "ethtool") => ~x.ethtool
  BY <1>1, ChecksFlags
<1>5. /\ y.link1 => x.link1
      /\ ChecksBad(ladder, l, "link1") => ~x.link1
  BY <1>1, ChecksFlags
<1>6. /\ x.speed1 \in Int /\ y.speed1 \in Int /\ y.speed1 <= x.speed1
      /\ ChecksBad(ladder, l, "speed1") => x.speed1 = 100
  <2>1. /\ ladder["speed1"][1] = 10000 /\ ladder["speed1"][2] = 1000 /\ ladder["speed1"][3] = 100
    BY <1>1
  <2>2. ChecksOnThree(ladder, l, x, y, "speed1")
    BY <1>2, <1>3, ChecksThree, Zenon
  <2>3. /\ \/ x.speed1 = 10000 /\ y.speed1 \in {10000, 1000, 100}
           \/ x.speed1 = 1000 /\ y.speed1 \in {1000, 100}
           \/ x.speed1 = 100 /\ y.speed1 \in {100}
        /\ ChecksBad(ladder, l, "speed1") => x.speed1 = 100
    BY <2>1, <2>2 DEF ChecksOnThree
  <2> QED
    BY <2>3
<1>7. /\ x.duplex1 # "full" => y.duplex1 # "full"
      /\ ChecksBad(ladder, l, "duplex1") => x.duplex1 # "full"
  <2>1. /\ ladder["duplex1"][1] = "full" /\ ladder["duplex1"][2] = "half"
    BY <1>1
  <2>2. ChecksOnTwo(ladder, l, x, y, "duplex1")
    BY <1>2, <1>3, ChecksTwo, Zenon
  <2> QED
    BY <2>1, <2>2 DEF ChecksOnTwo
<1>8. /\ y.link2 => x.link2
      /\ ChecksBad(ladder, l, "link2") => ~x.link2
  BY <1>1, ChecksFlags
<1>9. /\ x.speed2 \in Int /\ y.speed2 \in Int /\ y.speed2 <= x.speed2
      /\ ChecksBad(ladder, l, "speed2") => x.speed2 = 100
  <2>1. /\ ladder["speed2"][1] = 1000 /\ ladder["speed2"][2] = 100
    BY <1>1
  <2>2. ChecksOnTwo(ladder, l, x, y, "speed2")
    BY <1>2, <1>3, ChecksTwo, Zenon
  <2>3. /\ \/ x.speed2 = 1000 /\ y.speed2 \in {1000, 100}
           \/ x.speed2 = 100 /\ y.speed2 \in {100}
        /\ ChecksBad(ladder, l, "speed2") => x.speed2 = 100
    BY <2>1, <2>2 DEF ChecksOnTwo
  <2> QED
    BY <2>3
<1>10. /\ x.duplex2 # "full" => y.duplex2 # "full"
       /\ ChecksBad(ladder, l, "duplex2") => x.duplex2 # "full"
  <2>1. /\ ladder["duplex2"][1] = "full" /\ ladder["duplex2"][2] = "half"
    BY <1>1
  <2>2. ChecksOnTwo(ladder, l, x, y, "duplex2")
    BY <1>2, <1>3, ChecksTwo, Zenon
  <2> QED
    BY <2>1, <2>2 DEF ChecksOnTwo
<1>11. /\ Monitoring!Exit(check, given, x) = Monitoring!check_interfaces(given, x)
       /\ Monitoring!Exit(check, given, y) = Monitoring!check_interfaces(given, y)
  BY DEF Monitoring!Exit
<1>12. /\ ChecksSlow(x.link1, x.speed1) => ChecksSlow(y.link1, y.speed1)
       /\ ChecksBad(ladder, l, "link1") \/ ChecksBad(ladder, l, "speed1")
            => ChecksSlow(x.link1, x.speed1)
  BY <1>5, <1>6 DEF ChecksSlow, Monitoring!query
<1>13. /\ ChecksSlow(x.link2, x.speed2) => ChecksSlow(y.link2, y.speed2)
       /\ ChecksBad(ladder, l, "link2") \/ ChecksBad(ladder, l, "speed2")
            => ChecksSlow(x.link2, x.speed2)
  BY <1>8, <1>9 DEF ChecksSlow, Monitoring!query
<1>14. ChecksLinks(x) => ChecksLinks(y)
  BY <1>7, <1>10, <1>12, <1>13 DEF ChecksLinks
<1>15. /\ 1 \in given.there => /\ ChecksBad(ladder, l, "link1") => ChecksLinks(x)
                               /\ ChecksBad(ladder, l, "speed1") => ChecksLinks(x)
                               /\ ChecksBad(ladder, l, "duplex1") => ChecksLinks(x)
       /\ 2 \in given.there => /\ ChecksBad(ladder, l, "link2") => ChecksLinks(x)
                               /\ ChecksBad(ladder, l, "speed2") => ChecksLinks(x)
                               /\ ChecksBad(ladder, l, "duplex2") => ChecksLinks(x)
  BY <1>7, <1>10, <1>12, <1>13 DEF ChecksLinks
<1>16. \A z : Monitoring!check_interfaces(given, z) =
             Monitoring!Guarded(given.there # {} /\ z.ethtool, IF ChecksLinks(z) THEN 2 ELSE 0)
  BY DEF Monitoring!check_interfaces, Monitoring!exit_code, ChecksLinks, ChecksSlow
<1>17. Monitoring!check_interfaces(given, x) <= Monitoring!check_interfaces(given, y)
  BY <1>4, <1>16, <1>14 DEF Monitoring!Guarded
<1>18. Monitoring!check_interfaces(given, x) = 0 => x.ethtool /\ ~ChecksLinks(x)
  BY <1>16 DEF Monitoring!Guarded
<1>19. ASSUME NEW f \in DOMAIN ladder, Monitoring!Watched(f), ChecksBad(ladder, l, f)
       PROVE  Monitoring!check_interfaces(given, x) # 0
  <2>1. CASE f = "ethtool"
    BY <1>4, <1>18, <1>19, <2>1
  <2>2. CASE f \in {"link1", "speed1", "duplex1"}
    <3>1. 1 \in given.there
      BY <1>19, <2>2 DEF Monitoring!Watched
    <3> QED
      BY <1>15, <1>18, <1>19, <2>2, <3>1
  <2>3. CASE f \in {"link2", "speed2", "duplex2"}
    <3>1. 2 \in given.there
      BY <1>19, <2>3 DEF Monitoring!Watched
    <3> QED
      BY <1>15, <1>18, <1>19, <2>3, <3>1
  <2> QED
    BY <1>2, <2>1, <2>2, <2>3
<1> QED
  BY <1>11, <1>17, <1>19, Zenon DEF ChecksPromise

\* check_lvm_integrity: a single error is not enough.
LEMMA ChecksLvm ==
  ASSUME check = "lvm", NEW ladder, ladder = Monitoring!Ladder(check),
         NEW l, NEW m, NEW x, NEW y, ChecksClimb(ladder, l, m, x, y)
  PROVE  ChecksPromise(ladder, l, x, y)
<1>1. ladder = [errors |-> <<0, 1, 2>>]
  BY DEF Monitoring!Ladder
<1>2. DOMAIN ladder = {"errors"}
  BY <1>1
<1>3. /\ Len(ladder["errors"]) = 3
  BY <1>1
<1>4. /\ x.errors \in Int /\ y.errors \in Int /\ x.errors <= y.errors
      /\ ChecksBad(ladder, l, "errors") => x.errors = 2
  <2>1. /\ ladder["errors"][1] = 0 /\ ladder["errors"][2] = 1 /\ ladder["errors"][3] = 2
    BY <1>1
  <2>2. ChecksOnThree(ladder, l, x, y, "errors")
    BY <1>2, <1>3, ChecksThree, Zenon
  <2>3. /\ \/ x.errors = 0 /\ y.errors \in {0, 1, 2}
           \/ x.errors = 1 /\ y.errors \in {1, 2}
           \/ x.errors = 2 /\ y.errors \in {2}
        /\ ChecksBad(ladder, l, "errors") => x.errors = 2
    BY <2>1, <2>2 DEF ChecksOnThree
  <2> QED
    BY <2>3
<1>5. /\ Monitoring!Exit(check, given, x) = Monitoring!check_lvm_integrity(x)
      /\ Monitoring!Exit(check, given, y) = Monitoring!check_lvm_integrity(y)
  BY DEF Monitoring!Exit
<1>6. Monitoring!check_lvm_integrity(x) <= Monitoring!check_lvm_integrity(y)
  BY <1>4 DEF Monitoring!check_lvm_integrity, Monitoring!exit_code
<1>7. Monitoring!check_lvm_integrity(x) = 0 => x.errors # 2
  BY <1>4 DEF Monitoring!check_lvm_integrity, Monitoring!exit_code
<1> QED
  BY <1>2, <1>4, <1>5, <1>6, <1>7, Zenon DEF ChecksPromise

\* How old the databases are.
ChecksOld(z, hours) == \/ "cld" \in given.files /\ z.cld > hours
                       \/ "cvd" \in given.files /\ z.cvd > hours

\* check_clamav_database: the oldest of the files that exist.
LEMMA ChecksClamav ==
  ASSUME check = "clamav", given \in Monitoring!Given(check), NEW ladder,
         ladder = Monitoring!Ladder(check),
         NEW l, NEW m, NEW x, NEW y, ChecksClimb(ladder, l, m, x, y)
  PROVE  ChecksPromise(ladder, l, x, y)
<1>1. ladder = [cld |-> <<0, 51, 97>>, cvd |-> <<0, 51, 97>>]
  BY DEF Monitoring!Ladder
<1>2. DOMAIN ladder = {"cld", "cvd"}
  BY <1>1
<1>3. /\ Len(ladder["cld"]) = 3 /\ Len(ladder["cvd"]) = 3
  BY <1>1
<1>4. /\ x.cld \in Int /\ y.cld \in Int /\ x.cld <= y.cld
      /\ ChecksBad(ladder, l, "cld") => x.cld = 97
  <2>1. /\ ladder["cld"][1] = 0 /\ ladder["cld"][2] = 51 /\ ladder["cld"][3] = 97
    BY <1>1
  <2>2. ChecksOnThree(ladder, l, x, y, "cld")
    BY <1>2, <1>3, ChecksThree, Zenon
  <2>3. /\ \/ x.cld = 0 /\ y.cld \in {0, 51, 97}
           \/ x.cld = 51 /\ y.cld \in {51, 97}
           \/ x.cld = 97 /\ y.cld \in {97}
        /\ ChecksBad(ladder, l, "cld") => x.cld = 97
    BY <2>1, <2>2 DEF ChecksOnThree
  <2> QED
    BY <2>3
<1>5. /\ x.cvd \in Int /\ y.cvd \in Int /\ x.cvd <= y.cvd
      /\ ChecksBad(ladder, l, "cvd") => x.cvd = 97
  <2>1. /\ ladder["cvd"][1] = 0 /\ ladder["cvd"][2] = 51 /\ ladder["cvd"][3] = 97
    BY <1>1
  <2>2. ChecksOnThree(ladder, l, x, y, "cvd")
    BY <1>2, <1>3, ChecksThree, Zenon
  <2>3. /\ \/ x.cvd = 0 /\ y.cvd \in {0, 51, 97}
           \/ x.cvd = 51 /\ y.cvd \in {51, 97}
           \/ x.cvd = 97 /\ y.cvd \in {97}
        /\ ChecksBad(ladder, l, "cvd") => x.cvd = 97
    BY <2>1, <2>2 DEF ChecksOnThree
  <2> QED
    BY <2>3
<1>6. /\ Monitoring!Exit(check, given, x) = Monitoring!check_clamav_database(given, x)
      /\ Monitoring!Exit(check, given, y) = Monitoring!check_clamav_database(given, y)
  BY DEF Monitoring!Exit
<1>7. /\ Monitoring!Watched("cld") => "cld" \in given.files
      /\ Monitoring!Watched("cvd") => "cvd" \in given.files
  BY DEF Monitoring!Watched
<1>8. given.files \in SUBSET {"cld", "cvd"}
  BY DEF Monitoring!Given
<1>9. ASSUME NEW z
      PROVE  Monitoring!check_clamav_database(given, z) =
               IF given.files = {} \/ ChecksOld(z, 96) THEN 2
               ELSE IF Monitoring!Cardinality(given.files) = 2 \/ ChecksOld(z, 50) THEN 1 ELSE 0
  <2>1. \A h : (\E f \in given.files : z[f] > h) <=> ChecksOld(z, h)
    BY <1>8 DEF ChecksOld
  <2>2. Monitoring!check_clamav_database(given, z) =
          IF given.files = {} \/ \E f \in given.files : z[f] > 96 THEN 2
          ELSE IF Monitoring!Cardinality(given.files) = 2 \/ \E f \in given.files : z[f] > 50
               THEN 1 ELSE 0
    BY DEF Monitoring!check_clamav_database, Monitoring!exit_code
  <2> QED
    BY <2>1, <2>2
<1>10. /\ ChecksOld(x, 96) => ChecksOld(y, 96)
       /\ ChecksOld(x, 50) => ChecksOld(y, 50)
  BY <1>4, <1>5 DEF ChecksOld
<1>11. /\ "cld" \in given.files /\ ChecksBad(ladder, l, "cld") => ChecksOld(x, 96)
       /\ "cvd" \in given.files /\ ChecksBad(ladder, l, "cvd") => ChecksOld(x, 96)
  BY <1>4, <1>5 DEF ChecksOld
<1>12. Monitoring!check_clamav_database(given, x) <= Monitoring!check_clamav_database(given, y)
  BY <1>9, <1>10
<1>13. Monitoring!check_clamav_database(given, x) = 0 =>
           ("cld" \in given.files => ~ChecksBad(ladder, l, "cld"))
                    /\ ("cvd" \in given.files => ~ChecksBad(ladder, l, "cvd"))
  BY <1>9, <1>11
<1> QED
  BY <1>2, <1>6, <1>12, <1>13, <1>7, Zenon DEF ChecksPromise

\* check_bgp_sessions: the worse of two sessions.
LEMMA ChecksBgp ==
  ASSUME check = "bgp", NEW ladder, ladder = Monitoring!Ladder(check),
         NEW l, NEW m, NEW x, NEW y, ChecksClimb(ladder, l, m, x, y)
  PROVE  ChecksPromise(ladder, l, x, y)
<1>1. ladder = [session1 |-> <<0, 60, 61, Monitoring!NotConfigured>>,
                session2 |-> <<0, 60, 61, Monitoring!NotConfigured>>]
  BY DEF Monitoring!Ladder
<1>2. DOMAIN ladder = {"session1", "session2"}
  BY <1>1
<1>3. /\ Len(ladder["session1"]) = 4 /\ Len(ladder["session2"]) = 4
  BY <1>1
<1>4. /\ x.session1 \in Int /\ y.session1 \in Int /\ x.session1 <= y.session1
      /\ ChecksBad(ladder, l, "session1") => x.session1 = Monitoring!NotConfigured
  <2>1. /\ ladder["session1"][1] = 0 /\ ladder["session1"][2] = 60 /\ ladder["session1"][3] = 61
        /\ ladder["session1"][4] = Monitoring!NotConfigured
    BY <1>1
  <2>2. ChecksOnFour(ladder, l, x, y, "session1")
    BY <1>2, <1>3, ChecksFour, Zenon
  <2>3. /\ \/ x.session1 = 0 /\ y.session1 \in {0, 60, 61, Monitoring!NotConfigured}
           \/ x.session1 = 60 /\ y.session1 \in {60, 61, Monitoring!NotConfigured}
           \/ x.session1 = 61 /\ y.session1 \in {61, Monitoring!NotConfigured}
           \/ x.session1 = Monitoring!NotConfigured /\ y.session1 \in {Monitoring!NotConfigured}
        /\ ChecksBad(ladder, l, "session1") => x.session1 = Monitoring!NotConfigured
    BY <2>1, <2>2 DEF ChecksOnFour
  <2> QED
    BY <2>3 DEF Monitoring!NotConfigured
<1>5. /\ x.session2 \in Int /\ y.session2 \in Int /\ x.session2 <= y.session2
      /\ ChecksBad(ladder, l, "session2") => x.session2 = Monitoring!NotConfigured
  <2>1. /\ ladder["session2"][1] = 0 /\ ladder["session2"][2] = 60 /\ ladder["session2"][3] = 61
        /\ ladder["session2"][4] = Monitoring!NotConfigured
    BY <1>1
  <2>2. ChecksOnFour(ladder, l, x, y, "session2")
    BY <1>2, <1>3, ChecksFour, Zenon
  <2>3. /\ \/ x.session2 = 0 /\ y.session2 \in {0, 60, 61, Monitoring!NotConfigured}
           \/ x.session2 = 60 /\ y.session2 \in {60, 61, Monitoring!NotConfigured}
           \/ x.session2 = 61 /\ y.session2 \in {61, Monitoring!NotConfigured}
           \/ x.session2 = Monitoring!NotConfigured /\ y.session2 \in {Monitoring!NotConfigured}
        /\ ChecksBad(ladder, l, "session2") => x.session2 = Monitoring!NotConfigured
    BY <2>1, <2>2 DEF ChecksOnFour
  <2> QED
    BY <2>3 DEF Monitoring!NotConfigured
<1>6. /\ Monitoring!Exit(check, given, x) = Monitoring!check_bgp_sessions(x)
      /\ Monitoring!Exit(check, given, y) = Monitoring!check_bgp_sessions(y)
  BY DEF Monitoring!Exit
<1>7. Monitoring!check_bgp_sessions(x) <= Monitoring!check_bgp_sessions(y)
  BY <1>4, <1>5 DEF Monitoring!check_bgp_sessions, Monitoring!NotConfigured, Monitoring!exit_code
<1>8. Monitoring!check_bgp_sessions(x) = 0 =>
          x.session1 # Monitoring!NotConfigured /\ x.session2 # Monitoring!NotConfigured
  BY <1>4, <1>5 DEF Monitoring!check_bgp_sessions, Monitoring!NotConfigured, Monitoring!exit_code
<1> QED
  BY <1>2, <1>4, <1>5, <1>6, <1>7, <1>8, Zenon DEF ChecksPromise

\* check_tls_cert: a certificate that is missing or about to expire.
LEMMA ChecksTls ==
  ASSUME check = "tls", NEW ladder, ladder = Monitoring!Ladder(check),
         NEW l, NEW m, NEW x, NEW y, ChecksClimb(ladder, l, m, x, y)
  PROVE  ChecksPromise(ladder, l, x, y)
<1>1. ladder = [file |-> Monitoring!Works, days |-> <<26, 25, 14, 0>>]
  BY DEF Monitoring!Ladder
<1>2. DOMAIN ladder = {"file", "days"}
  BY <1>1
<1>3. /\ Len(ladder["file"]) = 2 /\ Len(ladder["days"]) = 4
  BY <1>1 DEF Monitoring!Works
<1>4. /\ y.file => x.file
      /\ ChecksBad(ladder, l, "file") => ~x.file
  BY <1>1, ChecksFlags
<1>5. /\ x.days \in Int /\ y.days \in Int /\ y.days <= x.days
      /\ ChecksBad(ladder, l, "days") => x.days = 0
  <2>1. /\ ladder["days"][1] = 26 /\ ladder["days"][2] = 25 /\ ladder["days"][3] = 14
        /\ ladder["days"][4] = 0
    BY <1>1
  <2>2. ChecksOnFour(ladder, l, x, y, "days")
    BY <1>2, <1>3, ChecksFour, Zenon
  <2>3. /\ \/ x.days = 26 /\ y.days \in {26, 25, 14, 0}
           \/ x.days = 25 /\ y.days \in {25, 14, 0}
           \/ x.days = 14 /\ y.days \in {14, 0}
           \/ x.days = 0 /\ y.days \in {0}
        /\ ChecksBad(ladder, l, "days") => x.days = 0
    BY <2>1, <2>2 DEF ChecksOnFour
  <2> QED
    BY <2>3
<1>6. /\ Monitoring!Exit(check, given, x) = Monitoring!check_certificate(x)
      /\ Monitoring!Exit(check, given, y) = Monitoring!check_certificate(y)
  BY DEF Monitoring!Exit
<1>7. Monitoring!check_certificate(x) <= Monitoring!check_certificate(y)
  BY <1>4, <1>5 DEF Monitoring!check_certificate, Monitoring!exit_code
<1>8. Monitoring!check_certificate(x) = 0 => x.file /\ x.days # 0
  BY <1>4, <1>5 DEF Monitoring!check_certificate, Monitoring!exit_code
<1> QED
  BY <1>2, <1>4, <1>5, <1>6, <1>7, <1>8, Zenon DEF ChecksPromise

\* check_mongodb: what can be asked at all comes first, then one of two actions.
LEMMA ChecksMongodb ==
  ASSUME check = "mongodb", given \in Monitoring!Given(check), NEW ladder,
         ladder = Monitoring!Ladder(check),
         NEW l, NEW m, NEW x, NEW y, ChecksClimb(ladder, l, m, x, y)
  PROVE  ChecksPromise(ladder, l, x, y)
<1>1. ladder = [password |-> Monitoring!Works, ping |-> Monitoring!Works,
                seconds |-> <<0, 3, 6>>, parameter |-> Monitoring!Works,
                older |-> Monitoring!Appears]
  BY DEF Monitoring!Ladder
<1>2. DOMAIN ladder = {"password", "ping", "seconds", "parameter", "older"}
  BY <1>1
<1>3. /\ Len(ladder["password"]) = 2 /\ Len(ladder["ping"]) = 2 /\ Len(ladder["seconds"]) = 3
      /\ Len(ladder["parameter"]) = 2 /\ Len(ladder["older"]) = 2
  BY <1>1 DEF Monitoring!Works, Monitoring!Appears
<1>4. /\ y.password => x.password
      /\ ChecksBad(ladder, l, "password") => ~x.password
  BY <1>1, ChecksFlags
<1>5. /\ y.ping => x.ping
      /\ ChecksBad(ladder, l, "ping") => ~x.ping
  BY <1>1, ChecksFlags
<1>6. /\ x.seconds \in Int /\ y.seconds \in Int /\ x.seconds <= y.seconds
      /\ ChecksBad(ladder, l, "seconds") => x.seconds = 6
  <2>1. /\ ladder["seconds"][1] = 0 /\ ladder["seconds"][2] = 3 /\ ladder["seconds"][3] = 6
    BY <1>1
  <2>2. ChecksOnThree(ladder, l, x, y, "seconds")
    BY <1>2, <1>3, ChecksThree, Zenon
  <2>3. /\ \/ x.seconds = 0 /\ y.seconds \in {0, 3, 6}
           \/ x.seconds = 3 /\ y.seconds \in {3, 6}
           \/ x.seconds = 6 /\ y.seconds \in {6}
        /\ ChecksBad(ladder, l, "seconds") => x.seconds = 6
    BY <2>1, <2>2 DEF ChecksOnThree
  <2> QED
    BY <2>3
<1>7. /\ y.parameter => x.parameter
      /\ ChecksBad(ladder, l, "parameter") => ~x.parameter
  BY <1>1, ChecksFlags
<1>8. /\ x.older => y.older
      /\ ChecksBad(ladder, l, "older") => x.older
  BY <1>1, ChecksFlags
<1>9. /\ Monitoring!Exit(check, given, x) = Monitoring!check_mongodb(given, x)
      /\ Monitoring!Exit(check, given, y) = Monitoring!check_mongodb(given, y)
  BY DEF Monitoring!Exit
<1>10. /\ Monitoring!Watched("seconds") => given.action = "connect"
       /\ Monitoring!Watched("parameter") => given.action # "connect"
       /\ Monitoring!Watched("older") => given.action # "connect"
  BY DEF Monitoring!Watched
<1>11. Monitoring!check_mongodb(given, x) <= Monitoring!check_mongodb(given, y)
  BY <1>4, <1>5, <1>6, <1>7, <1>8 DEF Monitoring!check_mongodb, Monitoring!check_levels,
     Monitoring!check_feature_compat_version, Monitoring!exit_code
<1>12. Monitoring!check_mongodb(given, x) = 0 =>
        /\ x.password /\ x.ping /\ (given.action = "connect" => x.seconds # 6)
        /\ (given.action # "connect" => x.parameter)
        /\ (given.action # "connect" => ~x.older)
  BY <1>4, <1>5, <1>6, <1>7, <1>8 DEF Monitoring!check_mongodb, Monitoring!check_levels,
     Monitoring!check_feature_compat_version, Monitoring!exit_code
<1> QED
  BY <1>2, <1>4, <1>5, <1>6, <1>7, <1>8, <1>9, <1>11, <1>12, <1>10, Zenon DEF ChecksPromise

\* check_skvaider: every model and every kind of answer.
LEMMA ChecksSkvaider ==
  ASSUME check = "skvaider", NEW ladder, ladder = Monitoring!Ladder(check),
         NEW l, NEW m, NEW x, NEW y, ChecksClimb(ladder, l, m, x, y)
  PROVE  ChecksPromise(ladder, l, x, y)
<1>1. ladder = [models |-> <<"four", "few", "none">>, details |-> Monitoring!Works,
                chat |-> Monitoring!Works, completions |-> Monitoring!Works,
                embeddings |-> Monitoring!Works]
  BY DEF Monitoring!Ladder
<1>2. DOMAIN ladder = {"models", "details", "chat", "completions", "embeddings"}
  BY <1>1
<1>3. /\ Len(ladder["models"]) = 3 /\ Len(ladder["details"]) = 2 /\ Len(ladder["chat"]) = 2
      /\ Len(ladder["completions"]) = 2 /\ Len(ladder["embeddings"]) = 2
  BY <1>1 DEF Monitoring!Works
<1>4. /\ \/ x.models = "four" /\ y.models \in {"four", "few", "none"}
         \/ x.models = "few" /\ y.models \in {"few", "none"}
         \/ x.models = "none" /\ y.models \in {"none"}
      /\ ChecksBad(ladder, l, "models") => x.models = "none"
  <2>1. /\ ladder["models"][1] = "four" /\ ladder["models"][2] = "few"
        /\ ladder["models"][3] = "none"
    BY <1>1
  <2>2. ChecksOnThree(ladder, l, x, y, "models")
    BY <1>2, <1>3, ChecksThree, Zenon
  <2> QED
    BY <2>1, <2>2 DEF ChecksOnThree
<1>5. /\ y.details => x.details
      /\ ChecksBad(ladder, l, "details") => ~x.details
  BY <1>1, ChecksFlags
<1>6. /\ y.chat => x.chat
      /\ ChecksBad(ladder, l, "chat") => ~x.chat
  BY <1>1, ChecksFlags
<1>7. /\ y.completions => x.completions
      /\ ChecksBad(ladder, l, "completions") => ~x.completions
  BY <1>1, ChecksFlags
<1>8. /\ y.embeddings => x.embeddings
      /\ ChecksBad(ladder, l, "embeddings") => ~x.embeddings
  BY <1>1, ChecksFlags
<1>9. /\ Monitoring!Exit(check, given, x) = Monitoring!check_skvaider(x)
      /\ Monitoring!Exit(check, given, y) = Monitoring!check_skvaider(y)
  BY DEF Monitoring!Exit
<1>10. Monitoring!check_skvaider(x) <= Monitoring!check_skvaider(y)
  BY <1>4, <1>5, <1>6, <1>7, <1>8 DEF Monitoring!check_skvaider, Monitoring!check_model_details,
     Monitoring!exit_code
<1>11. Monitoring!check_skvaider(x) = 0 =>
        /\ x.models # "none" /\ x.details /\ x.chat /\ x.completions
        /\ x.embeddings
  BY <1>4, <1>5, <1>6, <1>7, <1>8 DEF Monitoring!check_skvaider, Monitoring!check_model_details,
     Monitoring!exit_code
<1> QED
  BY <1>2, <1>4, <1>5, <1>6, <1>7, <1>8, <1>9, <1>10, <1>11, Zenon DEF ChecksPromise

\* The check of the neighbour caches: overflows if there is a state file, and entries.
LEMMA ChecksNeighbours ==
  ASSUME check = "neighbours", given \in Monitoring!Given(check), NEW ladder,
         ladder = Monitoring!Ladder(check),
         NEW l, NEW m, NEW x, NEW y, ChecksClimb(ladder, l, m, x, y)
  PROVE  ChecksPromise(ladder, l, x, y)
<1>1. ladder = [overflows4 |-> <<0, 1>>, overflows6 |-> <<0, 1>>, entries4 |-> <<30, 31, 51>>,
                entries6 |-> <<30, 31, 51>>]
  BY DEF Monitoring!Ladder
<1>2. DOMAIN ladder = {"overflows4", "overflows6", "entries4", "entries6"}
  BY <1>1
<1>3. /\ Len(ladder["overflows4"]) = 2 /\ Len(ladder["overflows6"]) = 2
      /\ Len(ladder["entries4"]) = 3
      /\ Len(ladder["entries6"]) = 3
  BY <1>1
<1>4. /\ x.overflows4 \in Int /\ y.overflows4 \in Int /\ x.overflows4 <= y.overflows4
      /\ ChecksBad(ladder, l, "overflows4") => x.overflows4 = 1
  <2>1. /\ ladder["overflows4"][1] = 0 /\ ladder["overflows4"][2] = 1
    BY <1>1
  <2>2. ChecksOnTwo(ladder, l, x, y, "overflows4")
    BY <1>2, <1>3, ChecksTwo, Zenon
  <2>3. /\ \/ x.overflows4 = 0 /\ y.overflows4 \in {0, 1}
           \/ x.overflows4 = 1 /\ y.overflows4 \in {1}
        /\ ChecksBad(ladder, l, "overflows4") => x.overflows4 = 1
    BY <2>1, <2>2 DEF ChecksOnTwo
  <2> QED
    BY <2>3
<1>5. /\ x.overflows6 \in Int /\ y.overflows6 \in Int /\ x.overflows6 <= y.overflows6
      /\ ChecksBad(ladder, l, "overflows6") => x.overflows6 = 1
  <2>1. /\ ladder["overflows6"][1] = 0 /\ ladder["overflows6"][2] = 1
    BY <1>1
  <2>2. ChecksOnTwo(ladder, l, x, y, "overflows6")
    BY <1>2, <1>3, ChecksTwo, Zenon
  <2>3. /\ \/ x.overflows6 = 0 /\ y.overflows6 \in {0, 1}
           \/ x.overflows6 = 1 /\ y.overflows6 \in {1}
        /\ ChecksBad(ladder, l, "overflows6") => x.overflows6 = 1
    BY <2>1, <2>2 DEF ChecksOnTwo
  <2> QED
    BY <2>3
<1>6. /\ x.entries4 \in Int /\ y.entries4 \in Int /\ x.entries4 <= y.entries4
      /\ ChecksBad(ladder, l, "entries4") => x.entries4 = 51
  <2>1. /\ ladder["entries4"][1] = 30 /\ ladder["entries4"][2] = 31 /\ ladder["entries4"][3] = 51
    BY <1>1
  <2>2. ChecksOnThree(ladder, l, x, y, "entries4")
    BY <1>2, <1>3, ChecksThree, Zenon
  <2>3. /\ \/ x.entries4 = 30 /\ y.entries4 \in {30, 31, 51}
           \/ x.entries4 = 31 /\ y.entries4 \in {31, 51}
           \/ x.entries4 = 51 /\ y.entries4 \in {51}
        /\ ChecksBad(ladder, l, "entries4") => x.entries4 = 51
    BY <2>1, <2>2 DEF ChecksOnThree
  <2> QED
    BY <2>3
<1>7. /\ x.entries6 \in Int /\ y.entries6 \in Int /\ x.entries6 <= y.entries6
      /\ ChecksBad(ladder, l, "entries6") => x.entries6 = 51
  <2>1. /\ ladder["entries6"][1] = 30 /\ ladder["entries6"][2] = 31 /\ ladder["entries6"][3] = 51
    BY <1>1
  <2>2. ChecksOnThree(ladder, l, x, y, "entries6")
    BY <1>2, <1>3, ChecksThree, Zenon
  <2>3. /\ \/ x.entries6 = 30 /\ y.entries6 \in {30, 31, 51}
           \/ x.entries6 = 31 /\ y.entries6 \in {31, 51}
           \/ x.entries6 = 51 /\ y.entries6 \in {51}
        /\ ChecksBad(ladder, l, "entries6") => x.entries6 = 51
    BY <2>1, <2>2 DEF ChecksOnThree
  <2> QED
    BY <2>3
<1>8. /\ Monitoring!Exit(check, given, x) = Monitoring!check_neighbours(given, x)
      /\ Monitoring!Exit(check, given, y) = Monitoring!check_neighbours(given, y)
  BY DEF Monitoring!Exit
<1>9. /\ Monitoring!Watched("overflows4") => given.state
      /\ Monitoring!Watched("overflows6") => given.state
  BY DEF Monitoring!Watched
<1>10. /\ Monitoring!Max({x.entries4, x.entries6})
                = IF x.entries4 >= x.entries6 THEN x.entries4 ELSE x.entries6
       /\ Monitoring!Max({y.entries4, y.entries6})
                = IF y.entries4 >= y.entries6 THEN y.entries4 ELSE y.entries6
  BY <1>6, <1>7, ChecksMax
<1>11. Monitoring!check_neighbours(given, x) <= Monitoring!check_neighbours(given, y)
  BY <1>4, <1>5, <1>6, <1>7, <1>10 DEF Monitoring!check_neighbours, Monitoring!Above,
     Monitoring!exit_code
<1>12. Monitoring!check_neighbours(given, x) = 0 =>
           (given.state => x.overflows4 # 1) /\ (given.state => x.overflows6 # 1)
                    /\ x.entries4 # 51 /\ x.entries6 # 51
  BY <1>4, <1>5, <1>6, <1>7, <1>10 DEF Monitoring!check_neighbours, Monitoring!Above,
     Monitoring!exit_code
<1> QED
  BY <1>2, <1>4, <1>5, <1>6, <1>7, <1>8, <1>11, <1>12, <1>9, Zenon DEF ChecksPromise

\* check_cpu_steal.
LEMMA ChecksSteal ==
  ASSUME check = "steal", NEW ladder, ladder = Monitoring!Ladder(check),
         NEW l, NEW m, NEW x, NEW y, ChecksClimb(ladder, l, m, x, y)
  PROVE  ChecksPromise(ladder, l, x, y)
<1>1. ladder = [data |-> Monitoring!Works, steal |-> <<0, 10, 15>>]
  BY DEF Monitoring!Ladder
<1>2. DOMAIN ladder = {"data", "steal"}
  BY <1>1
<1>3. /\ Len(ladder["data"]) = 2 /\ Len(ladder["steal"]) = 3
  BY <1>1 DEF Monitoring!Works
<1>4. /\ y.data => x.data
      /\ ChecksBad(ladder, l, "data") => ~x.data
  BY <1>1, ChecksFlags
<1>5. /\ x.steal \in Int /\ y.steal \in Int /\ x.steal <= y.steal
      /\ ChecksBad(ladder, l, "steal") => x.steal = 15
  <2>1. /\ ladder["steal"][1] = 0 /\ ladder["steal"][2] = 10 /\ ladder["steal"][3] = 15
    BY <1>1
  <2>2. ChecksOnThree(ladder, l, x, y, "steal")
    BY <1>2, <1>3, ChecksThree, Zenon
  <2>3. /\ \/ x.steal = 0 /\ y.steal \in {0, 10, 15}
           \/ x.steal = 10 /\ y.steal \in {10, 15}
           \/ x.steal = 15 /\ y.steal \in {15}
        /\ ChecksBad(ladder, l, "steal") => x.steal = 15
    BY <2>1, <2>2 DEF ChecksOnThree
  <2> QED
    BY <2>3
<1>6. /\ Monitoring!Exit(check, given, x) = Monitoring!check_cpu_steal(x)
      /\ Monitoring!Exit(check, given, y) = Monitoring!check_cpu_steal(y)
  BY DEF Monitoring!Exit
<1>7. Monitoring!check_cpu_steal(x) <= Monitoring!check_cpu_steal(y)
  BY <1>4, <1>5 DEF Monitoring!check_cpu_steal, Monitoring!Guarded, Monitoring!exit_code
<1>8. Monitoring!check_cpu_steal(x) = 0 => x.data /\ x.steal # 15
  BY <1>4, <1>5 DEF Monitoring!check_cpu_steal, Monitoring!Guarded, Monitoring!exit_code
<1> QED
  BY <1>2, <1>4, <1>5, <1>6, <1>7, <1>8, Zenon DEF ChecksPromise

\* check_vrf_default_routes.
LEMMA ChecksRoutes ==
  ASSUME check = "routes", NEW ladder, ladder = Monitoring!Ladder(check),
         NEW l, NEW m, NEW x, NEW y, ChecksClimb(ladder, l, m, x, y)
  PROVE  ChecksPromise(ladder, l, x, y)
<1>1. ladder = [default4 |-> Monitoring!Works, default6 |-> Monitoring!Works]
  BY DEF Monitoring!Ladder
<1>2. DOMAIN ladder = {"default4", "default6"}
  BY <1>1
<1>3. /\ Len(ladder["default4"]) = 2 /\ Len(ladder["default6"]) = 2
  BY <1>1 DEF Monitoring!Works
<1>4. /\ y.default4 => x.default4
      /\ ChecksBad(ladder, l, "default4") => ~x.default4
  BY <1>1, ChecksFlags
<1>5. /\ y.default6 => x.default6
      /\ ChecksBad(ladder, l, "default6") => ~x.default6
  BY <1>1, ChecksFlags
<1>6. /\ Monitoring!Exit(check, given, x) = Monitoring!check_vrf_default_routes(x)
      /\ Monitoring!Exit(check, given, y) = Monitoring!check_vrf_default_routes(y)
  BY DEF Monitoring!Exit
<1>7. Monitoring!check_vrf_default_routes(x) <= Monitoring!check_vrf_default_routes(y)
  BY <1>4, <1>5 DEF Monitoring!check_vrf_default_routes, Monitoring!exit_code
<1>8. Monitoring!check_vrf_default_routes(x) = 0 => x.default4 /\ x.default6
  BY <1>4, <1>5 DEF Monitoring!check_vrf_default_routes, Monitoring!exit_code
<1> QED
  BY <1>2, <1>4, <1>5, <1>6, <1>7, <1>8, Zenon DEF ChecksPromise

\* All checks but one promise this of two findings of which the second is no better.
LEMMA ChecksAll ==
  ASSUME check \in Monitoring!Deployed \ {"maintenance"}, given \in Monitoring!Given(check),
         NEW ladder, ladder = Monitoring!Ladder(check),
         NEW l, NEW m, NEW x, NEW y, ChecksClimb(ladder, l, m, x, y)
  PROVE  ChecksPromise(ladder, l, x, y)
<1>1. check \in {"manage", "slurm", "unit", "units", "snapshots"} => ChecksPromise(ladder, l, x, y)
  BY ChecksManage, ChecksSlurm, ChecksUnit, ChecksUnits, ChecksSnapshots
<1>2. check \in {"cluster", "luks", "megaraid", "disk", "interfaces"} => ChecksPromise(ladder, l, x, y)
  BY ChecksCluster, ChecksLuks, ChecksMegaraid, ChecksDisk, ChecksInterfaces
<1>3. check \in {"lvm", "clamav", "bgp", "tls", "mongodb"} => ChecksPromise(ladder, l, x, y)
  BY ChecksLvm, ChecksClamav, ChecksBgp, ChecksTls, ChecksMongodb
<1>4. check \in {"skvaider", "neighbours", "steal", "routes"} => ChecksPromise(ladder, l, x, y)
  BY ChecksSkvaider, ChecksNeighbours, ChecksSteal, ChecksRoutes
<1> QED
  BY <1>1, <1>2, <1>3, <1>4 DEF Monitoring!Deployed

\* So none is OK when a fact is as bad as it gets, ...
LEMMA ChecksAlarmed ==
  ASSUME CommandsAssumption, "maintenance" \notin Check, ChecksKinds
  PROVE  Monitoring!Alarmed
<1>1. check \in Monitoring!Deployed \ {"maintenance"} /\ given \in Monitoring!Given(check)
  BY CommandsAssumption DEF ChecksKinds, CommandsAssumption, Monitoring!ChecksAssumption
<1>2. PICK ladder, x : ladder = Monitoring!Ladder(check) /\ x = Monitoring!Found
  OBVIOUS
<1>3. ChecksClimb(ladder, level, level, x, x)
  BY <1>2 DEF ChecksKinds, ChecksClimb, Monitoring!Facts, Monitoring!Found
<1>4. ChecksPromise(ladder, level, x, x)
  BY <1>1, <1>2, <1>3, ChecksAll, Zenon
<1> QED
  BY <1>2, <1>4 DEF Monitoring!Alarmed, ChecksPromise, ChecksBad, Monitoring!Facts

\* ... and none gets better as facts get worse that it goes on looking at.
LEMMA ChecksNever ==
  ASSUME CommandsAssumption, "maintenance" \notin Check, ChecksKinds,
         [Monitoring!Next]_(Monitoring!vars)
  PROVE  Monitoring!NeverBetter
<1> SUFFICES ASSUME given' = given, \A f \in Monitoring!Facts : level'[f] >= level[f]
             PROVE  Monitoring!Exit(check, given, Monitoring!Found)'
                      >= Monitoring!Exit(check, given, Monitoring!Found)
  BY DEF Monitoring!NeverBetter
<1>1. check \in Monitoring!Deployed \ {"maintenance"} /\ given \in Monitoring!Given(check)
  BY CommandsAssumption DEF ChecksKinds, CommandsAssumption, Monitoring!ChecksAssumption
<1>2. PICK ladder, m, x, y : /\ ladder = Monitoring!Ladder(check) /\ m = level'
                             /\ x = Monitoring!Found /\ y = Monitoring!Found'
  OBVIOUS
<1>3. check' = check /\ given' = given
  BY DEF Monitoring!Next, Monitoring!Worsen, Monitoring!Ask, Monitoring!Reconfigure, Monitoring!vars
<1>4. /\ x = [f \in DOMAIN ladder |-> ladder[f][level[f]]]
      /\ y = [f \in DOMAIN ladder |-> ladder[f][m[f]]]
  BY <1>2, <1>3 DEF Monitoring!Facts, Monitoring!Found
<1>5. ChecksKinds'
  BY ChecksKindsStep
<1>6. \A f \in DOMAIN ladder : /\ level[f] \in 1 .. Len(ladder[f]) /\ m[f] \in 1 .. Len(ladder[f])
                               /\ level[f] <= m[f]
  <2>1. \A f \in DOMAIN ladder : level[f] \in 1 .. Len(ladder[f]) /\ m[f] \in 1 .. Len(ladder[f])
    BY <1>2, <1>3, <1>5 DEF ChecksKinds, Monitoring!Facts
  <2>2. \A f \in DOMAIN ladder : level[f] <= m[f]
    BY <1>2, <2>1 DEF Monitoring!Facts
  <2> QED
    BY <2>1, <2>2
<1>7. ChecksClimb(ladder, level, m, x, y)
  BY <1>4, <1>6 DEF ChecksClimb
<1>8. ChecksPromise(ladder, level, x, y)
  BY <1>1, <1>2, <1>7, ChecksAll, Zenon
<1>9. /\ Monitoring!Exit(check, given, Monitoring!Found)' = Monitoring!Exit(check, given, y)
      /\ Monitoring!Exit(check, given, Monitoring!Found) = Monitoring!Exit(check, given, x)
  BY <1>2, <1>3, Zenon
<1>10. Monitoring!Exit(check, given, x) \in Int /\ Monitoring!Exit(check, given, y) \in Int
  BY <1>1, ChecksExit
<1> QED
  BY <1>8, <1>9, <1>10 DEF ChecksPromise

---------------------------------------------------------------------------
(***************************************************************************)
(* What a check of the routes says, for any set of tunnel endpoints.       *)
(***************************************************************************)

\* The tables have their types.
RoutesInv == Routes!TypeOK

\* The invariant of the tables is inductive.
LEMMA RoutesStep ==
  /\ Routes!Init => RoutesInv
  /\ RoutesInv /\ [Routes!Next]_(Routes!vars) => RoutesInv'
<1>1. ASSUME Routes!Init
      PROVE  RoutesInv
  <2>1. zebra = Routes!None /\ another \in BOOLEAN
    BY <1>1 DEF Routes!Init
  <2>2. CASE table = "unicast" /\ kernel = {} /\ bgp = [p \in Routes!Peers |-> Routes!NoPath]
    <3>1. Routes!NoPath \in Routes!Path
      BY DEF Routes!NoPath, Routes!Path
    <3>2. Routes!Kernel[table] = SUBSET Vtep /\ Routes!Zebra[table] = {Routes!None}
          /\ Routes!Bgp[table] = [Routes!Peers -> Routes!Path]
      BY <2>2 DEF Routes!Kernel, Routes!Zebra, Routes!Bgp
    <3> QED
      BY <2>1, <2>2, <3>1, <3>2 DEF RoutesInv, Routes!TypeOK
  <2>3. CASE /\ table = "evpn" /\ bgp = <<>>
             /\ kernel = [local |-> Routes!None, host |-> FALSE, vxlan |-> FALSE, dst |-> Routes!None]
    <3>1. kernel \in Routes!Fdb
      BY <2>3 DEF Routes!Fdb
    <3>2. bgp \in Routes!Bests
      <4>1. bgp \in [1 .. 0 -> Routes!Best]
        BY <2>3
      <4>2. 0 \in 0 .. Routes!MaxDistinguishers
        BY DEF Routes!MaxDistinguishers
      <4> QED
        BY <4>1, <4>2 DEF Routes!Bests
    <3>3. Routes!Kernel[table] = Routes!Fdb /\ Routes!None \in Routes!Zebra[table]
          /\ Routes!Bgp[table] = Routes!Bests
      BY <2>3 DEF Routes!Kernel, Routes!Zebra, Routes!Bgp
    <3> QED
      BY <2>1, <2>3, <3>1, <3>2, <3>3 DEF RoutesInv, Routes!TypeOK
  <2>4. CASE table = "kvm" /\ kernel = {} /\ bgp = [rd |-> TRUE, routes |-> {}]
    <3>1. bgp \in Routes!Guests
      BY <2>4 DEF Routes!Guests
    <3>2. Routes!Kernel[table] = SUBSET Vtep /\ Routes!Zebra[table] = {Routes!None}
          /\ Routes!Bgp[table] = Routes!Guests
      BY <2>4 DEF Routes!Kernel, Routes!Zebra, Routes!Bgp
    <3> QED
      BY <2>1, <2>4, <3>1, <3>2 DEF RoutesInv, Routes!TypeOK
  <2> QED
    BY <1>1, <2>2, <2>3, <2>4 DEF Routes!Init
<1>2. RoutesInv /\ [Routes!Next]_(Routes!vars) => RoutesInv'
  BY DEF Routes!Next, Routes!vars, Routes!ChangeKernel, Routes!ChangeZebra, Routes!ChangeBgp,
         RoutesInv, Routes!TypeOK, Routes!Bgp
<1> QED
  BY <1>1, <1>2

\* A check that is OK has found that they agree.
LEMMA RoutesAlarmed == CommandsAssumption /\ RoutesInv => Routes!Alarmed
<1> SUFFICES ASSUME CommandsAssumption, RoutesInv, Routes!Exit = 0
             PROVE  IF table = "evpn" THEN zebra = Routes!Forwards /\ Routes!Leads(Routes!Forwards)
                                  ELSE Routes!Forwards = Routes!Announced
  BY DEF Routes!Alarmed
<1>1. CASE table = "unicast"
  <2>1. Routes!check_unicast_rib = 0
    BY <1>1 DEF Routes!Exit
  <2> DEFINE rib == UNION {bgp[p].used : p \in Routes!Chosen}
  <2>2. (Routes!Chosen # {} <=> kernel # {}) /\ (Routes!Chosen # {} => rib = kernel)
    BY <2>1 DEF Routes!check_unicast_rib
  <2>3. kernel = rib
    BY <2>2
  <2>4. bgp \in [Routes!Peers -> Routes!Path]
    BY <1>1 DEF RoutesInv, Routes!TypeOK, Routes!Bgp
  <2>5. \A p \in Routes!Chosen : bgp[p].used \subseteq Vtep
    BY <2>4 DEF Routes!Chosen, Routes!Path
  <2>6. rib = {h \in Vtep : \E p \in Routes!Chosen : h \in bgp[p].used}
    BY <2>5
  <2>7. Routes!Announced = {h \in Vtep : \E p \in Routes!Chosen : h \in bgp[p].used}
    BY <1>1 DEF Routes!Announced, Routes!Chosen
  <2> QED
    BY <1>1, <2>3, <2>6, <2>7 DEF Routes!Forwards
<1>2. CASE table = "kvm"
  <2>1. Routes!check_kvm_vrf_integrity = 0
    BY <1>2 DEF Routes!Exit
  <2>2. kernel \ bgp.routes = {} /\ bgp.routes \ kernel = {}
    BY <2>1 DEF Routes!check_kvm_vrf_integrity
  <2>3. kernel = bgp.routes
    BY <2>2
  <2>4. Routes!Forwards = kernel /\ Routes!Announced = bgp.routes
    BY <1>2 DEF Routes!Forwards, Routes!Announced
  <2> QED
    BY <1>2, <2>3, <2>4
<1>3. CASE table = "evpn"
  <2>1. Routes!check_evpn_rib = 0
    BY <1>3 DEF Routes!Exit
  <2>2. /\ kernel \in Routes!Fdb /\ zebra \in {Routes!None} \cup Routes!Ports \cup Vtep
        /\ \E n \in 0 .. Routes!MaxDistinguishers : bgp \in [1 .. n -> Routes!Best]
    BY <1>3 DEF RoutesInv, Routes!TypeOK, Routes!Kernel, Routes!Zebra, Routes!Bgp, Routes!Bests
  <2> DEFINE remote == IF kernel.vxlan THEN kernel.dst ELSE Routes!None
             zlocal == IF zebra \in Routes!Ports THEN zebra ELSE Routes!None
             zremote == IF zebra \in Vtep THEN zebra ELSE Routes!None
             hops == IF bgp = <<>> THEN {} ELSE bgp[Len(bgp)].hops
  <2>3. /\ kernel.local = zlocal /\ remote = zremote
        /\ (bgp # <<>> /\ hops = {}) <=> kernel.local # Routes!None
        /\ hops = {remote} \ {Routes!None}
    <3>1. /\ Routes!bridge_macs = Routes!zebra_macs
          /\ Routes!bgpd_macs.local = (Routes!bridge_macs.local # Routes!None)
          /\ Routes!bgpd_macs.remote = {Routes!bridge_macs.remote} \ {Routes!None}
      <4> DEFINE crash == \/ bgp = <<>> /\ ~another
                          \/ Routes!Cardinality(Routes!bgpd_macs.remote) > 1
                 mismatch == \/ Routes!bridge_macs # Routes!zebra_macs
                             \/ Routes!bgpd_macs.local # (Routes!bridge_macs.local # Routes!None)
                             \/ Routes!bgpd_macs.remote # {Routes!bridge_macs.remote} \ {Routes!None}
      <4>1. Routes!check_evpn_rib = IF crash THEN 1 ELSE IF mismatch THEN 2 ELSE 0
        BY Zenon DEF Routes!check_evpn_rib
      <4> HIDE DEF crash, mismatch
      <4>2. ~mismatch
        BY <2>1, <4>1
      <4> QED
        BY <4>2, Zenon DEF mismatch
    <3>2. /\ Routes!bridge_macs.local = kernel.local /\ Routes!bridge_macs.remote = remote
          /\ Routes!zebra_macs.local = zlocal /\ Routes!zebra_macs.remote = zremote
      BY DEF Routes!bridge_macs, Routes!zebra_macs
    <3>3. /\ Routes!bgpd_macs.local = (bgp # <<>> /\ hops = {})
          /\ Routes!bgpd_macs.remote = hops
      BY DEF Routes!bgpd_macs
    <3>4. (bgp # <<>> /\ hops = {}) = (kernel.local # Routes!None)
      BY <3>1, <3>2, <3>3, Zenon
    <3>5. (bgp # <<>> /\ hops = {}) <=> kernel.local # Routes!None
      BY <3>4
    <3> QED
      BY <3>1, <3>2, <3>3, <3>5
  <2>4. /\ Routes!None \notin Vtep /\ Routes!None \notin Routes!Ports /\ Vtep \cap Routes!Ports = {}
    BY DEF CommandsAssumption, Routes!RoutesAssumption, Routes!None, Routes!Ports
  <2>5. Routes!Forwards = zebra
    BY <1>3, <2>2, <2>3, <2>4 DEF Routes!Forwards, Routes!Fdb
  <2>6. bgp # <<>> => Len(bgp) \in DOMAIN bgp /\ bgp[Len(bgp)].hops = hops
    <3>1. PICK n \in 0 .. Routes!MaxDistinguishers : bgp \in [1 .. n -> Routes!Best]
      BY <2>2
    <3>2. n \in Nat
      BY <3>1 DEF Routes!MaxDistinguishers
    <3> QED
      BY <3>1, <3>2
  <2>7. CASE zebra = Routes!None
    <3>1. bgp = <<>>
      BY <2>3, <2>4, <2>7
    <3> QED
      BY <1>3, <2>5, <2>7, <3>1 DEF Routes!Leads
  <2>8. CASE zebra \in Routes!Ports
    <3>1. bgp # <<>> /\ hops = {}
      BY <2>3, <2>4, <2>8
    <3> QED
      BY <1>3, <2>4, <2>5, <2>6, <2>8, <3>1 DEF Routes!Leads
  <2>9. CASE zebra \in Vtep
    <3>1. hops = {zebra}
      BY <2>3, <2>4, <2>9
    <3>2. bgp # <<>>
      BY <3>1
    <3> QED
      BY <1>3, <2>4, <2>5, <2>6, <2>9, <3>1, <3>2 DEF Routes!Leads
  <2> QED
    BY <1>3, <2>2, <2>5, <2>7, <2>8, <2>9
<1> QED
  BY <1>1, <1>2, <1>3 DEF RoutesInv, Routes!TypeOK

---------------------------------------------------------------------------
(***************************************************************************)
(* A behaviour is about one command all the time. What holds of the        *)
(* command holds of it.                                                    *)
(***************************************************************************)

\* The step of a behaviour is one of its command.
LEMMA StepOfOne ==
  ASSUME [Next]_vars
  PROVE  /\ tool' = tool
         /\ tool = "postgres" => [Postgres!Next]_(Postgres!vars)
         /\ tool = "devhost" => [Vms!Next]_(Vms!vars)
         /\ tool = "osd" => [Osds!Next]_(Osds!vars)
         /\ tool = "luks" => [Luks!Next]_(Luks!vars)
         /\ tool = "images" => [Images!Next]_(Images!vars)
         /\ tool = "s3" => [S3!Next]_(S3!vars)
         /\ tool = "keys" => [Keys!Next]_(Keys!vars)
         /\ tool = "checks" => [Monitoring!Next]_(Monitoring!vars)
         /\ tool = "routes" => [Routes!Next]_(Routes!vars)
<1>1. CASE UNCHANGED vars
  BY <1>1
  DEF vars, postgres, Postgres!vars, Postgres!markers, Postgres!service,
      devhost, osd, luks, images, s3, keys, routes, Vms!vars, Vms!files, Vms!images,
      Osds!vars, Osds!cluster, Osds!volumes, Luks!vars, Luks!slots, Images!vars, S3!vars, Keys!vars,
      Routes!vars, checks, Monitoring!vars
<1>2. CASE Next
  BY <1>2 DEF Next, PostgresNext, DevhostNext, OsdNext, LuksNext, ImagesNext, S3Next, KeysNext,
     ChecksNext, RoutesNext
<1> QED
  BY <1>1, <1>2

\* The invariants of the commands in a behaviour.
PgI == tool = "postgres" => PgInv /\ PgCalm
ImagesI == tool = "images" => ImagesInv
KeysI == tool = "keys" => KeysInv
S3I == tool = "s3" => S3Inv
OsdI == tool = "osd" => OsdInv
LuksI == tool = "luks" => LuksInv
DevhostI == tool = "devhost" => DevhostInv
RoutesI == tool = "routes" => RoutesInv

\* They hold in every reachable state.
LEMMA Invariance == Spec => [](PgI /\ ImagesI /\ KeysI /\ S3I /\ OsdI /\ RoutesI)
<1>1. CommandsAssumption /\ Init => PgI /\ ImagesI /\ KeysI /\ S3I /\ OsdI /\ RoutesI
  BY PgInit, PgCalmInit, ImagesInit, KeysInit, S3Init, OsdInit, RoutesStep
     DEF Init, PgI, ImagesI, KeysI, S3I, OsdI, RoutesI
<1>2. CommandsAssumption /\ PgI /\ ImagesI /\ KeysI /\ S3I /\ OsdI /\ RoutesI /\ [Next]_vars
        => (PgI /\ ImagesI /\ KeysI /\ S3I /\ OsdI /\ RoutesI)'
  BY StepOfOne, PgStep, PgCalmStep, ImagesStep, KeysStep, S3Step, OsdStep, RoutesStep
     DEF PgI, ImagesI, KeysI, S3I, OsdI, RoutesI
<1> QED
  BY CommandsAssumption, <1>1, <1>2, PTL DEF Spec

\* At most one passphrase is mistyped.
OneTypo == \A b \in LuksBounds : b.typos \in {0, 1}

\* If so, the volumes' invariant does as well, ...
LEMMA LuksInvariance == OneTypo => (Spec => []LuksI)
<1> SUFFICES ASSUME OneTypo
             PROVE  Spec => []LuksI
  OBVIOUS
<1>1. Init => LuksI
  BY LuksInit DEF Init, LuksI, OneTypo
<1>2. LuksI /\ [Next]_vars => LuksI'
  BY StepOfOne, LuksStep DEF LuksI
<1> QED
  BY <1>1, <1>2, PTL DEF Spec

\* ... and that of the development host if commands run one after the other.
LEMMA DevhostInvariance == Together = 1 => (Spec => []DevhostI)
<1> SUFFICES ASSUME Together = 1
             PROVE  Spec => []DevhostI
  OBVIOUS
<1>1. CommandsAssumption /\ Init => DevhostI
  BY DevhostInit DEF Init, DevhostI
<1>2. CommandsAssumption /\ DevhostI /\ [Next]_vars => DevhostI'
  BY StepOfOne, DevhostStep DEF DevhostI
<1> QED
  BY CommandsAssumption, <1>1, <1>2, PTL DEF Spec

\* PostgreSQL serves nothing but the newest data: for any number of versions, and upgrades by hand
\* and by the unit at the same time, wherever they fail, are killed or lose power, and however often
\* the administrator repairs what they leave.
THEOREM ServesNewestHolds == Spec => []ServesNewest
<1>1. PgI => ServesNewest
  BY PgServes DEF PgI, ServesNewest
<1> QED
  BY <1>1, Invariance, PTL

\* As long as nothing has failed, the markers of upgrades never lock PostgreSQL out.
THEOREM NotLockedOutHolds == Spec => []NotLockedOut
<1>1. CommandsAssumption /\ PgI => NotLockedOut
  BY PgNotLockedOut DEF PgI, NotLockedOut
<1> QED
  BY CommandsAssumption, <1>1, Invariance, PTL

\* A snapshot has the image of the release that it is named after, and clones have theirs:
\* for any number of hosts that update at once, releases, VMs and killed updates.
THEOREM NamedHolds == Spec => []Named
<1>1. ImagesI => Named
  BY ImagesNamed DEF ImagesI, Named
<1> QED
  BY <1>1, Invariance, PTL

\* A run through which no other one got in between leaves the cluster's keys as it should:
\* for any number of nodes, monitors and runs, whatever fails or is killed.
THEOREM InstalledHolds == Spec => []Installed
<1>1. KeysI => Installed
  BY KeysInstalled DEF KeysI, Installed
<1> QED
  BY <1>1, Invariance, PTL

\* When a run of fc-s3users writes its stamp, the gateway's users are as the directory says:
\* for any number of users and keys, and runs that fail or are stopped.
THEOREM SyncedHolds == Spec => Synced
<1>1. S3I /\ [Next]_vars => [tool = "s3" => S3!Synced]_vars
  BY StepOfOne, S3Stamp DEF S3I
<1> QED
  BY <1>1, Invariance, PTL DEF Spec, Synced

\* Destroying and rebuilding OSDs never removes the last complete copy of the data: for any
\* number of OSDs and disks, commands of any sets of them, and interruptions.
THEOREM DataKeptHolds == Spec => []DataKept
<1>1. OsdI => DataKept
  BY OsdKept DEF OsdI, DataKept
<1> QED
  BY <1>1, Invariance, PTL

\* What an interrupted destroy leaves of an OSD can be destroyed by a second one, as long as no
\* failed removal of a volume was ignored.
THEOREM RemovableHolds == Spec => []Removable
<1>1. OsdI => Removable
  BY OsdKept DEF OsdI, Removable
<1> QED
  BY <1>1, Invariance, PTL

\* Every encrypted volume can be opened, for any number of volumes, keys, commands and
\* interruptions, if one passphrase is mistyped at most.
THEOREM OpenableHolds == OneTypo => (Spec => []Openable)
<1>1. LuksI => Openable
  BY LuksOpenable DEF LuksI, Openable
<1> QED
  BY <1>1, LuksInvariance, PTL

\* Two VMs run on a development host with the same id only if one of them was left over when its
\* destroy was cut short: for any number of VMs, ids and users whose commands run one after the
\* other, wherever they were cut short.
THEOREM DistinctIdsHolds == Together = 1 => (Spec => []DistinctIds)
<1>1. DevhostI => DistinctIds
  BY DevhostSafe DEF DevhostI, DistinctIds
<1> QED
  BY <1>1, DevhostInvariance, PTL

\* When ensure reports success, the VM's unit has the id of its configuration, and so has its
\* image unless another VM answered with an image that is not its own.
THEOREM DeliversHolds == Together = 1 => (Spec => Delivers)
<1> SUFFICES ASSUME Together = 1
             PROVE  Spec => Delivers
  OBVIOUS
<1>1. CommandsAssumption /\ DevhostI /\ [Next]_vars => [tool = "devhost" => Vms!Delivers]_vars
  BY StepOfOne, DevhostDelivers DEF DevhostI
<1> QED
  BY CommandsAssumption, <1>1, DevhostInvariance, PTL DEF Spec, Delivers

\* A VM that was deployed lately stays, unless it is destroyed by name or just being made.
THEOREM KeepsFreshHolds == Together = 1 => (Spec => KeepsFresh)
<1> SUFFICES ASSUME Together = 1
             PROVE  Spec => KeepsFresh
  OBVIOUS
<1>1. CommandsAssumption /\ DevhostI /\ [Next]_vars => [tool = "devhost" => Vms!KeepsFresh]_vars
  BY StepOfOne, DevhostKeepsFresh DEF DevhostI
<1> QED
  BY CommandsAssumption, <1>1, DevhostInvariance, PTL DEF Spec, KeepsFresh

\* A check of the routes is OK only when the kernel forwards along the next hops and to the guests
\* that bgpd knows; and a MAC address as zebra says, to a place to which one of bgpd's best paths
\* leads: for any set of tunnel endpoints.
THEOREM RoutesAlarm == Spec => [](tool = "routes" => Routes!Alarmed)
<1>1. CommandsAssumption /\ RoutesI => (tool = "routes" => Routes!Alarmed)
  BY RoutesAlarmed DEF RoutesI
<1> QED
  BY CommandsAssumption, <1>1, Invariance, PTL

\* What they need for their types, which is less than the invariants: it holds however often
\* passphrases are mistyped and however many commands run on a development host at once.
Kinds ==
  /\ tool = "luks" => LuksKinds
  /\ tool = "devhost" => DevhostKinds
  /\ tool = "checks" => ChecksKinds

\* They hold in every reachable state.
LEMMA KindsInvariance == Spec => []Kinds
<1>1. CommandsAssumption /\ Init => Kinds
  BY LuksKindsStep, DevhostKindsStep, ChecksKindsStep DEF Init, Kinds
<1>2. CommandsAssumption /\ Kinds /\ [Next]_vars => Kinds'
  BY StepOfOne, LuksKindsStep, DevhostKindsStep, ChecksKindsStep DEF Kinds
<1> QED
  BY CommandsAssumption, <1>1, <1>2, PTL DEF Spec

\* Each command has the types of its own module: for any machine, cluster and number of commands.
THEOREM TypeCorrect == Spec => []TypeOK
<1>1. CommandsAssumption /\ Kinds /\ PgI /\ ImagesI /\ KeysI /\ S3I /\ OsdI /\ RoutesI => TypeOK
  BY ImagesNamed, KeysInstalled, S3TypeOK, OsdKept, DevhostKindsTyped, ChecksTyped
     DEF Kinds, PgI, PgInv, ImagesI, KeysI, S3I, OsdI, RoutesI, RoutesInv, LuksKinds, TypeOK
<1> QED
  BY CommandsAssumption, <1>1, KindsInvariance, Invariance, PTL

\* What fc-maintenance check gets wrong is not asked.
NoMaintenance == "maintenance" \notin Check

\* None of the other checks is OK when a fact that it looks at is as bad as it gets, however good
\* the others are and whatever it has reported before, and no check of the routes when they differ.
THEOREM AlarmedHolds == NoMaintenance => (Spec => []Alarmed)
<1>1. NoMaintenance /\ CommandsAssumption /\ Kinds /\ RoutesI => Alarmed
  BY ChecksAlarmed, RoutesAlarmed DEF NoMaintenance, Kinds, RoutesI, Alarmed
<1> SUFFICES ASSUME NoMaintenance
             PROVE  Spec => []Alarmed
  OBVIOUS
<1> QED
  BY CommandsAssumption, NoMaintenance, <1>1, KindsInvariance, Invariance, PTL

\* As long as one of the other checks looks at the same things and they are not better than they
\* were, its exit code is not lower than it was, whatever is wrong already.
THEOREM NeverBetterHolds == NoMaintenance => (Spec => NeverBetter)
<1>1. ASSUME NoMaintenance, CommandsAssumption, Kinds, [Next]_vars
      PROVE  [tool = "checks" => Monitoring!NeverBetter]_vars
  BY <1>1, StepOfOne, ChecksNever DEF NoMaintenance, Kinds
<1> SUFFICES ASSUME NoMaintenance
             PROVE  Spec => NeverBetter
  OBVIOUS
<1> QED
  BY CommandsAssumption, NoMaintenance, <1>1, KindsInvariance, PTL DEF Spec, NeverBetter
===============================================================================
