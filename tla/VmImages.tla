------------------------------- MODULE VmImages -------------------------------
(***************************************************************************)
(* fc-ceph load-vm-images: the base image of an environment is a volume    *)
(* whose snapshots, one for each release, new VMs are cloned from. Several *)
(* hosts may run the command, each may be killed at any step.              *)
(***************************************************************************)
EXTENDS Naturals, FiniteSets

CONSTANTS
  Host,
  Release,  \* the releases of the environment
  Bounds    \* bounds: runs, releases published, VMs created, kills

VARIABLES
  current,   \* the release that the directory has for the environment
  head,      \* what is in the volume: a release, or a mixture
  snap,      \* what is in each snapshot, or None
  protected, \* the protected snapshots, those that can be cloned
  clones,    \* the snapshots that a VM's volume still depends on
  locker,    \* the host that has the lock on the volume, or None
  run,       \* of each host: where its run is, for which release
  left       \* what remains of the bounds

None == "none"
Mixed == "mixed"

ImagesAssumption ==
  /\ None \notin Host /\ {None, Mixed} \cap Release = {}
  /\ Bounds \subseteq [runs : Nat, releases : Nat, vms : Nat, kills : Nat]

vars == <<current, head, snap, protected, clones, locker, run, left>>

Idle == [pc |-> "idle", release |-> None, old |-> {}]
Phase == {"idle", "enter", "update", "store", "written", "create", "protect", "cleanup", "flatten",
          "unprotect", "rm", "exit"}

TypeOK ==
  /\ current \in Release /\ head \in Release \cup {None, Mixed}
  /\ snap \in [Release -> Release \cup {None, Mixed}]
  /\ protected \cup clones \subseteq Release
  /\ locker \in Host \cup {None}
  /\ run \in [Host -> [pc : Phase, release : Release \cup {None}, old : SUBSET Release]]

Init ==
  /\ current \in Release /\ head = None
  /\ snap = [r \in Release |-> None] /\ protected = {} /\ clones = {}
  /\ locker = None
  /\ run = [h \in Host |-> Idle]
  /\ left \in Bounds

Use(bound) == left[bound] > 0 /\ left' = [left EXCEPT ![bound] = @ - 1]
At(h, phase) == run[h].pc = phase
GoTo(h, phase) == run' = [run EXCEPT ![h].pc = phase]
Snaps == {r \in Release : snap[r] # None}
image == <<head, snap, protected>>

---------------------------------------------------------------------------
Publish(r) ==
  /\ r # current /\ Use("releases")
  /\ current' = r
  /\ UNCHANGED <<image, clones, locker, run>>

CreateVm(r) ==
  /\ r \in protected \ clones /\ Use("vms")
  /\ clones' = clones \cup {r}
  /\ UNCHANGED <<current, image, locker, run>>

(* systemd runs the command once at a time on a host. It asks the          *)
(* directory for the environments.                                         *)
Load(h) ==
  /\ At(h, "idle") /\ Use("runs")
  /\ run' = [run EXCEPT ![h] = [Idle EXCEPT !.pc = "enter", !.release = current]]
  /\ UNCHANGED <<current, image, clones, locker>>

\* A slip: a lock that is there is taken for that of a previous run.
MayEnter_any(h) == TRUE

\* The lock is free, or left over from a previous run of this host.
MayEnter(h) == locker \in {None, h}

Enter(h) ==
  /\ At(h, "enter")
  /\ \/ MayEnter(h) /\ locker' = h /\ GoTo(h, "update")
     \/ ~MayEnter(h) /\ run' = [run EXCEPT ![h] = Idle] /\ UNCHANGED locker
  /\ UNCHANGED <<current, image, clones, left>>

(* Nothing to update if there is a snapshot of that name. Else the image   *)
(* is downloaded and its checksum compared; if that fails the run exits.   *)
Update(h) ==
  /\ At(h, "update")
  /\ GoTo(h, IF snap[run[h].release] # None THEN "cleanup" ELSE "store")
     \/ (snap[run[h].release] = None /\ GoTo(h, "exit"))
  /\ UNCHANGED <<current, image, clones, locker, left>>

(* delta_update writes the blocks that differ.                             *)
StartStore(h) ==
  /\ At(h, "store")
  /\ head' = Mixed /\ GoTo(h, "written")
  /\ UNCHANGED <<current, snap, protected, clones, locker, left>>

Stored(h) ==
  /\ At(h, "written")
  /\ head' = run[h].release /\ GoTo(h, "create")
  /\ UNCHANGED <<current, snap, protected, clones, locker, left>>

CreateSnapshot(h) ==
  /\ At(h, "create")
  /\ LET r == run[h].release
     IN /\ snap' = [snap EXCEPT ![r] = IF @ = None THEN head ELSE @]
        /\ GoTo(h, IF snap[r] = None THEN "protect" ELSE "exit")
  /\ UNCHANGED <<current, head, protected, clones, locker, left>>

Protect(h) ==
  /\ At(h, "protect")
  /\ protected' = protected \cup ({run[h].release} \cap Snaps)
  /\ GoTo(h, "cleanup")
  /\ UNCHANGED <<current, head, snap, clones, locker, left>>

\* The other snapshots go, unless there is one only or the current one is missing.
outdated(release) == IF release \in Snaps THEN Snaps \ {release} ELSE {}

CleanUp(h) ==
  /\ At(h, "cleanup")
  /\ run' = [run EXCEPT ![h].old = outdated(run[h].release),
                        ![h].pc = IF outdated(run[h].release) = {} THEN "exit" ELSE "flatten"]
  /\ UNCHANGED <<current, image, clones, locker, left>>

(* VMs are detached from the snapshot. Another one may be cloned before it *)
(* is unprotected; then that fails, and so does the removal.               *)
Flatten(h) ==
  /\ At(h, "flatten")
  /\ \E r \in run[h].old : clones' = clones \ {r}
                           /\ run' = [run EXCEPT ![h].pc = "unprotect", ![h].old = @ \ {r},
                                                 ![h].release = r]
  /\ UNCHANGED <<current, image, locker, left>>

Unprotect(h) ==
  /\ At(h, "unprotect")
  /\ protected' = protected \ ({run[h].release} \ clones)
  /\ GoTo(h, "rm")
  /\ UNCHANGED <<current, head, snap, clones, locker, left>>

Remove(h) ==
  /\ At(h, "rm")
  /\ snap' = IF run[h].release \in protected THEN snap ELSE [snap EXCEPT ![run[h].release] = None]
  /\ GoTo(h, IF run[h].old = {} THEN "exit" ELSE "flatten")
  /\ UNCHANGED <<current, head, protected, clones, locker, left>>

Exit(h) ==
  /\ At(h, "exit")
  /\ locker' = None
  /\ run' = [run EXCEPT ![h] = Idle]
  /\ UNCHANGED <<current, image, clones, left>>

(* The host or the command is killed and keeps the lock; a termination by  *)
(* systemd gives it up.                                                    *)
Kill(h) ==
  /\ ~At(h, "idle") /\ Use("kills")
  /\ run' = [run EXCEPT ![h] = Idle]
  /\ locker' = locker \/ (locker = h /\ locker' = None)
  /\ UNCHANGED <<current, image, clones>>

Step(h) ==
  \/ Enter(h) \/ Update(h) \/ StartStore(h) \/ Stored(h) \/ CreateSnapshot(h) \/ Protect(h)
  \/ CleanUp(h) \/ Flatten(h) \/ Unprotect(h) \/ Remove(h) \/ Exit(h)

Next ==
  \/ \E r \in Release : Publish(r) \/ CreateVm(r)
  \/ \E h \in Host : Load(h) \/ Step(h) \/ Kill(h)

Spec == Init /\ [][Next]_vars

---------------------------------------------------------------------------
\* A snapshot has the image of the release that it is named after, whatever host wrote it
\* and was killed, and VMs depend only on snapshots that there are.
Named ==
  /\ \A r \in Snaps : snap[r] = r
  /\ clones \subseteq Snaps
=============================================================================
