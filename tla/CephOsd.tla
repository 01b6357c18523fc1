-------------------------------- MODULE CephOsd --------------------------------
(***************************************************************************)
(* fc-ceph osd on one host: an OSD is an entry of the cluster's map, a     *)
(* volume group with three or four logical volumes on one disk, and a      *)
(* daemon. Commands make, remove and rebuild OSDs step by step, and may    *)
(* stop after each of them. Only one administrator works at a time.        *)
(***************************************************************************)
EXTENDS Integers, FiniteSets

CONSTANTS
  Osd,    \* ids, numbers; the cluster gives the least free one
  Disk,
  Bounds  \* bounds: commands, failing or interrupted steps

VARIABLES
  known,      \* the OSDs in the cluster's map
  full,       \* those of this host that have a complete copy of the data
  elsewhere,  \* other hosts have a complete copy
  up,         \* the daemons that run
  vg,         \* the disk with the volume group of each OSD, or None
  lv,         \* the logical volumes
  journal,    \* the OSDs whose write-ahead log is in the volume group for these, vgjnl
  made,       \* the OSDs whose volumes have been initialised
  ignored,    \* the removal of a volume or group has failed and the purge went on
  command,    \* the command of the administrator
  left        \* what remains of the bounds

OsdAssumption ==
  /\ Osd \subseteq Nat /\ 0 \in Osd
  /\ Bounds \subseteq [commands : Nat, interrupts : Nat]

cluster == <<known, full, elsewhere, up>>
volumes == <<vg, lv, journal, made, ignored>>
vars == <<cluster, volumes, command, left>>

None == "none"
Volume == {"wal", "backup", "data", "block"}
Wal == {"internal", "external"}
Kind == {"create", "destroy", "rebuild", "activate", "deactivate", "reactivate"}
Phase == {"idle", "next", "osd_create", "backup", "wal", "data", "block", "mkfs", "start",
          "check", "stop", "purge", "rm_data", "rm_block", "rm_wal", "rm_backup", "rm_vg",
          "safety", "spawn", "clean", "restart"}

Idle == [pc |-> "idle", kind |-> "activate", ids |-> {}, todo |-> {}, id |-> 0, disk |-> None,
         wal |-> "internal", strict |-> FALSE, threads |-> {}]

TypeOK ==
  /\ known \cup full \cup up \cup made \cup journal \subseteq Osd
  /\ elsewhere \in BOOLEAN /\ ignored \in BOOLEAN
  /\ vg \in [Osd -> Disk \cup {None}] /\ lv \subseteq Osd \X Volume
  /\ command \in [pc : Phase, kind : Kind, ids : SUBSET Osd, todo : SUBSET Osd, id : Osd,
                  disk : Disk \cup {None}, wal : Wal, strict : BOOLEAN, threads : SUBSET Osd]

Init ==
  /\ known = {} /\ full = {} /\ elsewhere = TRUE /\ up = {}
  /\ vg = [o \in Osd |-> None] /\ lv = {} /\ journal = {} /\ made = {} /\ ignored = FALSE
  /\ command = Idle
  /\ left \in Bounds

Use(bound) == left[bound] > 0 /\ left' = [left EXCEPT ![bound] = @ - 1]
At(phase) == command.pc = phase
GoTo(phase) == command' = [command EXCEPT !.pc = phase]
Has(volume) == <<command.id, volume>> \in lv

list_local_osd_ids == {o \in Osd : vg[o] # None}
is_responsible_for(o) == <<o, "wal">> \in lv

---------------------------------------------------------------------------
(* Ceph: what the cluster answers and does by itself.                      *)
\* A slip: the check is left out.
run_safety_check_none(ids, strict) == TRUE

(* ok-to-stop: the data stay available without these; safe-to-destroy:     *)
(* nothing is missing without these.                                       *)
run_safety_check(ids, strict) ==
  /\ elsewhere \/ \E o \in full \cap up : o \notin ids
  /\ strict => known \ ids \subseteq full \cap up

Backfill(o) ==
  /\ o \in up \ full /\ (elsewhere \/ full \cap up # {})
  /\ full' = full \cup {o}
  /\ UNCHANGED <<known, elsewhere, up, volumes, command, left>>

(* While nothing is done here, other hosts get a complete copy or give it  *)
(* up, as long as there is one here that can be read.                      *)
Elsewhere ==
  /\ At("idle") /\ full \cap up # {}
  /\ elsewhere' = ~elsewhere
  /\ UNCHANGED <<known, full, up, volumes, command, left>>

MayRun(o) == o \in known \cap made /\ {<<o, "wal">>, <<o, "data">>, <<o, "block">>} \subseteq lv

(* The host boots: every OSD that has a volume group is activated.         *)
Boot ==
  /\ Use("interrupts")
  /\ up' = {o \in list_local_osd_ids : MayRun(o)}
  /\ command' = Idle
  /\ UNCHANGED <<known, full, elsewhere, volumes>>

---------------------------------------------------------------------------
(* The commands, for all local OSDs or for one.                            *)
Ids == {list_local_osd_ids} \cup {{o} : o \in list_local_osd_ids}

Start(kind, ids, strict) ==
  /\ At("idle") /\ kind # "create" /\ ids \in Ids \ {{}} /\ Use("commands")
  /\ \/ kind # "deactivate"
        /\ command' = [Idle EXCEPT !.pc = "next", !.kind = kind, !.ids = ids, !.todo = ids, !.strict = strict]
     \/ /\ kind = "deactivate" /\ run_safety_check(ids, strict)
        /\ command' = [Idle EXCEPT !.pc = "spawn", !.kind = kind, !.ids = ids, !.todo = ids]
  /\ UNCHANGED <<cluster, volumes>>

StartCreate(disk, wal) ==
  /\ At("idle") /\ Use("commands")
  /\ command' = [Idle EXCEPT !.pc = "osd_create", !.kind = "create", !.disk = disk, !.wal = wal]
  /\ UNCHANGED <<cluster, volumes>>

(* One OSD after the other, in any order: the ids were a set. If the type  *)
(* of an OSD is not found, destroy and rebuild try the next one, activate  *)
(* and reactivate end. The log is taken for external if it has a backup.   *)
First == [destroy |-> "check", rebuild |-> "check", activate |-> "start", reactivate |-> "clean"]

location(o) == IF <<o, "backup">> \in lv THEN "external" ELSE "internal"

NextOsd ==
  /\ At("next")
  /\ \/ \E o \in command.todo :
          \/ /\ is_responsible_for(o) \/ command.kind \in {"destroy", "rebuild"}
             /\ command' = [command EXCEPT
                  !.todo = @ \ {o}, !.id = o, !.wal = location(o), !.disk = vg[o],
                  !.pc = IF is_responsible_for(o) /\ (command.kind = "rebuild" => <<o, "data">> \in lv)
                         THEN First[command.kind] ELSE "next"]
          \/ ~is_responsible_for(o) /\ command.kind \in {"activate", "reactivate"} /\ command' = Idle
     \/ command.todo = {} /\ command' = Idle
  /\ UNCHANGED <<cluster, volumes, left>>

\* An exception: the next OSD is tried.
Skip == GoTo("next")

---------------------------------------------------------------------------
(* create_bluestore, also the second half of a rebuild.                    *)
OsdCreate ==
  /\ At("osd_create")
  /\ \/ \E o \in Osd \ known :
          /\ \A p \in Osd \ known : o <= p
          /\ known' = known \cup {o}
          /\ command' = [command EXCEPT !.id = o, !.pc = IF command.wal = "external" THEN "backup" ELSE "wal"]
     \/ Osd \subseteq known /\ Skip /\ UNCHANGED known
  /\ UNCHANGED <<full, elsewhere, up, volumes, left>>

(* A volume group that is there already is used, whatever the disk; else   *)
(* the disk must not be another one's.                                     *)
ensure_vg == vg[command.id] # None \/ \A o \in Osd : vg[o] # command.disk
Disk_(o) == IF vg[o] # None THEN vg[o] ELSE command.disk

After == [backup |-> "wal", wal |-> "data", data |-> "block", block |-> "mkfs"]

(* "data" also puts a new partition table on the disk, equal to the old.   *)
CreateVolume(volume) ==
  /\ At(volume)
  /\ \/ /\ ~Has(volume) /\ (ensure_vg \/ (volume = "wal" /\ command.wal = "external"))
        /\ vg' = IF volume = "wal" /\ command.wal = "external" THEN vg
                 ELSE [vg EXCEPT ![command.id] = Disk_(command.id)]
        /\ lv' = lv \cup {<<command.id, volume>>}
        /\ journal' = IF volume # "wal" THEN journal
                      ELSE IF command.wal = "external" THEN journal \cup {command.id}
                      ELSE journal \ {command.id}
        /\ GoTo(After[volume])
     \/ /\ Has(volume) \/ ~(ensure_vg \/ (volume = "wal" /\ command.wal = "external"))
        /\ Skip /\ UNCHANGED <<vg, lv, journal>>
  /\ UNCHANGED <<cluster, made, ignored, left>>

Mkfs ==
  /\ At("mkfs")
  /\ made' = made \cup {command.id}
  /\ GoTo("start")
  /\ UNCHANGED <<cluster, vg, lv, journal, ignored, left>>

(* systemctl start, which fails silently if the volumes cannot be found.   *)
StartDaemon ==
  /\ At("start")
  /\ up' = IF MayRun(command.id) THEN up \cup {command.id} ELSE up
  /\ GoTo("next")
  /\ UNCHANGED <<known, full, elsewhere, volumes, left>>

---------------------------------------------------------------------------
(* purge, the first half of a rebuild.                                     *)
CheckSafe ==
  /\ At("check")
  /\ IF run_safety_check({command.id}, command.strict) THEN GoTo("stop") ELSE command' = Idle
  /\ UNCHANGED <<cluster, volumes, left>>

StopDaemon ==
  /\ At("stop")
  /\ up' = up \ {command.id}
  /\ GoTo(IF command.kind = "reactivate" THEN "start" ELSE "purge")
  /\ UNCHANGED <<known, full, elsewhere, volumes, left>>

Purge ==
  /\ At("purge") /\ command.id \notin up
  /\ known' = known \ {command.id}
  /\ full' = full \ {command.id}
  /\ GoTo("rm_data")
  /\ UNCHANGED <<elsewhere, up, volumes, left>>

\* A slip: the write-ahead log goes first.
Order_walfirst == [rm_data |-> "wal", rm_block |-> "data", rm_wal |-> "block", rm_backup |-> "backup"]

Order == [rm_data |-> "data", rm_block |-> "block", rm_wal |-> "wal", rm_backup |-> "backup"]

Then == [rm_data |-> "rm_block", rm_block |-> "rm_wal",
         rm_wal |-> IF command.wal = "external" THEN "rm_backup" ELSE "rm_vg", rm_backup |-> "rm_vg"]

(* The result of lvremove is not looked at, nor is that of vgremove: if    *)
(* they fail the purge goes on.                                            *)
RemoveVolume(phase) ==
  /\ At(phase)
  /\ \/ lv' = lv \ {<<command.id, Order[phase]>>} /\ UNCHANGED <<ignored, left>>
     \/ Has(Order[phase]) /\ Use("interrupts") /\ ignored' = TRUE /\ UNCHANGED lv
  /\ made' = made \ {command.id}
  /\ GoTo(Then[phase])
  /\ UNCHANGED <<cluster, vg, journal>>

(* The group of the log goes, or of its backup if the log was taken for    *)
(* external. A log without its backup may be in vgjnl, with those of other *)
(* OSDs: the volumes go that no daemon has open. (An administrator makes a *)
(* new group for logs before it is needed.)                                *)
InVgjnl == command.wal = "internal" /\ command.id \in journal
Logs == {o \in journal \ up : <<o, "wal">> \in lv}

RemoveVg ==
  /\ At("rm_vg")
  /\ \/ /\ ~InVgjnl
        /\ vg' = [vg EXCEPT ![command.id] = None]
        /\ lv' = {v \in lv : v[1] = command.id => v[2] = "wal" /\ v[1] \in journal}
        /\ UNCHANGED <<full, ignored, left>>
     \/ /\ InVgjnl
        /\ lv' = lv \ (Logs \X {"wal"})
        /\ full' = full \ Logs
        /\ UNCHANGED <<vg, ignored, left>>
     \/ Use("interrupts") /\ ignored' = TRUE /\ UNCHANGED <<full, vg, lv>>
  /\ GoTo(IF command.kind = "rebuild" THEN "osd_create" ELSE "next")
  /\ UNCHANGED <<known, elsewhere, up, journal, made>>

---------------------------------------------------------------------------
(* deactivate starts a thread for each OSD. The thread looks at the loop's *)
(* variable when it gets to run.                                           *)
Spawn ==
  /\ At("spawn")
  /\ \E o \in command.todo :
       command' = IF is_responsible_for(o)
                  THEN [command EXCEPT !.todo = @ \ {o}, !.id = o, !.threads = @ \cup {o}]
                  ELSE [command EXCEPT !.todo = @ \ {o}]
  /\ UNCHANGED <<cluster, volumes, left>>

RunThread(t) ==
  /\ At("spawn") /\ t \in command.threads
  /\ up' = up \ {command.id}
  /\ command' = [command EXCEPT !.threads = @ \ {t}]
  /\ UNCHANGED <<known, full, elsewhere, volumes, left>>

Joined ==
  /\ At("spawn") /\ command.todo = {} /\ command.threads = {}
  /\ command' = Idle
  /\ UNCHANGED <<cluster, volumes, left>>

(* reactivate waits until the cluster is clean.                            *)
Clean ==
  /\ At("clean") /\ known \subseteq full \cap up
  /\ GoTo("stop")
  /\ UNCHANGED <<cluster, volumes, left>>

(* The command is interrupted, or a step fails: then the next OSD is tried, *)
(* but an OSD that could not be stopped is purged once it is down.         *)
StepFails ==
  /\ ~At("idle") /\ Use("interrupts")
  /\ \/ command' = Idle
     \/ At("stop") /\ command.kind # "reactivate" /\ GoTo("purge")
     \/ ~At("stop") /\ command.kind \in {"destroy", "rebuild"} /\ Skip
     \/ command.pc \in {"stop", "start"} /\ command.kind = "reactivate" /\ Skip
  /\ UNCHANGED <<cluster, volumes>>

Step ==
  \/ NextOsd \/ OsdCreate \/ Mkfs \/ StartDaemon \/ CheckSafe \/ StopDaemon \/ Purge \/ RemoveVg
  \/ Spawn \/ Joined \/ Clean
  \/ \E volume \in Volume : CreateVolume(volume)
  \/ \E phase \in {"rm_data", "rm_block", "rm_wal", "rm_backup"} : RemoveVolume(phase)
  \/ \E t \in Osd : RunThread(t)

Next ==
  \/ Step \/ StepFails \/ Elsewhere \/ Boot
  \/ \E o \in Osd : Backfill(o)
  \/ \E kind \in Kind, ids \in SUBSET Osd, strict \in BOOLEAN : Start(kind, ids, strict)
  \/ \E disk \in Disk, wal \in Wal : StartCreate(disk, wal)

Spec == Init /\ [][Next]_vars

---------------------------------------------------------------------------
\* Destroying and rebuilding OSDs one after the other, interrupted and repeated, never
\* removes the last complete copy of the data.
DataKept == elsewhere \/ full # {}

\* What an interrupted destroy leaves of an OSD that the cluster has forgotten can be
\* destroyed by a second one, which needs to find out the type of the OSD: as long as no
\* failed removal was ignored. (After one the data may be left without their log.)
Removable == ~ignored => \A o \in Osd :
  o \notin known /\ {<<o, "data">>, <<o, "block">>} \cap lv # {} => is_responsible_for(o)

\* When deactivate reports success, no OSD that it was given runs.
Deactivated == At("spawn") /\ command'.pc = "idle" /\ left' = left => command.ids \cap up = {}
=============================================================================
