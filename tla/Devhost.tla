-------------------------------- MODULE Devhost --------------------------------
(***************************************************************************)
(* The VMs of a development host: fc-devhost ensure, destroy and the timed *)
(* cleanup. A VM is a JSON file (what fc-devhost knows of it), a Nix file  *)
(* (what the next switch makes a unit of), a disk image and a unit. Every  *)
(* command takes the devhost lock through a file object that nothing keeps *)
(* a reference to: Python closes it at once, which gives the lock up.      *)
(***************************************************************************)
EXTENDS Integers, FiniteSets

CONSTANTS
  VM,      \* the names that VMs may have
  User, Cleanup,  \* who runs commands: users, and the timer
  Together,       \* at most this many commands run at a time
  MaxId,   \* ids are 1..MaxId; the id stands for the VM's address too
  Bounds   \* bounds: commands, failing steps, power failures, days that pass

VARIABLES
  config,  \* the JSON file of each VM
  nix,     \* the Nix file
  torn,    \* JSON and Nix files that are empty, as the write was cut short
  disk,    \* the id that is in the ENC of the VM's image, NoImage, or Raw
  tmp,     \* the same for the image that is being prepared
  nbd,     \* the VM whose new image is connected to the network block device, or None
  units,   \* the id with which each VM runs, 0 if it does not
  job,     \* the running commands
  left     \* what remains of the bounds

files == <<config, nix, torn>>
images == <<disk, tmp, nbd>>
vars == <<files, images, units, job, left>>

None == "none"
NoImage == 0
Raw == -1    \* a copy of the base image without the VM's ENC
NoId == 0
Id == 1..MaxId
NoFile == [id |-> NoId, online |-> FALSE]
NoConfig == [id |-> NoId, online |-> FALSE, age |-> "fresh"]
Age == {"fresh", "old", "dead"}  \* below shutdown-days, below delete-days, above

DevhostAssumption ==
  /\ IsFiniteSet(User) /\ Cleanup \notin User /\ None \notin VM /\ MaxId \in Nat
  /\ Bounds \subseteq [commands : Nat, failures : Nat, crashes : Nat, days : Nat]

Who == User \cup {Cleanup}
Idle == [pc |-> "idle", vm |-> None, cfg |-> NoConfig, existed |-> FALSE, rest |-> {},
         shut |-> FALSE]

Phase == {"idle", "load", "json", "nix", "copy", "connect", "write", "disconnect", "undo_disconnect",
          "rename", "switch", "wait", "sync", "rm_json", "rm_nix", "rm_data", "rm_switch",
          "look", "off_nix", "off_json", "off_switch"}

TypeOK ==
  /\ config \in [VM -> [id : {NoId} \cup Id, online : BOOLEAN, age : Age]]
  /\ nix \in [VM -> [id : {NoId} \cup Id, online : BOOLEAN]]
  /\ torn \subseteq VM \X {"json", "nix"}
  /\ disk \in [VM -> {NoImage, Raw} \cup Id] /\ tmp \in [VM -> {NoImage, Raw} \cup Id]
  /\ nbd \in VM \cup {None}
  /\ units \in [VM -> {NoId} \cup Id]
  /\ \A w \in Who : job[w].pc \in Phase /\ job[w].vm \in VM \cup {None} /\ job[w].rest \subseteq VM

Init ==
  /\ config = [v \in VM |-> NoConfig] /\ nix = [v \in VM |-> NoFile] /\ torn = {}
  /\ disk = [v \in VM |-> NoImage] /\ tmp = [v \in VM |-> NoImage] /\ nbd = None
  /\ units = [v \in VM |-> NoId]
  /\ job = [w \in Who |-> Idle]
  /\ left \in Bounds

Use(bound) == left[bound] > 0 /\ left' = [left EXCEPT ![bound] = @ - 1]
GoTo(w, phase) == job' = [job EXCEPT ![w].pc = phase]
At(w, phase) == job[w].pc = phase

MayStart(w) == At(w, "idle") /\ Cardinality({x \in Who : ~At(x, "idle")}) < Together

Known(v) == config[v].id # NoId \/ <<v, "json">> \in torn
HasNix(v) == nix[v].id # NoId \/ <<v, "nix">> \in torn

---------------------------------------------------------------------------
(* ensure: a new VM gets the least id that no configuration has.           *)
StartEnsure(w, v) ==
  /\ w \in User /\ MayStart(w) /\ Use("commands")
  /\ job' = [job EXCEPT ![w] = [Idle EXCEPT !.pc = "load", !.vm = v]]
  /\ UNCHANGED <<files, images, units>>

\* A slip: only the VMs that are online are looked at.
free_ids_online == Id \ {config[u].id : u \in {x \in VM : config[x].online}}

\* A slip: the range of the ids begins and ends one too late.
free_ids_late == {i + 1 : i \in Id} \ {config[u].id : u \in VM}

free_ids == Id \ {config[u].id : u \in VM}

\* The command ends with an exception before it has changed anything.
Unreadable(v) == <<v, "json">> \in torn \/ (config[v].id = NoId /\ (torn \cap (VM \X {"json"})) # {})

Load(w) ==
  /\ At(w, "load")
  /\ LET v == job[w].vm
         new == IF config[v].id # NoId THEN {config[v].id}
                ELSE {i \in free_ids : \A j \in free_ids : i <= j}
     IN \/ /\ ~Unreadable(v)
           /\ \E i \in new :
                job' = [job EXCEPT ![w].pc = "json", ![w].existed = HasNix(v),
                                   ![w].cfg = [id |-> i, online |-> TRUE, age |-> "fresh"]]
        \/ /\ Unreadable(v) \/ new = {}
           /\ job' = [job EXCEPT ![w] = Idle]
  /\ UNCHANGED <<files, images, units, left>>

WriteJson(w) ==
  /\ At(w, "json")
  /\ config' = [config EXCEPT ![job[w].vm] = job[w].cfg]
  /\ torn' = torn \ {<<job[w].vm, "json">>}
  /\ GoTo(w, "nix")
  /\ UNCHANGED <<nix, images, units, left>>

WriteNix(w) ==
  /\ At(w, "nix")
  /\ nix' = [nix EXCEPT ![job[w].vm] = [id |-> job[w].cfg.id, online |-> TRUE]]
  /\ torn' = torn \ {<<job[w].vm, "nix">>}
  /\ GoTo(w, IF disk[job[w].vm] # NoImage THEN "switch" ELSE "copy")
  /\ UNCHANGED <<config, images, units, left>>

(* The base image is downloaded if there is none and copied.               *)
CopyImage(w) ==
  /\ At(w, "copy")
  /\ tmp' = [tmp EXCEPT ![job[w].vm] = Raw]
  /\ GoTo(w, "connect")
  /\ UNCHANGED <<files, disk, nbd, units, left>>

(* Every device looks used, and one that looks used is taken: the size is  *)
(* compared with "0" without its newline. It is always the first, then.    *)
Connect(w) ==
  /\ At(w, "connect")
  /\ \/ nbd = None /\ nbd' = job[w].vm /\ GoTo(w, "write")
     \/ nbd # None /\ GoTo(w, "undo_disconnect") /\ UNCHANGED nbd
  /\ UNCHANGED <<files, disk, tmp, units, left>>

(* Mount and write the ENC. If the device is not this image's any more,    *)
(* what is written is lost.                                                *)
WriteEnc(w) ==
  /\ At(w, "write")
  /\ tmp' = IF nbd = job[w].vm THEN [tmp EXCEPT ![nbd] = job[w].cfg.id] ELSE tmp
  /\ GoTo(w, "disconnect")
  /\ UNCHANGED <<files, disk, nbd, units, left>>

(* The exception of ensure: the VM is destroyed if it is a new one.        *)
\* A slip: it is destroyed in any case.
Undo_any(w) == [job EXCEPT ![w].pc = "rm_json"]

Undo(w) ==
  IF job[w].existed THEN [job EXCEPT ![w] = Idle] ELSE [job EXCEPT ![w].pc = "rm_json"]

(* Disconnecting takes the device from whoever has it.                     *)
Disconnect(w) ==
  /\ At(w, "disconnect") \/ At(w, "undo_disconnect")
  /\ nbd' = None
  /\ \/ At(w, "disconnect") /\ GoTo(w, "rename")
     \/ At(w, "undo_disconnect") /\ job' = Undo(w)
  /\ UNCHANGED <<files, disk, tmp, units, left>>

Rename(w) ==
  /\ At(w, "rename")
  /\ LET v == job[w].vm
     IN /\ disk' = [disk EXCEPT ![v] = IF tmp[v] = NoImage THEN @ ELSE tmp[v]]
        /\ tmp' = [tmp EXCEPT ![v] = NoImage]
        /\ job' = IF tmp[v] = NoImage THEN Undo(w) ELSE [job EXCEPT ![w].pc = "switch"]
  /\ UNCHANGED <<files, nbd, units, left>>

(* fc-manage switch: units are as the Nix files say. It fails if one of    *)
(* them is no Nix.                                                         *)
Evaluates == torn \cap (VM \X {"nix"}) = {}
Switched == [v \in VM |-> IF nix[v].online THEN nix[v].id ELSE NoId]

Switch(w) ==
  /\ At(w, "switch")
  /\ \/ Evaluates /\ units' = Switched /\ GoTo(w, "wait")
     \/ ~Evaluates /\ job' = Undo(w) /\ UNCHANGED units
  /\ UNCHANGED <<files, images, left>>

(* Wait until the VM's address answers.                                    *)
\* A slip: the unit is looked at and not the VM.
Answers_unit(i) == \E v \in VM : units[v] = i

Answers(i) == \E v \in VM : units[v] # NoId /\ disk[v] = i

Wait(w) ==
  /\ At(w, "wait")
  /\ \/ Answers(job[w].cfg.id) /\ GoTo(w, "sync")
     \/ ~Answers(job[w].cfg.id) /\ job' = Undo(w)
  /\ UNCHANGED <<files, images, units, left>>

(* The disk grows if it is to, and the ENC of a VM that had an image is     *)
(* brought up to date: of the VM that answers, whose ENC has the id.       *)
Sync(w) ==
  /\ At(w, "sync")
  /\ job' = [job EXCEPT ![w] = Idle]
  /\ UNCHANGED <<files, images, units, left>>

---------------------------------------------------------------------------
(* destroy, also of a new VM that could not be made, and by the cleanup.   *)
StartDestroy(w, v) ==
  /\ w \in User /\ MayStart(w) /\ Use("commands")
  /\ job' = [job EXCEPT ![w] = [Idle EXCEPT !.pc = "rm_json", !.vm = v]]
  /\ UNCHANGED <<files, images, units>>

RemoveJson(w) ==
  /\ At(w, "rm_json")
  /\ config' = [config EXCEPT ![job[w].vm] = NoConfig]
  /\ torn' = torn \ {<<job[w].vm, "json">>}
  /\ GoTo(w, "rm_nix")
  /\ UNCHANGED <<nix, images, units, left>>

RemoveNix(w) ==
  /\ At(w, "rm_nix")
  /\ nix' = [nix EXCEPT ![job[w].vm] = NoFile]
  /\ torn' = torn \ {<<job[w].vm, "nix">>}
  /\ GoTo(w, "rm_data")
  /\ UNCHANGED <<config, images, units, left>>

RemoveData(w) ==
  /\ At(w, "rm_data")
  /\ disk' = [disk EXCEPT ![job[w].vm] = NoImage] /\ tmp' = [tmp EXCEPT ![job[w].vm] = NoImage]
  /\ GoTo(w, "rm_switch")
  /\ UNCHANGED <<files, nbd, units, left>>

RemoveUnit(w) ==
  /\ At(w, "rm_switch")
  /\ \/ /\ Evaluates /\ units' = Switched
        /\ IF w = Cleanup THEN GoTo(w, "look") ELSE job' = [job EXCEPT ![w] = Idle]
     \/ ~Evaluates /\ job' = [job EXCEPT ![w] = Idle] /\ UNCHANGED units
  /\ UNCHANGED <<files, images, left>>

---------------------------------------------------------------------------
(* cleanup looks at one VM after the other.                                *)
StartCleanup ==
  /\ MayStart(Cleanup) /\ Use("commands")
  /\ job' = [job EXCEPT ![Cleanup] = [Idle EXCEPT !.pc = "look", !.rest = {v \in VM : Known(v)}]]
  /\ UNCHANGED <<files, images, units>>

\* A slip: the age is not looked at, but whether it is online.
Verdict_online(cfg) == IF cfg.online THEN "off_nix" ELSE "rm_json"

\* What becomes of a VM, by the age of its last deployment.
Verdict(cfg) ==
  CASE cfg.age = "dead" -> "rm_json"
    [] cfg.age = "old" /\ cfg.online -> "off_nix"
    [] OTHER -> "look"

Look ==
  /\ At(Cleanup, "look")
  /\ \/ \E v \in job[Cleanup].rest :
          \/ /\ config[v].id # NoId
             /\ job' = [job EXCEPT ![Cleanup].pc = Verdict(config[v]), ![Cleanup].vm = v,
                                   ![Cleanup].cfg = config[v], ![Cleanup].rest = @ \ {v}]
          \/ config[v].id = NoId /\ job' = [job EXCEPT ![Cleanup] = Idle]
     \/ job[Cleanup].rest = {} /\ job[Cleanup].shut /\ GoTo(Cleanup, "off_switch")
     \/ job[Cleanup].rest = {} /\ ~job[Cleanup].shut /\ job' = [job EXCEPT ![Cleanup] = Idle]
  /\ UNCHANGED <<files, images, units, left>>

OffNix ==
  /\ At(Cleanup, "off_nix")
  /\ nix' = [nix EXCEPT ![job[Cleanup].vm] = [id |-> job[Cleanup].cfg.id, online |-> FALSE]]
  /\ torn' = torn \ {<<job[Cleanup].vm, "nix">>}
  /\ job' = [job EXCEPT ![Cleanup].pc = "off_json", ![Cleanup].shut = TRUE]
  /\ UNCHANGED <<config, images, units, left>>

OffJson ==
  /\ At(Cleanup, "off_json")
  /\ config' = [config EXCEPT ![job[Cleanup].vm] = [job[Cleanup].cfg EXCEPT !.online = FALSE]]
  /\ torn' = torn \ {<<job[Cleanup].vm, "json">>}
  /\ GoTo(Cleanup, "look")
  /\ UNCHANGED <<nix, images, units, left>>

OffSwitch ==
  /\ At(Cleanup, "off_switch")
  /\ units' = IF Evaluates THEN Switched ELSE units
  /\ job' = [job EXCEPT ![Cleanup] = Idle]
  /\ UNCHANGED <<files, images, left>>

---------------------------------------------------------------------------
(* The agent switches the system now and then, time passes, a step of a    *)
(* command fails, or the host does.                                        *)
AgentSwitch ==
  /\ Evaluates /\ units # Switched /\ units' = Switched
  /\ UNCHANGED <<files, images, job, left>>

Pass(v) ==
  /\ config[v].id # NoId /\ config[v].age # "dead" /\ Use("days")
  /\ config' = [config EXCEPT ![v].age = IF @ = "fresh" THEN "old" ELSE "dead"]
  /\ UNCHANGED <<nix, torn, images, units, job>>

\* The steps that ensure wraps into its exception handler.
InTry == {"json", "nix", "copy", "undo_disconnect", "rename", "switch", "wait", "sync"}

(* That the device cannot be disconnected is only printed.                 *)
StepFails(w) ==
  /\ ~At(w, "idle") /\ Use("failures")
  /\ job' = IF At(w, "disconnect") THEN [job EXCEPT ![w].pc = "rename"]
            ELSE IF job[w].pc \in {"connect", "write"} THEN [job EXCEPT ![w].pc = "undo_disconnect"]
            ELSE IF job[w].pc \in InTry THEN Undo(w) ELSE [job EXCEPT ![w] = Idle]
  /\ UNCHANGED <<files, images, units>>

(* Files that were about to be written may be left empty, and a unit whose *)
(* Nix file is broken stays as the last system has it.                     *)
PowerFailure ==
  /\ Use("crashes")
  /\ \E T \in SUBSET {<<job[w].vm, "json">> : w \in {x \in Who : job[x].pc \in {"json", "off_json"}}} :
     \E N \in SUBSET {<<job[w].vm, "nix">> : w \in {x \in Who : job[x].pc \in {"nix", "off_nix"}}} :
        /\ torn' = torn \cup T \cup N
        /\ config' = [v \in VM |-> IF <<v, "json">> \in T THEN NoConfig ELSE config[v]]
        /\ nix' = [v \in VM |-> IF <<v, "nix">> \in N THEN NoFile ELSE nix[v]]
  /\ nbd' = None
  /\ job' = [w \in Who |-> Idle]
  /\ UNCHANGED <<disk, tmp, units>>

Ensure(w) ==
  \/ Load(w) \/ WriteJson(w) \/ WriteNix(w) \/ CopyImage(w) \/ Connect(w) \/ WriteEnc(w)
  \/ Disconnect(w) \/ Rename(w) \/ Switch(w) \/ Wait(w) \/ Sync(w)

Destroy(w) == RemoveJson(w) \/ RemoveNix(w) \/ RemoveData(w) \/ RemoveUnit(w)

Next ==
  \/ StartCleanup \/ Look \/ OffNix \/ OffJson \/ OffSwitch \/ AgentSwitch \/ PowerFailure
  \/ \E v \in VM : Pass(v) \/ (\E w \in User : StartEnsure(w, v) \/ StartDestroy(w, v))
  \/ \E w \in Who : Ensure(w) \/ Destroy(w) \/ StepFails(w)

Spec == Init /\ [][Next]_vars

---------------------------------------------------------------------------
\* A VM runs that fc-devhost does not know with this id: its destroy was cut short or failed
\* after the JSON file was removed, or the file was left empty by a power failure.
Leftover(v) == units[v] # NoId /\ config[v].id # units[v]

\* Two VMs run with the same id, hence address, only if one of them is a leftover. (The id of
\* a leftover is free for fc-devhost, and the next new VM gets it.)
DistinctIds == \A u, v \in VM :
  u # v /\ units[u] # NoId /\ units[u] = units[v] => Leftover(u) \/ Leftover(v)

\* When ensure reports success, the VM's unit has the id of its configuration, whatever was
\* cut short before; and so has the VM's image, unless the one that answered was another VM
\* with an image that is not its own.
Stale(v) == disk[v] \in Id /\ disk[v] # config[v].id
Delivers == \A w \in User :
  At(w, "sync") /\ job'[w].pc = "idle" /\ left' = left =>
    LET v == job[w].vm
    IN /\ units'[v] = config'[v].id
       /\ (\A u \in VM \ {v} : ~Stale(u)) => disk'[v] = config'[v].id

\* A VM that was deployed lately stays, neither a failing ensure nor the cleanup takes it
\* away: only a command may that destroys it by name, or that has just begun to make it.
\* (It is deployed when its unit and its files agree.)
Up(v) == units[v] # NoId /\ units[v] = config[v].id /\ nix[v].online
Made(v) == \E w \in User : job[w].vm = v /\ ~job[w].existed
KeepsFresh == \A v \in VM :
  Up(v) /\ nix[v].id = units[v] /\ config[v].age = "fresh" /\ ~Made(v) /\ torn' \subseteq torn
    => nix'[v] = nix[v] /\ config'[v].id = config[v].id /\ units'[v] = units[v]
=============================================================================
