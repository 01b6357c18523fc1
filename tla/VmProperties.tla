---------------------------- MODULE VmProperties ----------------------------
(***************************************************************************)
(* How a virtual machine gets the memory, the cores and the KVM            *)
(* environment that the directory and its host want: the agent compares    *)
(* them with the running machine, requests a cold reboot, merges it into   *)
(* the request that is already in the queue, and powers the machine off    *)
(* when the request is due. The hypervisor starts it again.                *)
(***************************************************************************)
EXTENDS Naturals

CONSTANTS
  Bounds  \* bounds: changes in the directory, migrations, reboots that administrators ask
          \* for, boots for other reasons, faults

VmAssumption ==
  Bounds \subseteq [changes : Nat, moves : Nat, asks : Nat, boots : Nat, faults : Nat]

VARIABLES
  wanted,   \* the directory: memory and cores
  enc,      \* the same in enc.json
  vm,       \* what the virtual machine was started with
  host,     \* the environment that its host provides
  current,  \* the files under /run that the host writes
  booted,   \* the files under QEMU_STATE_DIR, from the last cold boot
  change,   \* the request with a VMChangeActivity
  reboot,   \* the request with a RebootActivity
  pc,       \* the agent's run
  left      \* what remains of the bounds

machine == <<vm, host, current, booted>>
queue == <<change, reboot>>
vars == <<wanted, enc, machine, queue, pc, left>>

None == 0
Size == {1, 2}
State == {"none", "pending", "due", "success", "deleted"}

\* A host provides its binary generation alone, or guest properties that contain it.
Env == [generation : Size, properties : {None} \cup Size]
Missing == [generation |-> None, properties |-> None]
Broken == [generation |-> None, properties |-> 9]

\* The guest properties file and the binary generation file.
Files == [properties : {Missing, Broken} \cup {e \in Env : e.properties # None},
          generation : {None} \cup Size]

VMChangeActivity == [memory : {None} \cup Size, cores : {None} \cup Size,
                     current_memory : Size, current_cores : Size]

TypeOK ==
  /\ wanted \in [memory : Size, cores : Size] /\ enc \in [memory : Size, cores : Size]
  /\ vm \in [memory : Size, cores : Size] /\ host \in Env
  /\ current \in Files /\ booted \in Files /\ current.properties # Broken
  /\ change.state \in State
  /\ change.state # "none" => change.activity \in VMChangeActivity
  /\ reboot \in [state : State, cold : BOOLEAN] /\ reboot.state # "deleted"
  /\ pc \in {"idle", "memory", "cpu", "kvm", "run", "poweroff", "reboot"}

NoChange == [state |-> "none"]
NoReboot == [state |-> "none", cold |-> FALSE]
NoFiles == [properties |-> Missing, generation |-> None]

\* What a host writes into the files of either kind.
Written(files, env) ==
  IF env.properties = None THEN [files EXCEPT !.generation = env.generation]
  ELSE [files EXCEPT !.properties = env]

Init ==
  /\ wanted = [memory |-> 1, cores |-> 1] /\ enc = wanted /\ vm = wanted
  /\ host \in {e \in Env : e.generation = 1}
  /\ current = Written(NoFiles, host) /\ booted = current
  /\ change = NoChange /\ reboot = NoReboot
  /\ pc = "idle" /\ left \in Bounds

Use(bound) == left[bound] > 0 /\ left' = [left EXCEPT ![bound] = @ - 1]

---------------------------------------------------------------------------
(* The directory, the hosts, administrators.                               *)
Wish ==
  /\ Use("changes")
  /\ wanted' \in {[wanted EXCEPT !.memory = 3 - @], [wanted EXCEPT !.cores = 3 - @]}
  /\ UNCHANGED <<enc, machine, queue, pc>>

Migrate ==
  /\ Use("moves")
  /\ host' \in Env \ {host}
  /\ UNCHANGED <<wanted, enc, vm, current, booted, queue, pc>>

Provide ==
  /\ current # Written(current, host)
  /\ current' = Written(current, host)
  /\ UNCHANGED <<wanted, enc, vm, host, booted, queue, pc, left>>

\* initrd copies the files that the hypervisor has seeded for a cold boot.
\* A slip: only if there are none.
Seeded_once(files) == IF booted = NoFiles THEN Written(booted, host) ELSE booted

Seeded(files) == Written(files, host)

Start(cold) ==
  /\ pc' = "idle"
  /\ IF cold
     THEN /\ vm' = wanted /\ current' = Written(NoFiles, host)
          /\ \/ booted' = Seeded(booted) /\ UNCHANGED left
             \/ /\ host.properties # None /\ Use("faults")
                /\ booted' = [booted EXCEPT !.properties = Broken]
     ELSE current' = NoFiles /\ UNCHANGED <<vm, booted, left>>
  /\ UNCHANGED <<wanted, enc, host, queue>>

\* A power failure, or somebody resets the machine.
Boot(cold) ==
  /\ left.boots > 0 /\ left' = [left EXCEPT !.boots = @ - 1] /\ pc' = "idle"
  /\ vm' = IF cold THEN wanted ELSE vm
  /\ current' = IF cold THEN Written(NoFiles, host) ELSE NoFiles
  /\ booted' = IF cold THEN Seeded(booted) ELSE booted
  /\ UNCHANGED <<wanted, enc, host, queue>>

---------------------------------------------------------------------------
(* ReqManager.add merges into a request of the same kind in any state.     *)
Latest(new, old) == IF new # None THEN new ELSE old

is_effective(a) ==
  \/ a.memory # None /\ a.current_memory # a.memory
  \/ a.cores # None /\ a.current_cores # a.cores

\* VMChangeActivity.merge: the state that the first activity was made in stays.
merge(a, other) ==
  [a EXCEPT !.memory = Latest(other.memory, @), !.cores = Latest(other.cores, @)]

\* from_system_if_changed, and add: a merge without an effect deletes the request.
RequestChange(memory, cores) ==
  LET new == [memory |-> memory, cores |-> cores,
              current_memory |-> vm.memory, current_cores |-> vm.cores]
      merged == merge(change.activity, new)
  IN change' =
       CASE ~is_effective(new) -> change
         [] is_effective(new) /\ change.state = "none" -> [state |-> "pending", activity |-> new]
         [] OTHER -> IF is_effective(merged) THEN [change EXCEPT !.activity = merged]
                     ELSE [change EXCEPT !.state = "deleted"]

\* RebootActivity.merge: once cold, a reboot stays cold.
RequestReboot(cold) ==
  reboot' = [state |-> IF reboot.state = "none" THEN "pending" ELSE reboot.state,
             cold |-> reboot.cold \/ cold]

\* fc-maintenance request reboot, while no run holds the lock.
AskForReboot ==
  /\ pc = "idle" /\ Use("asks")
  /\ \E cold \in BOOLEAN : RequestReboot(cold)
  /\ UNCHANGED <<wanted, enc, machine, change, pc>>

---------------------------------------------------------------------------
(* The agent: update-enc, which may fail, and request system-properties.   *)
UpdateEnc ==
  /\ pc = "idle" /\ pc' = "memory"
  /\ \/ enc' = wanted /\ UNCHANGED left
     \/ enc' = enc /\ Use("faults")
  /\ UNCHANGED <<wanted, machine, queue>>

request_reboot_for_memory ==
  /\ pc = "memory" /\ pc' = "cpu"
  /\ RequestChange(enc.memory, None)
  /\ UNCHANGED <<wanted, enc, machine, reboot, left>>

request_reboot_for_cpu ==
  /\ pc = "cpu" /\ pc' = "kvm"
  /\ RequestChange(None, enc.cores)
  /\ UNCHANGED <<wanted, enc, machine, reboot, left>>

\* A downgrade of the binary is no reason. A file from the last cold boot that cannot be
\* read is one; those that hosts write can be read.
EnvironmentChanged ==
  LET now == current.properties
      before == booted.properties
  IN CASE now = Missing -> current.generation > booted.generation
       [] OTHER -> \/ before \in {Missing, Broken}
                   \/ now.generation > before.generation \/ now.properties # before.properties

request_reboot_for_kvm_environment ==
  /\ pc = "kvm" /\ pc' = "run"
  /\ IF EnvironmentChanged THEN RequestReboot(TRUE) ELSE UNCHANGED reboot
  /\ UNCHANGED <<wanted, enc, machine, change, left>>

(* The directory has scheduled a request, and its time has come.           *)
Due ==
  /\ \/ /\ change.state = "pending" /\ change' = [change EXCEPT !.state = "due"]
        /\ UNCHANGED reboot
     \/ /\ reboot.state = "pending" /\ reboot' = [reboot EXCEPT !.state = "due"]
        /\ UNCHANGED change
  /\ UNCHANGED <<wanted, enc, machine, pc, left>>

\* VMChangeActivity.run: by what the machine has now.
need_poweroff(a) ==
  (a.memory # None /\ vm.memory # a.memory) \/ (a.cores # None /\ vm.cores # a.cores)

(* fc-maintenance run: what is due is executed and saved; the machine goes *)
(* down before finished requests are archived, or they are.                *)
Run ==
  /\ pc = "run"
  /\ LET runs(r) == r.state = "due"
         cold == \/ runs(change) /\ need_poweroff(change.activity)
                 \/ runs(reboot) /\ reboot.cold
         down == cold \/ runs(reboot)
     IN /\ pc' = CASE cold -> "poweroff" [] down /\ ~cold -> "reboot" [] OTHER -> "idle"
        /\ change' = CASE down /\ runs(change) -> [change EXCEPT !.state = "success"]
                       [] ~down /\ change.state # "pending" -> NoChange
                       [] OTHER -> change
        /\ reboot' = CASE down /\ runs(reboot) -> [reboot EXCEPT !.state = "success"]
                       [] ~down /\ reboot.state # "pending" -> NoReboot
                       [] OTHER -> reboot
  /\ UNCHANGED <<wanted, enc, machine, left>>

\* Shutting down takes five seconds and more; the directory may change meanwhile.
RebootAndExit == pc \in {"poweroff", "reboot"} /\ Start(pc = "poweroff")

Kill ==
  /\ pc # "idle" /\ Use("faults")
  /\ pc' = "idle"
  /\ UNCHANGED <<wanted, enc, machine, queue>>

AgentStep ==
  \/ UpdateEnc \/ request_reboot_for_memory \/ request_reboot_for_cpu
  \/ request_reboot_for_kvm_environment \/ Run \/ RebootAndExit

Next ==
  \/ Wish \/ Migrate \/ Provide \/ AskForReboot \/ AgentStep \/ Due \/ Kill
  \/ \E cold \in BOOLEAN : Boot(cold)

Spec == Init /\ [][Next]_vars

\* The timer starts the agent every ten minutes, hosts write their files, and the directory
\* gives every request a time.
FairSpec == Spec /\ WF_vars(AgentStep) /\ WF_vars(Provide) /\ WF_vars(Due)

---------------------------------------------------------------------------
\* The machine ends up with the memory, cores and environment that are wanted, and it is not
\* rebooted any more: whatever was merged into a request that was made for other values, had
\* been executed or was deleted already, and whichever boots came in between.
Settled ==
  vm = wanted /\ ~EnvironmentChanged /\ change.state = "none" /\ reboot.state = "none"
Settles == <>[]Settled
=============================================================================
