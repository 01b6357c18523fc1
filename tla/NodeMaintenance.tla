-------------------------- MODULE NodeMaintenance --------------------------
(***************************************************************************)
(* What happens on machines that are taken down and have to come back:     *)
(* each behaviour is one of a Slurm cluster, a k3s cluster or a group of   *)
(* routers with their enter and leave commands, or of a single virtual     *)
(* machine that is powered off to change its properties.                   *)
(***************************************************************************)
CONSTANTS SlurmNode, Dependency, Controller, K3sNode, Router,
          SlurmBounds, K3sBounds, RouterBounds, VmBounds

VARIABLES cluster,  \* what the behaviour is about
  state, drain, reason, todo, to_drain, chosen, overtaken,
  unschedulable, label, pods,
  keepalived, notify, primary, switching, state_file, marker, unsure,
  wanted, enc, vm, host, current, booted, change, reboot,
  in_service, due, pc, to_ask, missing, left

Slurm == INSTANCE SlurmMaintenance WITH
  Node <- SlurmNode, Bounds <- SlurmBounds

K3s == INSTANCE KubernetesMaintenance WITH Node <- K3sNode, Bounds <- K3sBounds

Routers == INSTANCE RouterMaintenance WITH Bounds <- RouterBounds

Vm == INSTANCE VmProperties WITH Bounds <- VmBounds

ASSUME NodesAssumption ==
  Slurm!SlurmAssumption /\ K3s!KubernetesAssumption /\ Routers!RouterAssumption /\ Vm!VmAssumption

slurm == <<state, drain, reason, todo, to_drain, chosen, overtaken>>
k3s == <<unschedulable, label, pods>>
routers == <<keepalived, notify, primary, switching, state_file, marker, unsure>>
machine == <<wanted, enc, vm, host, current, booted, change, reboot>>
commands == <<in_service, due, to_ask, missing>>
vars == <<cluster, slurm, k3s, routers, machine, commands, pc, left>>

\* The variables of the clusters that a behaviour is not about.
NoSlurm == /\ reason = [n \in SlurmNode |-> ""] /\ state = 0 /\ drain = 0 /\ todo = 0
           /\ to_drain = 0 /\ chosen = 0 /\ overtaken = 0
NoK3s == unschedulable = {} /\ label = 0 /\ pods = 0
NoRouters == /\ marker = {} /\ keepalived = 0 /\ notify = 0 /\ primary = 0 /\ switching = 0
             /\ state_file = 0 /\ unsure = 0
NoVm == /\ wanted = 0 /\ enc = 0 /\ vm = 0 /\ host = 0 /\ current = 0 /\ booted = 0
        /\ change = 0 /\ reboot = 0
NoCommands == in_service = 0 /\ due = 0 /\ to_ask = 0 /\ missing = 0

Init ==
  \/ cluster = "slurm" /\ Slurm!Init /\ NoK3s /\ NoRouters /\ NoVm /\ to_ask = 0 /\ missing = 0
  \/ cluster = "k3s" /\ K3s!Init /\ NoSlurm /\ NoRouters /\ NoVm
  \/ cluster = "routers" /\ Routers!Init /\ NoSlurm /\ NoK3s /\ NoVm
  \/ cluster = "vm" /\ Vm!Init /\ NoSlurm /\ NoK3s /\ NoRouters /\ NoCommands

SlurmAction(A) ==
  cluster = "slurm" /\ A /\ UNCHANGED <<cluster, k3s, routers, machine, to_ask, missing>>
K3sAction(A) == cluster = "k3s" /\ A /\ UNCHANGED <<cluster, slurm, routers, machine>>
RoutersAction(A) == cluster = "routers" /\ A /\ UNCHANGED <<cluster, slurm, k3s, machine>>
VmAction(A) == cluster = "vm" /\ A /\ UNCHANGED <<cluster, slurm, k3s, routers, commands>>

SlurmNext == SlurmAction(Slurm!Next)
K3sNext == K3sAction(K3s!Next)
RoutersNext == RoutersAction(Routers!Next)
VmNext == VmAction(Vm!Next)

Next == SlurmNext \/ K3sNext \/ RoutersNext \/ VmNext

Spec == Init /\ [][Next]_vars

---------------------------------------------------------------------------
\* Each kind of machines has the types of its own module.
TypeOK ==
  /\ cluster = "slurm" => Slurm!TypeOK
  /\ cluster = "k3s" => K3s!TypeOK
  /\ cluster = "routers" => Routers!TypeOK
  /\ cluster = "vm" => Vm!TypeOK

\* While a Slurm machine executes maintenance, no job runs on the nodes concerned, unless the
\* controller or an administrator who set one of them to ready has overtaken it.
NoJobDuringMaintenance == cluster = "slurm" => Slurm!NoJobDuringMaintenance

\* Maintenance sets no node DOWN on which a job runs: only administrators do, and machines that
\* were overtaken.
NoJobKilled == [][cluster = "slurm" => Slurm!KeepsJobs]_vars

\* Maintenance cordons one k3s node at a time.
OneCordoned == cluster = "k3s" => K3s!OneCordoned

\* One router at a time has a lowered priority.
OneLowered == cluster = "routers" => Routers!OneLowered

\* A change of keepalived's state that is notified on its own leaves the state file and the
\* system of that state, whatever notify commands and switches at once had left before.
NotifyRepairs == cluster = "routers" => Routers!NotifyRepairs
============================================================================
