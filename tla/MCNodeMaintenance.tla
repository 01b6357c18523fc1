------------------------- MODULE MCNodeMaintenance -------------------------
(* Two nodes, two agents, two routers and a virtual machine, for TLC.      *)
EXTENDS NodeMaintenance

CONSTANTS n1, n2, db, controller

\* The fairness of each of the four specifications: as only one of them runs, what
\* is fair for a machine of the one and of the other can be said at once.
VmStep(m) == \/ m = n1 /\ VmAction(Vm!AgentStep)
             \/ m = n2 /\ VmAction(Vm!Provide)
             \/ m = db /\ VmAction(Vm!Due)

Step(m) == \/ m \in SlurmNode \cup {db, controller} /\ SlurmAction(Slurm!Step(m))
           \/ m \in {n1, n2} /\ (K3sAction(K3s!Step(m)) \/ RoutersAction(Routers!Step(m)))
           \/ VmStep(m)

Patience(m) ==
  \/ m \in SlurmNode \cup {db, controller} /\ SlurmAction(Slurm!Timeout(m))
  \/ m \in {n1, n2} /\ (K3sAction(K3s!Postpone(m)) \/ RoutersAction(Routers!Postpone(m)))

FairSpec ==
  /\ Spec
  /\ \A m \in {n1, n2, db, controller} : WF_vars(Step(m)) /\ SF_vars(Patience(m))
  /\ WF_vars(SlurmAction(Slurm!ReadyStep))
  /\ \A n \in SlurmNode : WF_vars(SlurmAction(Slurm!EndJob(n)))

\* Slurm nodes that automated maintenance put out of work are ready again in the end, or
\* taken over by an administrator.
ReadyInTheEnd == Slurm!ReadyInTheEnd

\* A k3s node that maintenance has cordoned takes pods again, or kubectl uncordon failed.
UncordonedInTheEnd == K3s!UncordonedInTheEnd

\* No router keeps a lowered priority for ever.
PriorityReturns == Routers!PriorityReturns

\* The virtual machine ends up with the properties that are wanted, and nothing is requested.
Settles == <>[](cluster = "vm" => Vm!Settled)

SlurmSafety == {[requests |-> 2, crashes |-> 0, hands |-> 0], [requests |-> 1, crashes |-> 1, hands |-> 1]}
SlurmLiveness == {[requests |-> 2, crashes |-> 0, hands |-> 0], [requests |-> 1, crashes |-> 1, hands |-> 1]}
K3sSafety == {[requests |-> 2, failures |-> 1, crashes |-> 1, hands |-> 1]}
K3sLiveness == {[requests |-> 2, failures |-> 0, crashes |-> 1, hands |-> 0],
                [requests |-> 2, failures |-> 1, crashes |-> 0, hands |-> 0],
                [requests |-> 1, failures |-> 1, crashes |-> 1, hands |-> 0]}
RouterSafety == {[requests |-> 2, changes |-> 2, failures |-> 0, crashes |-> 0, switches |-> 0],
                 [requests |-> 2, changes |-> 1, failures |-> 0, crashes |-> 1, switches |-> 0],
                 [requests |-> 1, changes |-> 2, failures |-> 0, crashes |-> 1, switches |-> 0],
                 [requests |-> 0, changes |-> 3, failures |-> 1, crashes |-> 0, switches |-> 0],
                 [requests |-> 0, changes |-> 3, failures |-> 0, crashes |-> 0, switches |-> 1]}
RouterLiveness == {[requests |-> 1, changes |-> 1, failures |-> 0, crashes |-> 1, switches |-> 0],
                   [requests |-> 2, changes |-> 1, failures |-> 0, crashes |-> 0, switches |-> 0],
                   [requests |-> 1, changes |-> 2, failures |-> 0, crashes |-> 0, switches |-> 0]}
VmLiveness == {[changes |-> 2, moves |-> 0, asks |-> 0, boots |-> 1, faults |-> 0],
               [changes |-> 2, moves |-> 0, asks |-> 0, boots |-> 0, faults |-> 1],
               [changes |-> 1, moves |-> 0, asks |-> 1, boots |-> 1, faults |-> 0],
               [changes |-> 0, moves |-> 1, asks |-> 0, boots |-> 1, faults |-> 1]}
VmSafety == {[changes |-> 1, moves |-> 1, asks |-> 0, boots |-> 0, faults |-> 0]}
=============================================================================
