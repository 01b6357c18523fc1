------------------------ MODULE KubernetesMaintenance ------------------------
(***************************************************************************)
(* Maintenance of the agents of a k3s cluster. The enter command of an     *)
(* agent checks that all other agents are in service (fc-maintenance       *)
(* constraints) and drains the node (fc-kubernetes drain), the leave       *)
(* command uncordons it (fc-kubernetes ready --label-must-match). A label  *)
(* tells the nodes that were cordoned by fc-kubernetes from those an       *)
(* administrator cordoned.                                                 *)
(***************************************************************************)
EXTENDS Naturals, FiniteSets

CONSTANTS
  Node,    \* the k3s agents
  Bounds   \* bounds: maintenance requests, failing kubectl commands, agent runs that
           \* are cut short, commands of administrators

KubernetesAssumption ==
  Bounds \subseteq [requests : Nat, failures : Nat, crashes : Nat, hands : Nat]

VARIABLES
  unschedulable,  \* the nodes that are cordoned
  label,          \* the maintenance label of each node
  pods,           \* the nodes on which pods run that a drain evicts
  in_service,     \* machines in service, says the directory
  due,            \* machines with a due maintenance request
  pc,             \* what the machine's agent run does next
  to_ask,         \* machines its constraints command still asks about
  missing,        \* whether one was not in service
  left            \* what remains of the bounds

cluster == <<unschedulable, label, pods>>
command == <<to_ask, missing>>
vars == <<cluster, in_service, due, pc, command, left>>

Label == {"", "fc-agent-maintenance", "manual"}

Phase == {"idle", "constraints", "check", "label", "drain", "work", "ready",
          "uncordon", "unlabel"}

TypeOK ==
  /\ unschedulable \subseteq Node /\ pods \subseteq Node /\ label \in [Node -> Label]
  /\ in_service \subseteq Node /\ due \subseteq Node
  /\ pc \in [Node -> Phase]
  /\ to_ask \in [Node -> SUBSET Node] /\ missing \in [Node -> BOOLEAN]
  /\ left \in [requests : Nat, failures : Nat, crashes : Nat, hands : Nat]

Init ==
  /\ unschedulable = {} /\ label = [n \in Node |-> ""] /\ pods \in SUBSET Node
  /\ in_service = Node /\ due = {}
  /\ pc = [n \in Node |-> "idle"]
  /\ to_ask = [n \in Node |-> {}] /\ missing = [n \in Node |-> FALSE]
  /\ left \in Bounds

is_node_ready(n) == n \notin unschedulable
is_node_drained(n) == n \in unschedulable

GoTo(n, phase) == pc' = [pc EXCEPT ![n] = phase]

Use(bound) == left[bound] > 0 /\ left' = [left EXCEPT ![bound] = @ - 1]

---------------------------------------------------------------------------
(* Pods start on nodes that are not cordoned, and end.                     *)
StartPods(n) ==
  /\ n \notin pods \cup unschedulable
  /\ pods' = pods \cup {n}
  /\ UNCHANGED <<unschedulable, label, in_service, due, pc, command, left>>

EndPods(n) ==
  /\ n \in pods
  /\ pods' = pods \ {n}
  /\ UNCHANGED <<unschedulable, label, in_service, due, pc, command, left>>

(* fc-kubernetes drain by an administrator, as far as it changes the node, *)
(* and fc-kubernetes ready without a label to match.                       *)
DrainByHand(n) ==
  /\ Use("hands") /\ ~is_node_drained(n) /\ label[n] = ""
  /\ label' = [label EXCEPT ![n] = "manual"]
  /\ unschedulable' = unschedulable \cup {n}
  /\ UNCHANGED <<pods, in_service, due, pc, command>>

ReadyByHand(n) ==
  /\ Use("hands") /\ ~is_node_ready(n)
  /\ label' = [label EXCEPT ![n] = ""]
  /\ unschedulable' = unschedulable \ {n}
  /\ UNCHANGED <<pods, in_service, due, pc, command>>

(* A request becomes due. When it could not be executed for too long, it   *)
(* is postponed.                                                           *)
Request(n) ==
  /\ n \notin due /\ pc[n] = "idle" /\ Use("requests")
  /\ due' = due \cup {n}
  /\ UNCHANGED <<cluster, in_service, pc, command>>

Postpone(n) ==
  /\ n \in due /\ pc[n] = "idle" /\ n \notin in_service
  /\ due' = due \ {n}
  /\ UNCHANGED <<cluster, in_service, pc, command, left>>

---------------------------------------------------------------------------
Start(n) ==
  /\ pc[n] = "idle"
  /\ \/ /\ n \in due
        /\ in_service' = in_service \ {n}
        /\ to_ask' = [to_ask EXCEPT ![n] = Node \ {n}]
        /\ missing' = [missing EXCEPT ![n] = FALSE]
        /\ GoTo(n, "constraints")
     \/ n \notin due /\ GoTo(n, "ready") /\ UNCHANGED <<in_service, command>>
  /\ UNCHANGED <<cluster, due, left>>

Ask(n, m) ==
  /\ pc[n] = "constraints" /\ m \in to_ask[n]
  /\ to_ask' = [to_ask EXCEPT ![n] = @ \ {m}]
  /\ missing' = [missing EXCEPT ![n] = @ \/ m \notin in_service]
  /\ UNCHANGED <<cluster, in_service, due, pc, left>>

(* EXIT_TEMPFAIL and errors: the node stays in maintenance until a later   *)
(* run of the agent.                                                       *)
Constraints(n) ==
  /\ pc[n] = "constraints" /\ to_ask[n] = {}
  /\ GoTo(n, IF missing[n] THEN "idle" ELSE "check")
  /\ UNCHANGED <<cluster, in_service, due, command, left>>

DrainCheck(n) ==
  /\ pc[n] = "check"
  /\ GoTo(n, IF is_node_drained(n) THEN "work" ELSE "label")
  /\ UNCHANGED <<cluster, in_service, due, command, left>>

(* kubectl label does not overwrite another value.                         *)
SetLabel(n) ==
  /\ pc[n] = "label"
  /\ \/ /\ label[n] \in {"", "fc-agent-maintenance"}
        /\ label' = [label EXCEPT ![n] = "fc-agent-maintenance"]
        /\ GoTo(n, "drain") /\ UNCHANGED left
     \/ label[n] = "manual" /\ GoTo(n, "idle") /\ UNCHANGED <<label, left>>
     \/ Use("failures") /\ GoTo(n, "idle") /\ UNCHANGED label
  /\ UNCHANGED <<unschedulable, pods, in_service, due, command>>

(* kubectl drain cordons the node, evicts pods and waits until they have   *)
(* ended (EndPods). It fails, or gives up after the timeout.               *)
Cordon(n) ==
  /\ pc[n] = "drain" /\ n \notin unschedulable
  /\ \/ unschedulable' = unschedulable \cup {n} /\ UNCHANGED <<pc, left>>
     \/ Use("failures") /\ GoTo(n, "idle") /\ UNCHANGED unschedulable
  /\ UNCHANGED <<label, pods, in_service, due, command>>

Drained(n) ==
  /\ pc[n] = "drain" /\ n \in unschedulable /\ n \notin pods
  /\ GoTo(n, "work")
  /\ UNCHANGED <<cluster, in_service, due, command, left>>

DrainTimeout(n) ==
  /\ pc[n] = "drain" /\ n \in unschedulable /\ n \in pods
  /\ GoTo(n, "idle")
  /\ UNCHANGED <<cluster, in_service, due, command, left>>

Finish(n) ==
  /\ pc[n] = "work"
  /\ due' = due \ {n}
  /\ GoTo(n, "ready") \/ GoTo(n, "idle")
  /\ UNCHANGED <<cluster, in_service, command, left>>

---------------------------------------------------------------------------
BackInService(n) == in_service' = in_service \cup {n} /\ GoTo(n, "idle")

\* A slip: the node is in service before it is uncordoned.
ReadyCheck_early(n) ==
  /\ pc[n] = "ready"
  /\ in_service' = in_service \cup {n}
  /\ LET go == ~is_node_ready(n) /\ label[n] = "fc-agent-maintenance"
     IN GoTo(n, IF go THEN "uncordon" ELSE "idle")
  /\ UNCHANGED <<cluster, due, command, left>>

\* A slip: the label to match is not the one that drain sets.
ReadyCheck_other(n) ==
  /\ pc[n] = "ready"
  /\ LET go == ~is_node_ready(n) /\ label[n] = "manual"
     IN \/ ~go /\ BackInService(n)
        \/ go /\ GoTo(n, "uncordon") /\ UNCHANGED in_service
  /\ UNCHANGED <<cluster, due, command, left>>

ReadyCheck(n) ==
  /\ pc[n] = "ready"
  /\ LET go == ~is_node_ready(n) /\ label[n] = "fc-agent-maintenance"
     IN \/ ~go /\ BackInService(n)
        \/ go /\ GoTo(n, "uncordon") /\ UNCHANGED in_service
  /\ UNCHANGED <<cluster, due, command, left>>

(* The result of kubectl uncordon is not looked at.                        *)
Uncordon(n) ==
  /\ pc[n] = "uncordon"
  /\ \/ unschedulable' = unschedulable \ {n} /\ UNCHANGED left
     \/ Use("failures") /\ UNCHANGED unschedulable
  /\ GoTo(n, "unlabel")
  /\ UNCHANGED <<label, pods, in_service, due, command>>

RemoveLabel(n) ==
  /\ pc[n] = "unlabel"
  /\ \/ /\ label' = [label EXCEPT ![n] = ""] /\ BackInService(n) /\ UNCHANGED left
     \/ Use("failures") /\ GoTo(n, "idle") /\ UNCHANGED <<label, in_service>>
  /\ UNCHANGED <<unschedulable, pods, due, command>>

Crash(n) ==
  /\ pc[n] # "idle" /\ Use("crashes")
  /\ GoTo(n, "idle")
  /\ UNCHANGED <<cluster, in_service, due, command>>

Step(n) ==
  \/ Start(n) \/ Constraints(n) \/ DrainCheck(n) \/ SetLabel(n) \/ Cordon(n) \/ Drained(n)
  \/ DrainTimeout(n) \/ Finish(n) \/ ReadyCheck(n) \/ Uncordon(n) \/ RemoveLabel(n)
  \/ \E m \in Node : Ask(n, m)

Next ==
  \E n \in Node : \/ StartPods(n) \/ EndPods(n) \/ DrainByHand(n) \/ ReadyByHand(n)
                  \/ Request(n) \/ Postpone(n) \/ Step(n) \/ Crash(n)

Spec == Init /\ [][Next]_vars

(***************************************************************************)
(* The timer starts agent runs again and again, and a run goes on unless   *)
(* it is killed; a request that is not executed is postponed in the end.   *)
(***************************************************************************)
FairSpec == Spec /\ \A n \in Node : WF_vars(Step(n)) /\ SF_vars(Postpone(n))

---------------------------------------------------------------------------
CordonedForMaintenance(n) == n \in unschedulable /\ label[n] = "fc-agent-maintenance"

\* Maintenance never takes more than one node at a time away from the pods,
\* although the nodes agree only by marks in the directory and a drain that
\* timed out, failed or was killed leaves its node cordoned: "Only one node in
\* the cluster will perform maintenance at a time, to avoid excess load on the
\* rest of the cluster" (doc/src/components/kubernetes.md).
OneCordoned ==
  \A m, n \in Node : CordonedForMaintenance(m) /\ CordonedForMaintenance(n) => m = n

\* Nobody notices when kubectl uncordon fails: the label is removed all the same,
\* and no later run takes the node for one that maintenance has cordoned.
UncordonFailed(n) == pc[n] = "unlabel" /\ n \in unschedulable

\* A node that maintenance has cordoned takes pods again in the end, although drains
\* time out, kubectl fails and runs of the agent are killed, with one exception: it
\* stays cordoned if kubectl uncordon fails.
UncordonedInTheEnd ==
  \A n \in Node : CordonedForMaintenance(n) ~> n \notin unschedulable \/ UncordonFailed(n)

=============================================================================
