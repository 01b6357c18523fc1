--------------------------- MODULE SlurmMaintenance ---------------------------
(***************************************************************************)
(* Maintenance in a Slurm cluster. Before a compute node, the controller   *)
(* or a machine that jobs depend on executes maintenance requests, its     *)
(* enter command (fc-slurm drain-and-down, or fc-slurm all-nodes           *)
(* drain-and-down) drains the nodes concerned and sets them DOWN. Only the *)
(* leave command of the controller (fc-slurm all-nodes ready), which runs  *)
(* at the end of each of its agent runs, sets nodes to ready again. The    *)
(* machines know of each other what the directory (in_service) and slurm   *)
(* (state, drained, reason) say, and ask them one node at a time.          *)
(*                                                                         *)
(* A node with a running job is "ALLOCATED" (in the code also MIXED and    *)
(* COMPLETING). Whether a node responds ("*") changes only log messages.   *)
(***************************************************************************)
EXTENDS Naturals, FiniteSets

CONSTANTS
  Node,            \* the compute nodes
  Dependency,      \* the external dependency machines
  Controller,
  Bounds           \* bounds: how many maintenance requests, agent runs that are
                   \* cut short and commands of administrators there are at most

Machine == Node \cup Dependency \cup {Controller}

SlurmAssumption ==
  /\ Node \cap Dependency = {} /\ Controller \notin Node \cup Dependency
  /\ Bounds \subseteq [requests : Nat, crashes : Nat, hands : Nat]

VARIABLES
  state, drain, reason,  \* of each node, in slurm
  in_service,  \* the directory's flag of each machine
  due,         \* machines with a due maintenance request
  pc,          \* what the machine's agent run does next
  todo,        \* the machines it still has to look at in this step
  to_drain,    \* the nodes it chose to drain
  chosen,      \* the machines that it waits for, or wants to change
  left,        \* what remains of the bounds
  overtaken    \* machines marked out of service during a ready command, or one
               \* of whose nodes was set to ready by hand while they entered

slurm == <<state, drain, reason>>
run == <<pc, todo, to_drain, chosen>>
vars == <<slurm, in_service, due, run, left, overtaken>>

---------------------------------------------------------------------------
\* The nodes that must not run jobs while the machine is in maintenance.
Nodes(m) == IF m \in Node THEN {m} ELSE Node

\* A slip: the default of --reason.
Reason_default(m) == "executed fc-slurm drain-and-down"

Reason(m) == IF m \in Node THEN "fc-agent: node maintenance" ELSE "fc-agent: global maintenance"

AgentReason == {"fc-agent: node maintenance", "fc-agent: global maintenance"}

Phase == {"idle", "drain check", "drain", "drain wait", "down", "work",
          "ready required", "ready check", "ready", "ready wait"}

Ready == {"ready required", "ready check", "ready"}
Entering == {"drain check", "drain", "drain wait", "down", "work"}

\* A slip: a node that accepts no jobs has none.
is_node_drained_flag(n) == drain[n]

is_node_drained(n) == state[n] \in {"IDLE", "DOWN"} /\ drain[n]
is_node_ready(n) == ~drain[n] /\ state[n] # "DOWN"

TypeOK ==
  /\ state \in [Node -> {"IDLE", "ALLOCATED", "DOWN"}]
  /\ drain \in [Node -> BOOLEAN]
  /\ reason \in [Node -> AgentReason \cup {"", "manual"}]
  /\ in_service \in [Machine -> BOOLEAN]
  /\ due \subseteq Machine
  /\ pc \in [Machine -> Phase]
  /\ todo \in [Machine -> SUBSET Machine]
  /\ to_drain \in [Machine -> SUBSET Node] /\ chosen \in [Machine -> SUBSET Machine]
  /\ left \in [requests : Nat, crashes : Nat, hands : Nat]
  /\ overtaken \subseteq Machine

Init ==
  /\ state = [n \in Node |-> "IDLE"] /\ drain = [n \in Node |-> FALSE]
  /\ reason = [n \in Node |-> ""]
  /\ in_service = [m \in Machine |-> TRUE]
  /\ due = {}
  /\ pc = [m \in Machine |-> "idle"]
  /\ todo = [m \in Machine |-> {}] /\ to_drain = [m \in Machine |-> {}]
  /\ chosen = [m \in Machine |-> {}]
  /\ left \in Bounds
  /\ overtaken = {}

---------------------------------------------------------------------------
(* The changes of a node that slurm makes when asked to.                   *)
Drain(n, why) ==
  /\ drain' = [drain EXCEPT ![n] = TRUE] /\ reason' = [reason EXCEPT ![n] = why]
  /\ UNCHANGED state

Down(n, why) ==
  /\ state' = [state EXCEPT ![n] = "DOWN"] /\ reason' = [reason EXCEPT ![n] = why]
  /\ UNCHANGED drain

Resume(n) ==
  /\ state' = [state EXCEPT ![n] = IF @ = "DOWN" THEN "IDLE" ELSE @]
  /\ drain' = [drain EXCEPT ![n] = FALSE] /\ reason' = [reason EXCEPT ![n] = ""]

(* A job starts and ends.                                                  *)
StartJob(n) ==
  /\ state[n] = "IDLE" /\ ~drain[n]
  /\ state' = [state EXCEPT ![n] = "ALLOCATED"]
  /\ UNCHANGED <<drain, reason, in_service, due, run, left, overtaken>>

EndJob(n) ==
  /\ state[n] = "ALLOCATED"
  /\ state' = [state EXCEPT ![n] = "IDLE"]
  /\ UNCHANGED <<drain, reason, in_service, due, run, left, overtaken>>

Request(m) ==
  /\ left.requests > 0 /\ m \notin due /\ pc[m] = "idle"
  /\ due' = due \cup {m}
  /\ left' = [left EXCEPT !.requests = @ - 1]
  /\ UNCHANGED <<slurm, in_service, run, overtaken>>

(* Administrators: fc-slurm drain, down and ready on a node.               *)
DrainByHand(n) ==
  /\ left.hands > 0 /\ ~drain[n]
  /\ left' = [left EXCEPT !.hands = @ - 1]
  /\ Drain(n, "manual")
  /\ UNCHANGED <<in_service, due, run, overtaken>>

DownByHand(n) ==
  /\ left.hands > 0 /\ state[n] # "DOWN"
  /\ left' = [left EXCEPT !.hands = @ - 1]
  /\ Down(n, "manual")
  /\ UNCHANGED <<in_service, due, run, overtaken>>

ReadyByHand(n) ==
  /\ left.hands > 0 /\ ~is_node_ready(n)
  /\ left' = [left EXCEPT !.hands = @ - 1]
  /\ Resume(n)
  /\ overtaken' = overtaken \cup {m \in Machine : pc[m] \in Entering /\ n \in Nodes(m)}
  /\ UNCHANGED <<in_service, due, run>>

---------------------------------------------------------------------------
GoTo(m, phase, machines) ==
  /\ pc' = [pc EXCEPT ![m] = phase]
  /\ todo' = [todo EXCEPT ![m] = machines]

Choose(m, machines) == chosen' = [chosen EXCEPT ![m] = machines]

(* The run ends: all that the commands remember is gone.                   *)
End(m) ==
  /\ GoTo(m, "idle", {}) /\ Choose(m, {})
  /\ to_drain' = [to_drain EXCEPT ![m] = {}]

(* Looks at one more machine.                                              *)
Look(m, phase, n) ==
  /\ pc[m] = phase /\ n \in todo[m]
  /\ todo' = [todo EXCEPT ![m] = @ \ {n}]
  /\ UNCHANGED <<in_service, due, pc, left, overtaken>>

(* An agent run enters maintenance if a request is due. Otherwise it runs   *)
(* the leave command, which only the controller has, and puts the machine  *)
(* back in service.                                                        *)
Enter(m) ==
  /\ in_service' = [in_service EXCEPT ![m] = FALSE]
  /\ overtaken' = IF in_service[m] /\ pc[Controller] \in Ready THEN overtaken \cup {m}
                                                               ELSE overtaken
  /\ GoTo(m, "drain check", Nodes(m))

BackInService(m) ==
  /\ in_service' = [in_service EXCEPT ![m] = TRUE]
  /\ overtaken' = overtaken \ {m}
  /\ GoTo(m, "idle", {})

Leave(m) ==
  \/ m # Controller /\ BackInService(m)
  \/ m = Controller /\ GoTo(m, "ready required", Dependency)
                    /\ UNCHANGED <<in_service, overtaken>>

Start(m) ==
  /\ pc[m] = "idle"
  /\ \/ m \in due /\ Enter(m)
     \/ m \notin due /\ Leave(m)
  /\ UNCHANGED <<slurm, due, to_drain, chosen, left>>

---------------------------------------------------------------------------
(* run_drain_pre_checks: a drained node needs nothing, a draining one is   *)
(* waited for, the others are drained, but not before all were looked at.  *)
DrainCheck(m, n) ==
  /\ Look(m, "drain check", n)
  /\ Choose(m, IF is_node_drained(n) THEN chosen[m] ELSE chosen[m] \cup {n})
  /\ to_drain' = [to_drain EXCEPT ![m] = IF drain[n] THEN @ ELSE @ \cup {n}]
  /\ UNCHANGED slurm

DrainChecked(m) ==
  /\ pc[m] = "drain check" /\ todo[m] = {}
  /\ IF chosen[m] = {} THEN GoTo(m, "down", Nodes(m)) ELSE GoTo(m, "drain", to_drain[m])
  /\ to_drain' = [to_drain EXCEPT ![m] = {}]
  /\ UNCHANGED <<slurm, in_service, due, chosen, left, overtaken>>

DrainNode(m, n) ==
  /\ Look(m, "drain", n)
  /\ Drain(n, Reason(m))
  /\ UNCHANGED <<to_drain, chosen>>

(* Waits for the chosen nodes: looks at each of them, again and again,     *)
(* until none is left or the time is over.                                 *)
Wait(m, phase, next) ==
  /\ pc[m] = phase /\ todo[m] = {}
  /\ \/ chosen[m] = {} /\ next
     \/ chosen[m] # {} /\ GoTo(m, phase, chosen[m]) /\ UNCHANGED <<in_service, overtaken>>
  /\ UNCHANGED <<slurm, due, to_drain, chosen, left>>

Drained(m) ==
  /\ pc[m] = "drain" /\ todo[m] = {}
  /\ GoTo(m, "drain wait", chosen[m])
  /\ UNCHANGED <<slurm, in_service, due, to_drain, chosen, left, overtaken>>

DrainPoll(m, n) ==
  /\ Look(m, "drain wait", n)
  /\ Choose(m, IF is_node_drained(n) THEN chosen[m] \ {n} ELSE chosen[m])
  /\ UNCHANGED <<slurm, to_drain>>

DrainWait(m) ==
  Wait(m, "drain wait", GoTo(m, "down", Nodes(m)) /\ UNCHANGED <<in_service, overtaken>>)

(* NodeStateTimeout: the enter or leave command fails, and so does the     *)
(* run. The machine keeps the in_service flag it has.                      *)
Timeout(m) ==
  /\ pc[m] \in {"drain wait", "ready wait"} /\ todo[m] = {} /\ chosen[m] # {}
  /\ End(m)
  /\ UNCHANGED <<slurm, in_service, due, left, overtaken>>

DownNode(m, n) ==
  /\ Look(m, "down", n)
  /\ IF state[n] = "DOWN" THEN UNCHANGED slurm ELSE Down(n, Reason(m))
  /\ UNCHANGED <<to_drain, chosen>>

Work(m) ==
  /\ pc[m] = "down" /\ todo[m] = {}
  /\ GoTo(m, "work", {})
  /\ UNCHANGED <<slurm, in_service, due, to_drain, chosen, left, overtaken>>

(* The requests are executed, and the run goes on unless there is a reboot. *)
Finish(m) ==
  /\ pc[m] = "work"
  /\ due' = due \ {m}
  /\ \/ Leave(m)
     \/ GoTo(m, "idle", {}) /\ UNCHANGED <<in_service, overtaken>>
  /\ UNCHANGED <<slurm, to_drain, chosen, left>>

---------------------------------------------------------------------------
(* fc-slurm all-nodes ready --reason-must-match fc-agent: and, for each    *)
(* external dependency, --required-in-service.                             *)
AskRequired(m, d) ==
  /\ Look(m, "ready required", d)
  /\ Choose(m, IF in_service[d] THEN chosen[m] ELSE chosen[m] \cup {d})
  /\ UNCHANGED <<slurm, to_drain>>

AskedRequired(m) ==
  /\ pc[m] = "ready required" /\ todo[m] = {}
  /\ \/ chosen[m] # {} /\ BackInService(m)
     \/ chosen[m] = {} /\ GoTo(m, "ready check", Node) /\ UNCHANGED <<in_service, overtaken>>
  /\ Choose(m, {})
  /\ UNCHANGED <<slurm, due, to_drain, left>>

\* A slip: without --skip-nodes-in-maintenance.
ready_pre_checks_anyway(n) == ~is_node_ready(n) /\ reason[n] \in AgentReason

\* A slip: the whole reason has to match.
ready_pre_checks_exact(n) ==
  ~is_node_ready(n) /\ reason[n] = "fc-agent: node maintenance" /\ in_service[n]

ready_pre_checks(n) == ~is_node_ready(n) /\ reason[n] \in AgentReason /\ in_service[n]

ReadyCheck(m, n) ==
  /\ Look(m, "ready check", n)
  /\ Choose(m, IF ready_pre_checks(n) THEN chosen[m] \cup {n} ELSE chosen[m])
  /\ UNCHANGED <<slurm, to_drain>>

ReadyChecked(m) ==
  /\ pc[m] = "ready check" /\ todo[m] = {}
  /\ \/ chosen[m] = {} /\ BackInService(m)
     \/ chosen[m] # {} /\ GoTo(m, "ready", chosen[m]) /\ UNCHANGED <<in_service, overtaken>>
  /\ UNCHANGED <<slurm, due, to_drain, chosen, left>>

ReadyNode(m, n) ==
  /\ Look(m, "ready", n)
  /\ Resume(n)
  /\ UNCHANGED <<to_drain, chosen>>

Readied(m) ==
  /\ pc[m] = "ready" /\ todo[m] = {}
  /\ GoTo(m, "ready wait", chosen[m])
  /\ UNCHANGED <<slurm, in_service, due, to_drain, chosen, left, overtaken>>

ReadyPoll(m, n) ==
  /\ Look(m, "ready wait", n)
  /\ Choose(m, IF is_node_ready(n) THEN chosen[m] \ {n} ELSE chosen[m])
  /\ UNCHANGED <<slurm, to_drain>>

ReadyWait(m) == Wait(m, "ready wait", BackInService(m))

Crash(m) ==
  /\ left.crashes > 0 /\ pc[m] # "idle"
  /\ left' = [left EXCEPT !.crashes = @ - 1]
  /\ End(m)
  /\ UNCHANGED <<slurm, in_service, due, overtaken>>

---------------------------------------------------------------------------
Step(m) ==
  \/ Start(m) \/ DrainChecked(m) \/ Drained(m) \/ DrainWait(m) \/ Work(m)
  \/ Finish(m) \/ Timeout(m)
  \/ \E n \in Node : DrainCheck(m, n) \/ DrainNode(m, n) \/ DrainPoll(m, n) \/ DownNode(m, n)

ReadyStep ==
  LET m == Controller
  IN \/ AskedRequired(m) \/ ReadyChecked(m) \/ Readied(m) \/ ReadyWait(m)
     \/ \E d \in Dependency : AskRequired(m, d)
     \/ \E n \in Node : ReadyCheck(m, n) \/ ReadyNode(m, n) \/ ReadyPoll(m, n)

ByHand == \E n \in Node : DrainByHand(n) \/ DownByHand(n) \/ ReadyByHand(n)

Next ==
  \/ \E n \in Node : StartJob(n) \/ EndJob(n)
  \/ \E m \in Machine : Request(m) \/ Step(m) \/ Crash(m)
  \/ ReadyStep \/ ByHand

Spec == Init /\ [][Next]_vars

(***************************************************************************)
(* The timer starts agent runs again and again, commands go on unless they *)
(* are killed, waiting takes no longer than the timeout, and jobs end.     *)
(***************************************************************************)
Fairness ==
  /\ \A m \in Machine : WF_vars(Step(m)) /\ SF_vars(Timeout(m))
  /\ WF_vars(ReadyStep)
  /\ \A n \in Node : WF_vars(EndJob(n))

FairSpec == Spec /\ Fairness

---------------------------------------------------------------------------
\* While maintenance is executed, no job runs on the nodes concerned: of the
\* node itself, of the controller or of a dependency "only when no jobs are
\* running anymore in the whole cluster" (doc/src/components/slurm.md). The
\* exceptions: the machine was marked out of service while the controller was
\* already on its way to set nodes to ready, or an administrator has set one of
\* the nodes to ready since the machine began to enter maintenance.
NoJobDuringMaintenance ==
  \A m \in Machine : pc[m] = "work" /\ m \notin overtaken
                       => \A n \in Nodes(m) : state[n] # "ALLOCATED"

\* Maintenance does not kill jobs: only an administrator's command sets a node
\* DOWN on which a job runs, or a machine that the controller or an administrator
\* has overtaken.
KeepsJobs ==
  \A n \in Node : state[n] = "ALLOCATED" /\ state'[n] = "DOWN"
                     => ByHand \/ \E m \in overtaken : pc[m] = "down"

NoJobKilled == [][KeepsJobs]_vars

\* A node that was put out of work by automated maintenance is ready again in
\* the end, or an administrator has taken it over.
ReadyInTheEnd ==
  \A n \in Node : reason[n] \in AgentReason ~> reason[n] \notin AgentReason

=============================================================================
