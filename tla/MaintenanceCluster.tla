-------------------------- MODULE MaintenanceCluster --------------------------
(***************************************************************************)
(* Maintenance runs on the machines of a resource group, and the enter     *)
(* command fc-maintenance constraints, which asks the directory whether    *)
(* the machines listed in maintenanceConstraints.machinesInService (or the *)
(* other k3s agents or routers) are in service. Machines run on their own  *)
(* and know of each other only what the directory says. A machine has one  *)
(* maintenance request at a time; how a run works on it in detail is in    *)
(* ReqManager.                                                             *)
(***************************************************************************)
EXTENDS Naturals

CONSTANTS
  Machine,
  Required,         \* the machines each machine wants to see in service
  FailureExitCode,  \* each machine's --failure-exit-code
  MaxCrashes        \* bound: how often runs are cut short

ASSUME ClusterAssumption ==
  /\ Required \in [Machine -> SUBSET Machine]
  /\ \A m \in Machine : m \notin Required[m]
  /\ FailureExitCode \in [Machine -> {"POSTPONE", "TEMPFAIL"}]
  /\ MaxCrashes \in Nat

VARIABLES
  state,       \* of the machine's request in the spool directory
  start,       \* where the request's start time lies
  in_service,  \* the directory's flag of each machine
  pc,          \* what the machine's run does next
  to_ask,      \* the machines its constraints command still has to ask about
  missing,     \* whether one was not in service
  crashes

request == <<state, start>>
command == <<to_ask, missing>>
vars == <<request, in_service, pc, command, crashes>>

Phase == {"idle", "enter", "constraints", "execute", "run", "leave"}

Init ==
  /\ state = [m \in Machine |-> "none"]
  /\ start = [m \in Machine |-> "unknown"]
  /\ in_service = [m \in Machine |-> TRUE]
  /\ pc = [m \in Machine |-> "idle"]
  /\ to_ask = [m \in Machine |-> {}]
  /\ missing = [m \in Machine |-> FALSE]
  /\ crashes = 0

Goto(m, phase) == pc' = [pc EXCEPT ![m] = phase]

---------------------------------------------------------------------------
(***************************************************************************)
(* Between runs: a request is added, the directory gives it a start time,  *)
(* the start time is reached and, request_runnable_for_seconds later, has  *)
(* been missed.                                                            *)
(***************************************************************************)
Add(m) ==
  /\ pc[m] = "idle"
  /\ state[m] = "none"
  /\ state' = [state EXCEPT ![m] = "pending"]
  /\ UNCHANGED <<start, in_service, pc, command, crashes>>

Schedule(m) ==
  /\ pc[m] = "idle"
  /\ state[m] = "pending"
  /\ start[m] = "unknown"
  /\ start' = [start EXCEPT ![m] = "ahead"]
  /\ UNCHANGED <<state, in_service, pc, command, crashes>>

Pass(m) ==
  /\ \/ start[m] = "ahead" /\ start' = [start EXCEPT ![m] = "reached"]
     \/ start[m] = "reached" /\ start' = [start EXCEPT ![m] = "missed"]
  /\ UNCHANGED <<state, in_service, pc, command, crashes>>

---------------------------------------------------------------------------
(***************************************************************************)
(* One run: update_states, enter maintenance, execute, leave, postpone and *)
(* archive. update_state does not touch a request in state running.        *)
(***************************************************************************)
\* A slip: due requests are never too late.
updated_never_late(m) ==
  CASE state[m] \in {"pending", "due", "postpone"} /\ start[m] \in {"reached", "missed"} -> "due"
    [] OTHER -> state[m]

updated(m) ==
  CASE state[m] \in {"pending", "due", "postpone"} /\ start[m] = "reached" -> "due"
    [] state[m] \in {"pending", "due", "postpone"} /\ start[m] = "missed"  -> "postpone"
    [] OTHER -> state[m]

Run(m) ==
  /\ pc[m] = "idle"
  /\ state' = [state EXCEPT ![m] = updated(m)]
  /\ Goto(m, IF updated(m) \in {"due", "running"} THEN "enter" ELSE "leave")
  /\ UNCHANGED <<start, in_service, command, crashes>>

\* A slip: the machine asks without having told that it is out of service.
MarkOutOfService_silently(m) ==
  /\ pc[m] = "enter"
  /\ to_ask' = [to_ask EXCEPT ![m] = Required[m]]
  /\ missing' = [missing EXCEPT ![m] = FALSE]
  /\ Goto(m, "constraints")
  /\ UNCHANGED <<request, in_service, crashes>>

MarkOutOfService(m) ==
  /\ pc[m] = "enter"
  /\ in_service' = [in_service EXCEPT ![m] = FALSE]
  /\ to_ask' = [to_ask EXCEPT ![m] = Required[m]]
  /\ missing' = [missing EXCEPT ![m] = FALSE]
  /\ Goto(m, "constraints")
  /\ UNCHANGED <<request, crashes>>

Ask(m, n) ==
  /\ pc[m] = "constraints"
  /\ n \in to_ask[m]
  /\ to_ask' = [to_ask EXCEPT ![m] = @ \ {n}]
  /\ missing' = [missing EXCEPT ![m] = @ \/ ~in_service[n]]
  /\ UNCHANGED <<request, in_service, pc, crashes>>

ConstraintsMet(m) ==
  /\ pc[m] = "constraints"
  /\ to_ask[m] = {}
  /\ ~missing[m]
  /\ Goto(m, "execute")
  /\ UNCHANGED <<request, in_service, command, crashes>>

\* With EXIT_TEMPFAIL the machine stays in maintenance until the next run.
ConstraintsNotMet(m) ==
  /\ pc[m] = "constraints"
  /\ to_ask[m] = {}
  /\ missing[m]
  /\ \/ /\ FailureExitCode[m] = "POSTPONE"
        /\ state' = [state EXCEPT ![m] = "postpone"]
        /\ Goto(m, "leave")
     \/ /\ FailureExitCode[m] = "TEMPFAIL"
        /\ UNCHANGED state
        /\ Goto(m, "idle")
  /\ UNCHANGED <<start, in_service, command, crashes>>

Start(m) ==
  /\ pc[m] = "execute"
  /\ state' = [state EXCEPT ![m] = "running"]
  /\ Goto(m, "run")
  /\ UNCHANGED <<start, in_service, command, crashes>>

\* A slip: a temporary failure has a state of its own.
Finish_tempfail(m, result) ==
  /\ pc[m] = "run"
  /\ state' = [state EXCEPT ![m] = IF result = "due" THEN "tempfail" ELSE result]
  /\ Goto(m, "leave")
  /\ UNCHANGED <<start, in_service, command, crashes>>

\* The activity ends, successfully with or without a reboot, or otherwise.
Finish(m, result) ==
  /\ pc[m] = "run"
  /\ state' = [state EXCEPT ![m] = result]
  /\ \/ Goto(m, "leave")
     \/ result = "success" /\ Goto(m, "idle")
  /\ UNCHANGED <<start, in_service, command, crashes>>

\* A postponed request waits for a new start time, a finished one is archived.
Leave(m) ==
  /\ pc[m] = "leave"
  /\ in_service' = [in_service EXCEPT ![m] = TRUE]
  /\ state' = [state EXCEPT ![m] = CASE @ = "postpone" -> "pending"
                                     [] @ \in {"success", "error"} -> "none"
                                     [] OTHER -> @]
  /\ start' = [start EXCEPT ![m] =
                 IF state[m] \in {"postpone", "success", "error"} THEN "unknown" ELSE @]
  /\ Goto(m, "idle")
  /\ UNCHANGED <<command, crashes>>

Crash(m) ==
  /\ crashes < MaxCrashes
  /\ pc[m] # "idle"
  /\ crashes' = crashes + 1
  /\ Goto(m, "idle")
  /\ UNCHANGED <<request, in_service, command>>

Result == {"success", "error", "due", "postpone"}

Step(m) ==
  \/ Run(m) \/ MarkOutOfService(m)
  \/ \E n \in Machine : Ask(m, n)
  \/ ConstraintsMet(m) \/ ConstraintsNotMet(m) \/ Start(m)
  \/ \E result \in Result : Finish(m, result)
  \/ Leave(m)

Next ==
  \E m \in Machine : Add(m) \/ Schedule(m) \/ Pass(m) \/ Step(m) \/ Crash(m)

Spec == Init /\ [][Next]_vars

(***************************************************************************)
(* The agent's timer starts runs again and again, a run goes on unless it  *)
(* is killed, the directory schedules, and time passes.                    *)
(***************************************************************************)
Fairness ==
  \A m \in Machine : WF_vars(Step(m)) /\ WF_vars(Schedule(m)) /\ WF_vars(Pass(m))

FairSpec == Spec /\ Fairness

---------------------------------------------------------------------------
\* Every variable has its type.
TypeOK ==
  /\ state \in [Machine -> {"none", "pending", "due", "running"} \cup Result]
  /\ start \in [Machine -> {"unknown", "ahead", "reached", "missed"}]
  /\ in_service \in [Machine -> BOOLEAN]
  /\ pc \in [Machine -> Phase]
  /\ to_ask \in [Machine -> SUBSET Machine]
  /\ missing \in [Machine -> BOOLEAN]
  /\ crashes \in 0..MaxCrashes

Executing(m) == pc[m] \in {"execute", "run"}

\* Two machines that require each other in service never execute activities at
\* the same time, however their runs interleave and wherever they are cut short:
\* each is marked out of service before it asks about the other.
MutualExclusion ==
  \A m, n \in Machine :
    m \in Required[n] /\ n \in Required[m] => ~(Executing(m) /\ Executing(n))

\* A request that is due is executed or postponed in the end: machines do not
\* wait for each other forever.
DueIsSettled == \A m \in Machine : state[m] = "due" ~> state[m] # "due"
=============================================================================
