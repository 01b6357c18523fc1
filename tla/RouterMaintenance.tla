-------------------------- MODULE RouterMaintenance --------------------------
(***************************************************************************)
(* Routers that take over from each other with keepalived. Keepalived runs *)
(* fc-keepalived notify after each change of its state, without waiting    *)
(* for an earlier one: the command switches to the system for the state,   *)
(* under switch_to_configuration.lock, and then writes the state file. The *)
(* enter command of a router checks that the other routers are in service  *)
(* and lowers the priority of keepalived by a marker file, until the state *)
(* file says that the router is not the master. fc-agent switches, too: it *)
(* keeps the specialisation it finds before it waits for the lock. When    *)
(* keepalived changes its state is its own business (Change).              *)
(***************************************************************************)
EXTENDS Naturals, FiniteSets

CONSTANTS
  Router,
  Bounds   \* bounds: maintenance requests, changes of keepalived's state, failing
           \* switches, agent runs that are cut short, the agent's own switches

RouterAssumption ==
  Bounds \subseteq [requests : Nat, changes : Nat, failures : Nat, crashes : Nat, switches : Nat]

VARIABLES
  keepalived,  \* the state of each router
  notify,      \* the running notify commands, at most one for each new state
  primary,     \* routers that run the specialisation "primary"
  switching,   \* the specialisation that the agent's running switch has read
  state_file,  \* KEEPALIVED_STATE_FILE
  marker,      \* routers with a "1" in MAINT_MARKER_FILE
  in_service,  \* routers in service, says the directory
  due,         \* routers with a due maintenance request
  pc,          \* what the router's agent run does next
  to_ask, missing,  \* of the constraints command
  unsure,      \* routers where switches ran at once, or a notify command failed,
               \* since the last change that was notified on its own
  left         \* what remains of the bounds

failover == <<keepalived, notify, primary, switching, state_file>>
command == <<to_ask, missing>>
vars == <<failover, marker, in_service, due, pc, command, unsure, left>>

KeepalivedState == {"master", "backup", "fault", "stop"}

Phase == {"idle", "constraints", "state", "marker as master", "marker as backup", "wait",
          "reset", "work", "leave"}

TypeOK ==
  /\ keepalived \in [Router -> KeepalivedState] /\ state_file \in [Router -> KeepalivedState]
  /\ notify \in [Router -> [KeepalivedState -> {"none", "switch", "write"}]]
  /\ primary \subseteq Router /\ marker \subseteq Router
  /\ switching \in [Router -> {"none", "primary", "base"}]
  /\ in_service \subseteq Router /\ due \subseteq Router
  /\ pc \in [Router -> Phase]
  /\ to_ask \in [Router -> SUBSET Router] /\ missing \subseteq Router
  /\ unsure \subseteq Router
  /\ left \in [requests : Nat, changes : Nat, failures : Nat, crashes : Nat, switches : Nat]

Init ==
  /\ keepalived = [r \in Router |-> "backup"] /\ state_file = keepalived
  /\ notify = [r \in Router |-> [s \in KeepalivedState |-> "none"]]
  /\ primary = {} /\ marker = {}
  /\ switching = [r \in Router |-> "none"]
  /\ in_service = Router /\ due = {}
  /\ pc = [r \in Router |-> "idle"]
  /\ to_ask = [r \in Router |-> {}] /\ missing = {}
  /\ unsure = {}
  /\ left \in Bounds

GoTo(r, phase) == pc' = [pc EXCEPT ![r] = phase]

Use(bound) == left[bound] > 0 /\ left' = [left EXCEPT ![bound] = @ - 1]

---------------------------------------------------------------------------
\* No notify command of the router runs, and no switch at all.
Quiet(r) == \A s \in KeepalivedState : notify[r][s] = "none"
Alone(r) == Quiet(r) /\ switching[r] = "none"

Change(r, s) ==
  /\ keepalived[r] # s /\ notify[r][s] = "none" /\ Use("changes")
  /\ keepalived' = [keepalived EXCEPT ![r] = s]
  /\ notify' = [notify EXCEPT ![r][s] = "switch"]
  /\ unsure' = IF Alone(r) THEN unsure \ {r} ELSE unsure \cup {r}
  /\ UNCHANGED <<primary, switching, state_file, marker, in_service, due, pc, command>>

\* A slip: a router that is not healthy keeps its services.
specialisation_kept(s) == s # "backup"

specialisation(s) == s = "master"

NotifySwitch(r, s) ==
  /\ notify[r][s] = "switch"
  /\ \/ /\ primary' = IF specialisation(s) THEN primary \cup {r} ELSE primary \ {r}
        /\ notify' = [notify EXCEPT ![r][s] = "write"]
        /\ UNCHANGED <<unsure, left>>
     \/ /\ Use("failures")
        /\ notify' = [notify EXCEPT ![r][s] = "none"]
        /\ unsure' = unsure \cup {r}
        /\ UNCHANGED primary
  /\ UNCHANGED <<keepalived, switching, state_file, marker, in_service, due, pc, command>>

NotifyWrite(r, s) ==
  /\ notify[r][s] = "write"
  /\ state_file' = [state_file EXCEPT ![r] = s]
  /\ notify' = [notify EXCEPT ![r][s] = "none"]
  /\ UNCHANGED <<keepalived, primary, switching, marker, in_service, due, pc, command,
                 unsure, left>>

(* A switch by fc-agent or an administrator, with KEEP_CURRENT: the        *)
(* specialisation is read, and then switched to, under the lock. It may    *)
(* fail or be killed in between.                                           *)
KeepCurrent(r) ==
  /\ switching[r] = "none" /\ Use("switches")
  /\ switching' = [switching EXCEPT ![r] = IF r \in primary THEN "primary" ELSE "base"]
  /\ unsure' = IF Quiet(r) THEN unsure ELSE unsure \cup {r}
  /\ UNCHANGED <<keepalived, notify, primary, state_file, marker, in_service, due, pc, command>>

SwitchToCurrent(r) ==
  /\ switching[r] # "none"
  /\ \/ primary' = IF switching[r] = "primary" THEN primary \cup {r} ELSE primary \ {r}
     \/ UNCHANGED primary
  /\ switching' = [switching EXCEPT ![r] = "none"]
  /\ UNCHANGED <<keepalived, notify, state_file, marker, in_service, due, pc, command,
                 unsure, left>>

---------------------------------------------------------------------------
Request(r) ==
  /\ r \notin due /\ pc[r] = "idle" /\ Use("requests")
  /\ due' = due \cup {r}
  /\ UNCHANGED <<failover, marker, in_service, pc, command, unsure>>

(* A request that could not be executed for too long is postponed.         *)
Postpone(r) ==
  /\ r \in due /\ pc[r] = "idle" /\ r \notin in_service
  /\ due' = due \ {r}
  /\ UNCHANGED <<failover, marker, in_service, pc, command, unsure, left>>

Start(r) ==
  /\ pc[r] = "idle"
  /\ \/ /\ r \in due
        /\ in_service' = in_service \ {r}
        /\ to_ask' = [to_ask EXCEPT ![r] = Router \ {r}]
        /\ missing' = missing \ {r}
        /\ GoTo(r, "constraints")
     \/ r \notin due /\ GoTo(r, "leave") /\ UNCHANGED <<in_service, command>>
  /\ UNCHANGED <<failover, marker, due, unsure, left>>

Ask(r, q) ==
  /\ pc[r] = "constraints" /\ q \in to_ask[r]
  /\ to_ask' = [to_ask EXCEPT ![r] = @ \ {q}]
  /\ missing' = IF q \in in_service THEN missing ELSE missing \cup {r}
  /\ UNCHANGED <<failover, marker, in_service, due, pc, unsure, left>>

(* EXIT_TEMPFAIL: the router stays in maintenance until a later run.       *)
Constraints(r) ==
  /\ pc[r] = "constraints" /\ to_ask[r] = {}
  /\ GoTo(r, IF r \in missing THEN "idle" ELSE "state")
  /\ UNCHANGED <<failover, marker, in_service, due, command, unsure, left>>

(* fc-keepalived enter-maintenance looks at the state before it writes the *)
(* marker, and again only while it is "master".                            *)
GetState(r) ==
  /\ pc[r] = "state"
  /\ GoTo(r, CASE state_file[r] = "master" -> "marker as master"
               [] state_file[r] = "backup" -> "marker as backup"
               [] OTHER -> "idle")
  /\ UNCHANGED <<failover, marker, in_service, due, command, unsure, left>>

WriteMarker(r) ==
  /\ pc[r] \in {"marker as master", "marker as backup"}
  /\ marker' = marker \cup {r}
  /\ GoTo(r, IF pc[r] = "marker as master" THEN "wait" ELSE "work")
  /\ UNCHANGED <<failover, in_service, due, command, unsure, left>>

WaitForBackup(r) ==
  /\ pc[r] = "wait" /\ state_file[r] # "master"
  /\ GoTo(r, IF state_file[r] = "backup" THEN "work" ELSE "reset")
  /\ UNCHANGED <<failover, marker, in_service, due, command, unsure, left>>

SwitchoverTimeout(r) ==
  /\ pc[r] = "wait" /\ state_file[r] = "master"
  /\ GoTo(r, "reset")
  /\ UNCHANGED <<failover, marker, in_service, due, command, unsure, left>>

(* The exception handler takes the marker back: EXIT_TEMPFAIL.             *)
Reset(r) ==
  /\ pc[r] = "reset"
  /\ marker' = marker \ {r}
  /\ GoTo(r, "idle")
  /\ UNCHANGED <<failover, in_service, due, command, unsure, left>>

Finish(r) ==
  /\ pc[r] = "work"
  /\ due' = due \ {r}
  /\ GoTo(r, "leave") \/ GoTo(r, "idle")
  /\ UNCHANGED <<failover, marker, in_service, command, unsure, left>>

(* fc-keepalived leave-maintenance, then back in service.                  *)
ResetMarker(r) ==
  /\ pc[r] = "leave" /\ r \in marker
  /\ marker' = marker \ {r}
  /\ UNCHANGED <<failover, in_service, due, pc, command, unsure, left>>

\* A slip: the directory learns of it before the marker is reset.
BackInService_first(r) ==
  /\ pc[r] = "leave"
  /\ in_service' = in_service \cup {r}
  /\ GoTo(r, "idle")
  /\ UNCHANGED <<failover, marker, due, command, unsure, left>>

BackInService(r) ==
  /\ pc[r] = "leave" /\ r \notin marker
  /\ in_service' = in_service \cup {r}
  /\ GoTo(r, "idle")
  /\ UNCHANGED <<failover, marker, due, command, unsure, left>>

Crash(r) ==
  /\ pc[r] # "idle" /\ Use("crashes")
  /\ GoTo(r, "idle")
  /\ UNCHANGED <<failover, marker, in_service, due, command, unsure>>

Step(r) ==
  \/ Start(r) \/ Constraints(r) \/ GetState(r) \/ WriteMarker(r) \/ WaitForBackup(r)
  \/ SwitchoverTimeout(r) \/ Reset(r) \/ Finish(r) \/ ResetMarker(r) \/ BackInService(r)
  \/ \E q \in Router : Ask(r, q)

Next ==
  \E r \in Router :
    \/ Request(r) \/ Postpone(r) \/ Step(r) \/ Crash(r) \/ KeepCurrent(r) \/ SwitchToCurrent(r)
    \/ \E s \in KeepalivedState : Change(r, s) \/ NotifySwitch(r, s) \/ NotifyWrite(r, s)

Spec == Init /\ [][Next]_vars

FairSpec == Spec /\ \A r \in Router : WF_vars(Step(r)) /\ SF_vars(Postpone(r))

---------------------------------------------------------------------------
\* Only one router at a time has a lower priority for maintenance (with two, the
\* priorities say nothing), whatever is cut short or times out.
OneLowered == \A r, q \in marker : r = q

\* Notify commands that overtake each other, failing ones, and switches of the
\* agent that keep what is no longer current, may leave a router with the wrong
\* system or state file for good. But the next change that is notified on its own,
\* without another notify command or switch under way, repairs both, and both then
\* stay right until such a thing happens again.
NotifyRepairs ==
  \A r \in Router \ unsure :
    Quiet(r) => state_file[r] = keepalived[r] /\ (r \in primary <=> keepalived[r] = "master")

\* The priority is not lowered forever.
PriorityReturns == \A r \in Router : r \in marker ~> r \notin marker
=============================================================================
