------------------------ MODULE NodeMaintenanceProofs ------------------------
(***************************************************************************)
(* Theorems about the clusters whose machines are taken down one by one,   *)
(* for any number of Slurm nodes, k3s agents and routers, any requests and *)
(* commands by hand, whatever fails, times out or is killed.               *)
(***************************************************************************)
EXTENDS NodeMaintenance, Naturals, TLAPS

---------------------------------------------------------------------------
(***************************************************************************)
(* The agents of a k3s cluster: one is cordoned at a time.                 *)
(***************************************************************************)

\* The run of n has seen m in service, or has drained its node after it had, now or in an
\* earlier run that did not get to the end.
K3sPassed(n, m) ==
  \/ pc[n] = "constraints" /\ m \notin to_ask[n] /\ ~missing[n]
  \/ pc[n] \in {"check", "label", "drain"}
  \/ K3s!CordonedForMaintenance(n)

(***************************************************************************)
(* The inductive invariant. A machine stays out of service from before it  *)
(* asks until its node is uncordoned or was taken over by an administrator *)
(* (the pods of a node may then return before or after the machine does).  *)
(* Of two machines, the one that asked first was out of service when the   *)
(* other one asked.                                                        *)
(***************************************************************************)
K3sOutWhileCordoned ==
  \A n \in K3sNode :
    pc[n] \in {"constraints", "check", "label", "drain"} \/ K3s!CordonedForMaintenance(n)
      => n \notin in_service

K3sNotBothPassed == \A m, n \in K3sNode : m # n => ~(K3sPassed(m, n) /\ K3sPassed(n, m))

K3sTypes ==
  /\ unschedulable \subseteq K3sNode /\ label \in [K3sNode -> K3s!Label]
  /\ in_service \subseteq K3sNode
  /\ pc \in [K3sNode -> K3s!Phase]
  /\ to_ask \in [K3sNode -> SUBSET K3sNode] /\ missing \in [K3sNode -> BOOLEAN]

K3sInv == K3sTypes /\ K3sOutWhileCordoned /\ K3sNotBothPassed

\* In the beginning nothing is cordoned and no agent runs.
LEMMA K3sInitInv == K3s!Init => K3sInv
  BY DEF K3s!Init, K3sInv, K3sTypes, K3s!Label, K3s!Phase, K3sOutWhileCordoned,
         K3sNotBothPassed, K3sPassed, K3s!CordonedForMaintenance

\* A step of n that asks nobody, starts no run and cordons nothing on its own: what n knows
\* of the others, and they of n, stays or is forgotten.
LEMMA K3sQuietStep ==
  ASSUME K3sInv, K3sTypes', NEW n \in K3sNode,
         UNCHANGED K3s!command,
         \A m \in K3sNode \ {n} : /\ pc'[m] = pc[m] /\ (m \in in_service' <=> m \in in_service)
                                  /\ label'[m] = label[m]
                                  /\ (m \in unschedulable' <=> m \in unschedulable),
         K3s!CordonedForMaintenance(n)'
           => K3s!CordonedForMaintenance(n) \/ pc[n] \in {"check", "label", "drain"},
         \/ pc'[n] \notin {"constraints", "check", "label", "drain"}
         \/ pc'[n] = pc[n] /\ pc[n] \in {"constraints", "check", "label", "drain"}
         \/ pc[n] \in {"check", "label", "drain"}
         \/ pc[n] = "constraints" /\ to_ask[n] = {} /\ ~missing[n],
         \/ n \in in_service' => n \in in_service
         \/ /\ ~K3s!CordonedForMaintenance(n)'
            /\ pc'[n] \notin {"constraints", "check", "label", "drain"}
  PROVE K3sInv'
<1> USE DEF K3sInv, K3sTypes, K3s!command, K3s!CordonedForMaintenance
<1>1. K3sOutWhileCordoned'
  BY DEF K3sOutWhileCordoned
<1>2. ASSUME NEW a \in K3sNode, NEW b \in K3sNode, K3sPassed(a, b)' PROVE K3sPassed(a, b)
  <2>1. CASE a = n
    BY <1>2, <2>1 DEF K3sPassed
  <2>2. CASE a # n
    BY <1>2, <2>2 DEF K3sPassed
  <2> QED
    BY <2>1, <2>2
<1>3. K3sNotBothPassed'
  BY <1>2 DEF K3sNotBothPassed
<1> QED
  BY <1>1, <1>3

\* Every step of every agent, of pods and of administrators keeps the types.
LEMMA K3sTypesStep == K3sTypes /\ [K3s!Next]_(K3s!vars) => K3sTypes'
<1> SUFFICES ASSUME K3sTypes, [K3s!Next]_(K3s!vars) PROVE K3sTypes'
    OBVIOUS
<1> USE DEF K3sTypes, K3s!Phase, K3s!Label, K3s!GoTo, K3s!cluster, K3s!command
<1>1. CASE UNCHANGED K3s!vars
  BY <1>1 DEF K3s!vars
<1>2. ASSUME NEW n \in K3sNode,
             K3s!StartPods(n) \/ K3s!EndPods(n) \/ K3s!Request(n) \/ K3s!Postpone(n)
      PROVE K3sTypes'
  BY <1>2 DEF K3s!StartPods, K3s!EndPods, K3s!Request, K3s!Postpone
<1>3. ASSUME NEW n \in K3sNode, K3s!DrainByHand(n) \/ K3s!ReadyByHand(n) PROVE K3sTypes'
  BY <1>3 DEF K3s!DrainByHand, K3s!ReadyByHand
<1>4. ASSUME NEW n \in K3sNode, K3s!Start(n) PROVE K3sTypes'
  <2>1. CASE n \in due
    <3>1. /\ in_service' = in_service \ {n} /\ pc' = [pc EXCEPT ![n] = "constraints"]
          /\ to_ask' = [to_ask EXCEPT ![n] = K3sNode \ {n}]
          /\ missing' = [missing EXCEPT ![n] = FALSE]
          /\ UNCHANGED <<unschedulable, label>>
      BY <1>4, <2>1 DEF K3s!Start
    <3>2. to_ask' \in [K3sNode -> SUBSET K3sNode] /\ missing' \in [K3sNode -> BOOLEAN]
      BY <3>1
    <3> QED
      BY <3>1, <3>2
  <2>2. CASE n \notin due
    BY <1>4, <2>2 DEF K3s!Start
  <2> QED
    BY <2>1, <2>2
<1>5. ASSUME NEW n \in K3sNode, NEW m \in K3sNode, K3s!Ask(n, m) PROVE K3sTypes'
  BY <1>5 DEF K3s!Ask
<1>6. ASSUME NEW n \in K3sNode,
             K3s!Constraints(n) \/ K3s!DrainCheck(n) \/ K3s!Drained(n) \/ K3s!DrainTimeout(n)
      PROVE K3sTypes'
  BY <1>6 DEF K3s!Constraints, K3s!DrainCheck, K3s!Drained, K3s!DrainTimeout
<1>7. ASSUME NEW n \in K3sNode, K3s!SetLabel(n) PROVE K3sTypes'
  BY <1>7 DEF K3s!SetLabel
<1>8. ASSUME NEW n \in K3sNode, K3s!Cordon(n) \/ K3s!Uncordon(n) PROVE K3sTypes'
  BY <1>8 DEF K3s!Cordon, K3s!Uncordon
<1>9. ASSUME NEW n \in K3sNode, K3s!Finish(n) \/ K3s!Crash(n) PROVE K3sTypes'
  BY <1>9 DEF K3s!Finish, K3s!Crash
<1>10. ASSUME NEW n \in K3sNode, K3s!ReadyCheck(n) PROVE K3sTypes'
  BY <1>10 DEF K3s!ReadyCheck, K3s!BackInService
<1>11. ASSUME NEW n \in K3sNode, K3s!RemoveLabel(n) PROVE K3sTypes'
  BY <1>11 DEF K3s!RemoveLabel, K3s!BackInService
<1> QED
  BY <1>1, <1>2, <1>3, <1>4, <1>5, <1>6, <1>7, <1>8, <1>9, <1>10, <1>11 DEF K3s!Next, K3s!Step

\* Every step keeps the inductive invariant.
LEMMA K3sInvStep == K3sInv /\ [K3s!Next]_(K3s!vars) => K3sInv'
<1> SUFFICES ASSUME K3sInv, [K3s!Next]_(K3s!vars) PROVE K3sInv'
    OBVIOUS
<1>0. K3sTypes /\ K3sTypes'
  BY K3sTypesStep DEF K3sInv
<1> USE DEF K3s!GoTo, K3s!cluster, K3s!command
<1>1. CASE UNCHANGED K3s!vars
  BY <1>1
  DEF K3s!vars, K3sInv, K3sTypes, K3sOutWhileCordoned, K3sNotBothPassed, K3sPassed,
      K3s!CordonedForMaintenance
<1>2. ASSUME NEW n \in K3sNode,
             K3s!StartPods(n) \/ K3s!EndPods(n) \/ K3s!Request(n) \/ K3s!Postpone(n)
      PROVE K3sInv'
  <2>1. UNCHANGED <<unschedulable, label, in_service, pc, to_ask, missing>>
    BY <1>2 DEF K3s!StartPods, K3s!EndPods, K3s!Request, K3s!Postpone
  <2> QED
    BY <2>1
    DEF K3sInv, K3sTypes, K3sOutWhileCordoned, K3sNotBothPassed, K3sPassed,
        K3s!CordonedForMaintenance
<1>3. ASSUME NEW n \in K3sNode, K3s!DrainByHand(n) \/ K3s!ReadyByHand(n) PROVE K3sInv'
  <2>1. /\ UNCHANGED <<in_service, pc, K3s!command>>
        /\ ~K3s!CordonedForMaintenance(n)'
    BY <1>0, <1>3 DEF K3s!DrainByHand, K3s!ReadyByHand, K3s!CordonedForMaintenance, K3sTypes
  <2>2. \A m \in K3sNode \ {n} :
          K3s!CordonedForMaintenance(m)' <=> K3s!CordonedForMaintenance(m)
    BY <1>0, <1>3 DEF K3s!DrainByHand, K3s!ReadyByHand, K3s!CordonedForMaintenance, K3sTypes
  <2>3. K3sOutWhileCordoned'
    BY <2>1, <2>2 DEF K3sInv, K3sOutWhileCordoned
  <2>4. \A a, b \in K3sNode : K3sPassed(a, b)' => K3sPassed(a, b)
    BY <2>1, <2>2 DEF K3sPassed
  <2>5. K3sNotBothPassed'
    BY <2>4 DEF K3sInv, K3sNotBothPassed
  <2> QED
    BY <1>0, <2>3, <2>5 DEF K3sInv
<1>4. ASSUME NEW n \in K3sNode, K3s!Start(n) PROVE K3sInv'
  <2> USE <1>0, <1>4 DEF K3s!Start, K3sTypes, K3s!CordonedForMaintenance
  <2>1. K3sOutWhileCordoned'
    BY DEF K3sInv, K3sOutWhileCordoned
  <2>2. \A a \in K3sNode \ {n}, b \in K3sNode : K3sPassed(a, b)' => K3sPassed(a, b)
    BY DEF K3sPassed
  <2>3. \A b \in K3sNode \ {n} : K3sPassed(n, b)' => K3sPassed(n, b)
    BY DEF K3sPassed
  <2>4. K3sNotBothPassed'
    BY <2>2, <2>3 DEF K3sInv, K3sNotBothPassed
  <2> QED
    BY <2>1, <2>4 DEF K3sInv
<1>5. ASSUME NEW n \in K3sNode, NEW m \in K3sNode, K3s!Ask(n, m) PROVE K3sInv'
  <2> USE <1>0, <1>5 DEF K3s!Ask, K3sTypes, K3s!CordonedForMaintenance
  <2>1. K3sOutWhileCordoned'
    BY DEF K3sInv, K3sOutWhileCordoned
  <2>2. \A a \in K3sNode \ {n}, b \in K3sNode : K3sPassed(a, b)' => K3sPassed(a, b)
    BY DEF K3sPassed
  <2>3. \A b \in K3sNode \ {m} : K3sPassed(n, b)' => K3sPassed(n, b)
    BY DEF K3sPassed
  <2>4. K3sPassed(n, m)' => K3sPassed(n, m) \/ m \in in_service
    BY DEF K3sPassed
  <2>5. m \in in_service => ~K3sPassed(m, n)
    BY DEF K3sInv, K3sOutWhileCordoned, K3sPassed
  <2>6. K3sNotBothPassed'
    BY <2>2, <2>3, <2>4, <2>5 DEF K3sInv, K3sNotBothPassed
  <2> QED
    BY <2>1, <2>6 DEF K3sInv
<1>6. ASSUME NEW n \in K3sNode, K3s!Constraints(n) \/ K3s!DrainCheck(n) PROVE K3sInv'
  BY <1>0, <1>6, K3sQuietStep
  DEF K3s!Constraints, K3s!DrainCheck, K3sTypes, K3s!CordonedForMaintenance
<1>7. ASSUME NEW n \in K3sNode,
             K3s!Drained(n) \/ K3s!DrainTimeout(n) \/ K3s!Finish(n) \/ K3s!Crash(n)
      PROVE K3sInv'
  BY <1>0, <1>7, K3sQuietStep
  DEF K3s!Drained, K3s!DrainTimeout, K3s!Finish, K3s!Crash, K3sTypes,
      K3s!CordonedForMaintenance
<1>8. ASSUME NEW n \in K3sNode, K3s!SetLabel(n) PROVE K3sInv'
  BY <1>0, <1>8, K3sQuietStep DEF K3s!SetLabel, K3sTypes, K3s!CordonedForMaintenance
<1>9. ASSUME NEW n \in K3sNode, K3s!Cordon(n) PROVE K3sInv'
  BY <1>0, <1>9, K3sQuietStep DEF K3s!Cordon, K3sTypes, K3s!CordonedForMaintenance
<1>10. ASSUME NEW n \in K3sNode, K3s!ReadyCheck(n) PROVE K3sInv'
  BY <1>0, <1>10, K3sQuietStep
  DEF K3s!ReadyCheck, K3s!BackInService, K3s!is_node_ready, K3sTypes, K3s!CordonedForMaintenance
<1>11. ASSUME NEW n \in K3sNode, K3s!Uncordon(n) PROVE K3sInv'
  BY <1>0, <1>11, K3sQuietStep DEF K3s!Uncordon, K3sTypes, K3s!CordonedForMaintenance
<1>12. ASSUME NEW n \in K3sNode, K3s!RemoveLabel(n) PROVE K3sInv'
  BY <1>0, <1>12, K3sQuietStep
  DEF K3s!RemoveLabel, K3s!BackInService, K3sTypes, K3s!CordonedForMaintenance
<1> QED
  BY <1>1, <1>2, <1>3, <1>4, <1>5, <1>6, <1>7, <1>8, <1>9, <1>10, <1>11, <1>12
  DEF K3s!Next, K3s!Step

---------------------------------------------------------------------------
(***************************************************************************)
(* Routers: the priority of one is lowered at a time.                      *)
(***************************************************************************)

\* The phases in which a run has passed the constraints but not written the marker.
RouterBefore == {"state", "marker as master", "marker as backup"}

\* The run of r has seen q in service, or a run has, and the marker is still there.
RouterPassed(r, q) ==
  \/ pc[r] = "constraints" /\ q \notin to_ask[r] /\ r \notin missing
  \/ pc[r] \in RouterBefore
  \/ r \in marker

(***************************************************************************)
(* The inductive invariant. A router is out of service from before it asks *)
(* until its marker is reset, also if that takes several runs. Of two      *)
(* routers, the one that asked first was out of service when the other one *)
(* asked.                                                                  *)
(***************************************************************************)
RouterOutWhileMarked ==
  \A r \in Router :
    pc[r] \in {"constraints"} \cup RouterBefore \/ r \in marker => r \notin in_service

RouterNotBothPassed == \A r, q \in Router : r # q => ~(RouterPassed(r, q) /\ RouterPassed(q, r))

RouterTypes ==
  /\ marker \subseteq Router /\ in_service \subseteq Router /\ missing \subseteq Router
  /\ pc \in [Router -> Routers!Phase] /\ to_ask \in [Router -> SUBSET Router]

RouterInv == RouterTypes /\ RouterOutWhileMarked /\ RouterNotBothPassed

\* In the beginning no priority is lowered and no agent runs.
LEMMA RouterInitInv == Routers!Init => RouterInv
  BY DEF Routers!Init, RouterInv, RouterTypes, Routers!Phase, RouterBefore,
         RouterOutWhileMarked, RouterNotBothPassed, RouterPassed

\* Every step keeps the types.
LEMMA RouterTypesStep == RouterTypes /\ [Routers!Next]_(Routers!vars) => RouterTypes'
<1> SUFFICES ASSUME RouterTypes, [Routers!Next]_(Routers!vars) PROVE RouterTypes'
    OBVIOUS
<1> USE DEF RouterTypes, Routers!Phase, Routers!GoTo, Routers!failover, Routers!command
<1>1. CASE UNCHANGED Routers!vars
  BY <1>1 DEF Routers!vars
<1>2. ASSUME NEW r \in Router, NEW s \in Routers!KeepalivedState,
             Routers!Change(r, s) \/ Routers!NotifySwitch(r, s) \/ Routers!NotifyWrite(r, s)
      PROVE RouterTypes'
  BY <1>2 DEF Routers!Change, Routers!NotifySwitch, Routers!NotifyWrite
<1>10. ASSUME NEW r \in Router, Routers!KeepCurrent(r) \/ Routers!SwitchToCurrent(r)
       PROVE RouterTypes'
  BY <1>10 DEF Routers!KeepCurrent, Routers!SwitchToCurrent
<1>3. ASSUME NEW r \in Router, Routers!Request(r) \/ Routers!Postpone(r) PROVE RouterTypes'
  BY <1>3 DEF Routers!Request, Routers!Postpone
<1>4. ASSUME NEW r \in Router, Routers!Start(r) PROVE RouterTypes'
  <2>1. /\ in_service' \subseteq Router /\ missing' \subseteq Router /\ UNCHANGED marker
        /\ \/ /\ pc' = [pc EXCEPT ![r] = "constraints"]
              /\ to_ask' = [to_ask EXCEPT ![r] = Router \ {r}]
           \/ pc' = [pc EXCEPT ![r] = "leave"] /\ UNCHANGED to_ask
    BY <1>4 DEF Routers!Start
  <2>2. to_ask' \in [Router -> SUBSET Router]
    BY <2>1
  <2> QED
    BY <2>1, <2>2
<1>5. ASSUME NEW r \in Router, NEW q \in Router, Routers!Ask(r, q) PROVE RouterTypes'
  BY <1>5 DEF Routers!Ask
<1>6. ASSUME NEW r \in Router, Routers!Constraints(r) \/ Routers!GetState(r)
      PROVE RouterTypes'
  BY <1>6 DEF Routers!Constraints, Routers!GetState
<1>7. ASSUME NEW r \in Router,
             Routers!WriteMarker(r) \/ Routers!Reset(r) \/ Routers!ResetMarker(r)
      PROVE RouterTypes'
  BY <1>7 DEF Routers!WriteMarker, Routers!Reset, Routers!ResetMarker
<1>8. ASSUME NEW r \in Router, Routers!WaitForBackup(r) \/ Routers!SwitchoverTimeout(r)
      PROVE RouterTypes'
  BY <1>8 DEF Routers!WaitForBackup, Routers!SwitchoverTimeout
<1>9. ASSUME NEW r \in Router, Routers!Finish(r) \/ Routers!BackInService(r) \/ Routers!Crash(r)
      PROVE RouterTypes'
  BY <1>9 DEF Routers!Finish, Routers!BackInService, Routers!Crash
<1> QED
  BY <1>1, <1>2, <1>3, <1>4, <1>5, <1>6, <1>7, <1>8, <1>9, <1>10 DEF Routers!Next, Routers!Step

\* A step of r that asks nobody and starts no run: what r knows of the others, and they of r,
\* stays or is forgotten.
LEMMA RouterQuietStep ==
  ASSUME RouterInv, RouterTypes', NEW r \in Router,
         UNCHANGED Routers!command,
         \A q \in Router \ {r} : /\ pc'[q] = pc[q] /\ (q \in in_service' <=> q \in in_service)
                                 /\ (q \in marker' <=> q \in marker),
         r \in marker' => r \in marker \/ pc[r] \in RouterBefore,
         \/ pc'[r] \notin {"constraints"} \cup RouterBefore
         \/ pc'[r] = pc[r]
         \/ pc[r] \in RouterBefore
         \/ pc[r] = "constraints" /\ to_ask[r] = {} /\ r \notin missing,
         \/ r \in in_service' => r \in in_service
         \/ r \notin marker' /\ pc'[r] \notin {"constraints"} \cup RouterBefore
  PROVE RouterInv'
<1> USE DEF RouterInv, RouterTypes, Routers!command, RouterBefore
<1>1. RouterOutWhileMarked'
  BY DEF RouterOutWhileMarked
<1>2. ASSUME NEW a \in Router, NEW b \in Router, RouterPassed(a, b)' PROVE RouterPassed(a, b)
  <2>1. CASE a = r
    BY <1>2, <2>1 DEF RouterPassed
  <2>2. CASE a # r
    BY <1>2, <2>2 DEF RouterPassed
  <2> QED
    BY <2>1, <2>2
<1>3. RouterNotBothPassed'
  BY <1>2 DEF RouterNotBothPassed
<1> QED
  BY <1>1, <1>3

\* Every step keeps the inductive invariant.
LEMMA RouterInvStep == RouterInv /\ [Routers!Next]_(Routers!vars) => RouterInv'
<1> SUFFICES ASSUME RouterInv, [Routers!Next]_(Routers!vars) PROVE RouterInv'
    OBVIOUS
<1>0. RouterTypes /\ RouterTypes'
  BY RouterTypesStep DEF RouterInv
<1> USE DEF Routers!GoTo, Routers!command
<1>1. CASE UNCHANGED Routers!vars
  BY <1>1
  DEF Routers!vars, RouterInv, RouterTypes, RouterOutWhileMarked, RouterNotBothPassed,
      RouterPassed
<1>2. ASSUME NEW r \in Router, Routers!Request(r) \/ Routers!Postpone(r) PROVE RouterInv'
  BY <1>0, <1>2, RouterQuietStep DEF Routers!Request, Routers!Postpone
<1>3. ASSUME NEW r \in Router, NEW s \in Routers!KeepalivedState,
             Routers!Change(r, s) \/ Routers!NotifySwitch(r, s) \/ Routers!NotifyWrite(r, s)
      PROVE RouterInv'
  BY <1>0, <1>3, RouterQuietStep DEF Routers!Change, Routers!NotifySwitch, Routers!NotifyWrite
<1>10. ASSUME NEW r \in Router, Routers!KeepCurrent(r) \/ Routers!SwitchToCurrent(r)
       PROVE RouterInv'
  BY <1>0, <1>10, RouterQuietStep DEF Routers!KeepCurrent, Routers!SwitchToCurrent
<1>4. ASSUME NEW r \in Router, Routers!Start(r) PROVE RouterInv'
  <2> USE <1>0, <1>4 DEF Routers!Start, RouterTypes, RouterBefore
  <2>1. RouterOutWhileMarked'
    BY DEF RouterInv, RouterOutWhileMarked
  <2>2. \A a \in Router \ {r}, b \in Router : RouterPassed(a, b)' => RouterPassed(a, b)
    BY DEF RouterPassed
  <2>3. \A b \in Router \ {r} : RouterPassed(r, b)' => RouterPassed(r, b)
    BY DEF RouterPassed
  <2>4. RouterNotBothPassed'
    BY <2>2, <2>3 DEF RouterInv, RouterNotBothPassed
  <2> QED
    BY <2>1, <2>4 DEF RouterInv
<1>5. ASSUME NEW r \in Router, NEW q \in Router, Routers!Ask(r, q) PROVE RouterInv'
  <2> USE <1>0, <1>5 DEF Routers!Ask, RouterTypes, RouterBefore
  <2>1. RouterOutWhileMarked'
    BY DEF RouterInv, RouterOutWhileMarked
  <2>2. \A a \in Router \ {r}, b \in Router : RouterPassed(a, b)' => RouterPassed(a, b)
    BY DEF RouterPassed
  <2>3. \A b \in Router \ {q} : RouterPassed(r, b)' => RouterPassed(r, b)
    BY DEF RouterPassed
  <2>4. RouterPassed(r, q)' => RouterPassed(r, q) \/ q \in in_service
    BY DEF RouterPassed
  <2>5. q \in in_service => ~RouterPassed(q, r)
    BY DEF RouterInv, RouterOutWhileMarked, RouterPassed
  <2>6. RouterNotBothPassed'
    BY <2>2, <2>3, <2>4, <2>5 DEF RouterInv, RouterNotBothPassed
  <2> QED
    BY <2>1, <2>6 DEF RouterInv
<1>6. ASSUME NEW r \in Router, Routers!Constraints(r) \/ Routers!GetState(r) PROVE RouterInv'
  BY <1>0, <1>6, RouterQuietStep
  DEF Routers!Constraints, Routers!GetState, RouterTypes, RouterBefore
<1>7. ASSUME NEW r \in Router,
             Routers!WriteMarker(r) \/ Routers!Reset(r) \/ Routers!ResetMarker(r)
      PROVE RouterInv'
  BY <1>0, <1>7, RouterQuietStep
  DEF Routers!WriteMarker, Routers!Reset, Routers!ResetMarker, RouterTypes, RouterBefore
<1>8. ASSUME NEW r \in Router, Routers!WaitForBackup(r) \/ Routers!SwitchoverTimeout(r)
      PROVE RouterInv'
  BY <1>0, <1>8, RouterQuietStep
  DEF Routers!WaitForBackup, Routers!SwitchoverTimeout, RouterTypes, RouterBefore
<1>9. ASSUME NEW r \in Router, Routers!Finish(r) \/ Routers!BackInService(r) \/ Routers!Crash(r)
      PROVE RouterInv'
  BY <1>0, <1>9, RouterQuietStep
  DEF Routers!Finish, Routers!BackInService, Routers!Crash, RouterTypes, RouterBefore
<1> QED
  BY <1>1, <1>2, <1>3, <1>4, <1>5, <1>6, <1>7, <1>8, <1>9, <1>10 DEF Routers!Next, Routers!Step

---------------------------------------------------------------------------
(***************************************************************************)
(* The other variables of the k3s cluster and what is left of its bounds.  *)
(***************************************************************************)
K3sLeft == [requests : Nat, failures : Nat, crashes : Nat, hands : Nat]

K3sRest == pods \subseteq K3sNode /\ due \subseteq K3sNode /\ left \in K3sLeft

\* What is left of a bound after it was used.
LEMMA K3sUses ==
  ASSUME left \in K3sLeft,
         \/ K3s!Use("requests") \/ K3s!Use("failures") \/ K3s!Use("crashes") \/ K3s!Use("hands")
  PROVE  left' \in K3sLeft
<1>1. CASE K3s!Use("requests")
  BY <1>1 DEF K3s!Use, K3sLeft
<1>2. CASE K3s!Use("failures")
  BY <1>2 DEF K3s!Use, K3sLeft
<1>3. CASE K3s!Use("crashes")
  BY <1>3 DEF K3s!Use, K3sLeft
<1>4. CASE K3s!Use("hands")
  BY <1>4 DEF K3s!Use, K3sLeft
<1> QED
  BY <1>1, <1>2, <1>3, <1>4

\* Every step keeps these types, too.
LEMMA K3sRestStep == K3sRest /\ [K3s!Next]_(K3s!vars) => K3sRest'
<1> SUFFICES ASSUME K3sRest, [K3s!Next]_(K3s!vars) PROVE K3sRest'
    OBVIOUS
<1>1. left' \in K3sLeft
  <2>1. \/ left' = left \/ K3s!Use("requests") \/ K3s!Use("failures")
        \/ K3s!Use("crashes") \/ K3s!Use("hands")
    BY DEF K3s!Next, K3s!Step, K3s!vars, K3s!StartPods, K3s!EndPods, K3s!Request, K3s!Postpone,
           K3s!DrainByHand, K3s!ReadyByHand, K3s!Start, K3s!Ask, K3s!Constraints, K3s!DrainCheck,
           K3s!SetLabel, K3s!Cordon, K3s!Drained, K3s!DrainTimeout, K3s!Finish, K3s!ReadyCheck,
           K3s!Uncordon, K3s!RemoveLabel, K3s!Crash
  <2> QED
    BY <2>1, K3sUses DEF K3sRest
<1>2. pods' \subseteq K3sNode /\ due' \subseteq K3sNode
  BY DEF K3sRest, K3s!cluster, K3s!Next, K3s!Step, K3s!vars, K3s!StartPods, K3s!EndPods,
         K3s!Request, K3s!Postpone, K3s!DrainByHand, K3s!ReadyByHand, K3s!Start, K3s!Ask,
         K3s!Constraints, K3s!DrainCheck, K3s!SetLabel, K3s!Cordon, K3s!Drained,
         K3s!DrainTimeout, K3s!Finish, K3s!ReadyCheck, K3s!Uncordon, K3s!RemoveLabel, K3s!Crash
<1> QED
  BY <1>1, <1>2 DEF K3sRest

---------------------------------------------------------------------------
(***************************************************************************)
(* Routers: the other variables, and what running notify commands leave    *)
(* behind when nothing else switches meanwhile and none fails.             *)
(***************************************************************************)
RouterLeft ==
  [requests : Nat, changes : Nat, failures : Nat, crashes : Nat, switches : Nat]

RouterRest ==
  /\ keepalived \in [Router -> Routers!KeepalivedState]
  /\ state_file \in [Router -> Routers!KeepalivedState]
  /\ notify \in [Router -> [Routers!KeepalivedState -> {"none", "switch", "write"}]]
  /\ primary \subseteq Router /\ due \subseteq Router /\ unsure \subseteq Router
  /\ switching \in [Router -> {"none", "primary", "base"}]
  /\ left \in RouterLeft

(* The only command that runs is that for the last change. When it has     *)
(* switched, the system is right; when it has ended, the state file, too.  *)
(* A switch of the agent runs alone, and to the system that is there.      *)
NotifyOf(r) ==
  /\ \A s \in Routers!KeepalivedState : notify[r][s] # "none" => s = keepalived[r]
  /\ notify[r][keepalived[r]] = "write" => (r \in primary <=> keepalived[r] = "master")
  /\ Routers!Quiet(r) => /\ state_file[r] = keepalived[r]
                         /\ r \in primary <=> keepalived[r] = "master"
  /\ switching[r] # "none" => /\ Routers!Quiet(r)
                              /\ switching[r] = "primary" <=> r \in primary

NotifyInv == \A r \in Router \ unsure : NotifyOf(r)

\* In the beginning every router is a backup and no command runs.
LEMMA RouterRestInit == Routers!RouterAssumption /\ Routers!Init => RouterRest /\ NotifyInv
  BY DEF Routers!RouterAssumption, Routers!Init, RouterRest, RouterLeft, NotifyInv,
         NotifyOf, Routers!KeepalivedState, Routers!Quiet

\* What is left of a bound after it was used.
LEMMA RouterUses ==
  ASSUME left \in RouterLeft,
         \/ Routers!Use("requests") \/ Routers!Use("changes")
         \/ Routers!Use("failures") \/ Routers!Use("crashes") \/ Routers!Use("switches")
  PROVE  left' \in RouterLeft
<1>1. CASE Routers!Use("requests")
  BY <1>1 DEF Routers!Use, RouterLeft
<1>2. CASE Routers!Use("changes")
  BY <1>2 DEF Routers!Use, RouterLeft
<1>3. CASE Routers!Use("failures")
  BY <1>3 DEF Routers!Use, RouterLeft
<1>4. CASE Routers!Use("crashes")
  BY <1>4 DEF Routers!Use, RouterLeft
<1>5. CASE Routers!Use("switches")
  BY <1>5 DEF Routers!Use, RouterLeft
<1> QED
  BY <1>1, <1>2, <1>3, <1>4, <1>5

\* A change of keepalived's state starts its command. Others that still run make it unsure what
\* they leave behind.
LEMMA RouterChange ==
  ASSUME RouterRest, NotifyInv, NEW r \in Router, NEW s \in Routers!KeepalivedState,
         Routers!Change(r, s)
  PROVE  RouterRest' /\ NotifyInv'
<1>1. left' \in RouterLeft
  BY RouterUses DEF Routers!Change, RouterRest
<1>2. /\ keepalived' = [keepalived EXCEPT ![r] = s]
      /\ notify' = [notify EXCEPT ![r] = [notify[r] EXCEPT ![s] = "switch"]]
      /\ unsure' = IF Routers!Alone(r) THEN unsure \ {r} ELSE unsure \cup {r}
      /\ UNCHANGED <<primary, switching, state_file, due>>
  BY DEF Routers!Change
<1>3. RouterRest'
  <2>1. [notify[r] EXCEPT ![s] = "switch"]
          \in [Routers!KeepalivedState -> {"none", "switch", "write"}]
    BY DEF RouterRest
  <2> QED
    BY <1>1, <1>2, <2>1 DEF RouterRest
<1>4. ASSUME NEW q \in Router \ unsure', q # r PROVE q \in Router \ unsure
  BY <1>2, <1>4
<1>5. ASSUME Routers!Alone(r)
      PROVE  /\ notify'[r][s] = "switch" /\ keepalived'[r] = s
             /\ \A t \in Routers!KeepalivedState \ {s} : notify'[r][t] = "none"
             /\ switching'[r] = "none"
  BY <1>2, <1>5 DEF RouterRest, Routers!Quiet, Routers!Alone
<1>6. NotifyInv'
  <2> SUFFICES ASSUME NEW q \in Router \ unsure'
               PROVE  NotifyOf(q)'
    BY DEF NotifyInv, NotifyOf
  <2>1. CASE q = r
    <3>1. Routers!Alone(r)
      BY <1>2, <2>1
    <3> QED
      BY <1>5, <2>1, <3>1 DEF NotifyOf, Routers!Quiet
  <2>2. CASE q # r
    <3>1. notify'[q] = notify[q] /\ keepalived'[q] = keepalived[q]
      BY <1>2, <2>2 DEF RouterRest
    <3>2. q \in Router \ unsure
      BY <1>4, <2>2
    <3> QED
      BY <1>2, <3>1, <3>2 DEF NotifyInv, NotifyOf, Routers!Quiet
  <2> QED
    BY <2>1, <2>2
<1> QED
  BY <1>3, <1>6

\* A command switches the system, or fails and makes it unsure what runs.
LEMMA RouterSwitch ==
  ASSUME RouterRest, NotifyInv, NEW r \in Router, NEW s \in Routers!KeepalivedState,
         Routers!NotifySwitch(r, s)
  PROVE  RouterRest' /\ NotifyInv'
<1>1. left' \in RouterLeft
  BY RouterUses DEF Routers!NotifySwitch, RouterRest
<1>2. PICK phase \in {"none", "write"} :
        /\ notify' = [notify EXCEPT ![r] = [notify[r] EXCEPT ![s] = phase]]
        /\ IF phase = "write"
           THEN /\ primary' = IF s = "master" THEN primary \cup {r} ELSE primary \ {r}
                /\ unsure' = unsure
           ELSE unsure' = unsure \cup {r} /\ primary' = primary
  BY DEF Routers!NotifySwitch, Routers!specialisation
<1>3. notify[r][s] = "switch" /\ UNCHANGED <<keepalived, switching, state_file, due>>
  BY DEF Routers!NotifySwitch
<1>4. RouterRest'
  <2>1. [notify[r] EXCEPT ![s] = phase]
          \in [Routers!KeepalivedState -> {"none", "switch", "write"}]
    BY DEF RouterRest
  <2> QED
    BY <1>1, <1>2, <1>3, <2>1 DEF RouterRest
<1>5. NotifyInv'
  <2> SUFFICES ASSUME NEW q \in Router \ unsure'
               PROVE  NotifyOf(q)'
    BY DEF NotifyInv, NotifyOf
  <2>0. q \in Router \ unsure
    BY <1>2
  <2>1. CASE q = r
    <3>1. phase = "write" /\ s = keepalived[r]
      BY <1>2, <1>3, <2>0, <2>1 DEF NotifyInv, NotifyOf
    <3>2. notify'[r][s] = "write"
      BY <1>2, <3>1 DEF RouterRest
    <3>3. \A t \in Routers!KeepalivedState \ {s} : notify'[r][t] = notify[r][t]
      BY <1>2 DEF RouterRest
    <3> QED
      BY <1>2, <1>3, <2>0, <2>1, <3>1, <3>2, <3>3 DEF NotifyInv, NotifyOf, Routers!Quiet
  <2>2. CASE q # r
    <3>1. notify'[q] = notify[q] /\ (q \in primary' <=> q \in primary)
      BY <1>2, <2>2 DEF RouterRest
    <3> QED
      BY <1>3, <2>0, <3>1 DEF NotifyInv, NotifyOf, Routers!Quiet
  <2> QED
    BY <2>1, <2>2
<1> QED
  BY <1>4, <1>5

\* A command writes the state it was started for.
LEMMA RouterWrite ==
  ASSUME RouterRest, NotifyInv, NEW r \in Router, NEW s \in Routers!KeepalivedState,
         Routers!NotifyWrite(r, s)
  PROVE  RouterRest' /\ NotifyInv'
<1>1. /\ notify[r][s] = "write"
      /\ notify' = [notify EXCEPT ![r] = [notify[r] EXCEPT ![s] = "none"]]
      /\ state_file' = [state_file EXCEPT ![r] = s]
      /\ UNCHANGED <<keepalived, primary, switching, due, unsure, left>>
  BY DEF Routers!NotifyWrite
<1>2. RouterRest'
  <2>1. [notify[r] EXCEPT ![s] = "none"]
          \in [Routers!KeepalivedState -> {"none", "switch", "write"}]
    BY DEF RouterRest
  <2> QED
    BY <1>1, <2>1 DEF RouterRest
<1>3. NotifyInv'
  <2> SUFFICES ASSUME NEW q \in Router \ unsure
               PROVE  NotifyOf(q)'
    BY <1>1 DEF NotifyInv, NotifyOf
  <2>1. CASE q = r
    <3>1. s = keepalived[r] /\ (r \in primary <=> s = "master")
      BY <1>1, <2>1 DEF NotifyInv, NotifyOf
    <3>2. notify'[r][s] = "none" /\ state_file'[r] = s
      BY <1>1 DEF RouterRest
    <3>3. \A t \in Routers!KeepalivedState \ {s} : notify'[r][t] = notify[r][t]
      BY <1>1 DEF RouterRest
    <3> QED
      BY <1>1, <2>1, <3>1, <3>2, <3>3 DEF NotifyInv, NotifyOf, Routers!Quiet
  <2>2. CASE q # r
    <3>1. notify'[q] = notify[q] /\ state_file'[q] = state_file[q]
      BY <1>1, <2>2 DEF RouterRest
    <3> QED
      BY <1>1, <3>1 DEF NotifyInv, NotifyOf, Routers!Quiet
  <2> QED
    BY <2>1, <2>2
<1> QED
  BY <1>2, <1>3

\* The agent's switch reads the specialisation. A notify command that runs makes it unsure
\* what it leaves behind.
LEMMA RouterKeep ==
  ASSUME RouterRest, NotifyInv, NEW r \in Router, Routers!KeepCurrent(r)
  PROVE  RouterRest' /\ NotifyInv'
<1>1. left' \in RouterLeft
  BY RouterUses DEF Routers!KeepCurrent, RouterRest
<1>2. /\ switching' = [switching EXCEPT ![r] = IF r \in primary THEN "primary" ELSE "base"]
      /\ unsure' = IF Routers!Quiet(r) THEN unsure ELSE unsure \cup {r}
      /\ UNCHANGED <<keepalived, notify, primary, state_file, due>>
  BY DEF Routers!KeepCurrent
<1>3. RouterRest'
  BY <1>1, <1>2 DEF RouterRest
<1>4. \A q \in Router : switching'[q] = IF q # r THEN switching[q]
                                        ELSE IF r \in primary THEN "primary" ELSE "base"
  BY <1>2 DEF RouterRest
<1>5. \A q \in Router \ unsure' : q \in Router \ unsure /\ (q = r => Routers!Quiet(r))
  BY <1>2
<1>6. ASSUME NEW q \in Router \ unsure' PROVE NotifyOf(q)'
  BY <1>2, <1>4, <1>5, <1>6 DEF NotifyInv, NotifyOf, Routers!Quiet
<1> QED
  BY <1>3, <1>6 DEF NotifyInv

\* Then it switches, to what is there already unless it is unsure.
LEMMA RouterCurrent ==
  ASSUME RouterRest, NotifyInv, NEW r \in Router, Routers!SwitchToCurrent(r)
  PROVE  RouterRest' /\ NotifyInv'
<1>1. /\ switching[r] # "none"
      /\ \/ primary' = IF switching[r] = "primary" THEN primary \cup {r} ELSE primary \ {r}
         \/ UNCHANGED primary
      /\ switching' = [switching EXCEPT ![r] = "none"]
      /\ UNCHANGED <<keepalived, notify, state_file, due, unsure, left>>
  BY DEF Routers!SwitchToCurrent
<1>2. RouterRest'
  BY <1>1 DEF RouterRest
<1>3. \A q \in Router : switching'[q] = IF q = r THEN "none" ELSE switching[q]
  BY <1>1 DEF RouterRest
<1>4. ASSUME NEW q \in Router \ unsure PROVE NotifyOf(q)'
  <2>1. q \in primary' <=> q \in primary
    BY <1>1, <1>4 DEF NotifyInv, NotifyOf
  <2> QED
    BY <1>1, <1>3, <1>4, <2>1 DEF NotifyInv, NotifyOf, Routers!Quiet
<1> QED
  BY <1>1, <1>2, <1>4 DEF NotifyInv

\* Every step keeps these types and what the commands leave behind.
LEMMA RouterRestStep ==
  RouterRest /\ NotifyInv /\ [Routers!Next]_(Routers!vars) => RouterRest' /\ NotifyInv'
<1> SUFFICES ASSUME RouterRest, NotifyInv, [Routers!Next]_(Routers!vars)
             PROVE  RouterRest' /\ NotifyInv'
    OBVIOUS
<1>1. CASE \E r \in Router, s \in Routers!KeepalivedState :
             Routers!Change(r, s) \/ Routers!NotifySwitch(r, s) \/ Routers!NotifyWrite(r, s)
  BY <1>1, RouterChange, RouterSwitch, RouterWrite
<1>2. CASE \/ UNCHANGED Routers!vars
           \/ \E r \in Router : \/ Routers!Request(r) \/ Routers!Postpone(r)
                                \/ Routers!Step(r) \/ Routers!Crash(r)
  <2>1. UNCHANGED <<Routers!failover, unsure>>
    BY <1>2
    DEF Routers!vars, Routers!Request, Routers!Postpone, Routers!Step, Routers!Crash,
        Routers!Start, Routers!Ask, Routers!Constraints, Routers!GetState, Routers!WriteMarker,
        Routers!WaitForBackup, Routers!SwitchoverTimeout, Routers!Reset, Routers!Finish,
        Routers!ResetMarker, Routers!BackInService
  <2>2. \/ left' = left \/ Routers!Use("requests") \/ Routers!Use("crashes")
    BY <1>2
    DEF Routers!vars, Routers!Request, Routers!Postpone, Routers!Step, Routers!Crash,
        Routers!Start, Routers!Ask, Routers!Constraints, Routers!GetState, Routers!WriteMarker,
        Routers!WaitForBackup, Routers!SwitchoverTimeout, Routers!Reset, Routers!Finish,
        Routers!ResetMarker, Routers!BackInService
  <2>3. due' \subseteq Router
    BY <1>2
    DEF RouterRest, Routers!vars, Routers!Request, Routers!Postpone, Routers!Step, Routers!Crash,
        Routers!Start, Routers!Ask, Routers!Constraints, Routers!GetState, Routers!WriteMarker,
        Routers!WaitForBackup, Routers!SwitchoverTimeout, Routers!Reset, Routers!Finish,
        Routers!ResetMarker, Routers!BackInService
  <2>4. RouterRest'
    BY <2>1, <2>2, <2>3, RouterUses DEF RouterRest, Routers!failover
  <2>5. NotifyInv'
    BY <2>1 DEF NotifyInv, NotifyOf, Routers!failover, Routers!Quiet
  <2> QED
    BY <2>4, <2>5
<1>3. CASE \E r \in Router : Routers!KeepCurrent(r) \/ Routers!SwitchToCurrent(r)
  BY <1>3, RouterKeep, RouterCurrent
<1> QED
  BY <1>1, <1>2, <1>3 DEF Routers!Next

---------------------------------------------------------------------------
(***************************************************************************)
(* The virtual machine: every variable keeps its type. A merge changes the *)
(* values of an activity and a step of the queue its state; a request that *)
(* exists always has both.                                                 *)
(***************************************************************************)
VmRequest == [state : Vm!State \ {"none"}, activity : Vm!VMChangeActivity]

VmInv == Vm!TypeOK /\ (change = Vm!NoChange \/ change \in VmRequest)

\* What hosts write are files that a machine can have, and the guest properties are readable.
LEMMA VmWritten ==
  ASSUME NEW files \in Vm!Files, NEW env \in Vm!Env
  PROVE  /\ Vm!Written(files, env) \in Vm!Files
         /\ files.properties # Vm!Broken => Vm!Written(files, env).properties # Vm!Broken
<1>1. env # Vm!Broken
  BY DEF Vm!Env, Vm!Broken, Vm!Size, Vm!None
<1>2. CASE env.properties = Vm!None
  BY <1>2 DEF Vm!Written, Vm!Files, Vm!Env
<1>3. CASE env.properties # Vm!None
  BY <1>1, <1>3 DEF Vm!Written, Vm!Files
<1> QED
  BY <1>2, <1>3

\* Nothing is written yet.
LEMMA VmNoFiles == Vm!NoFiles \in Vm!Files /\ Vm!NoFiles.properties # Vm!Broken
  BY DEF Vm!NoFiles, Vm!Files, Vm!Missing, Vm!Broken, Vm!None

\* In the beginning nothing is requested.
LEMMA VmInitInv == Vm!Init => VmInv
<1> SUFFICES ASSUME Vm!Init PROVE VmInv
    OBVIOUS
<1>1. host \in Vm!Env /\ current = Vm!Written(Vm!NoFiles, host) /\ booted = current
  BY DEF Vm!Init
<1>2. current \in Vm!Files /\ booted \in Vm!Files /\ current.properties # Vm!Broken
  BY <1>1, VmWritten, VmNoFiles
<1> QED
  BY <1>1, <1>2 DEF Vm!Init, VmInv, Vm!TypeOK, Vm!NoChange, Vm!NoReboot, Vm!State, Vm!Size

\* A request for memory or cores is a new one, a merged one, or none.
LEMMA VmRequestChange ==
  ASSUME VmInv, NEW memory \in {Vm!None} \cup Vm!Size, NEW cores \in {Vm!None} \cup Vm!Size,
         Vm!RequestChange(memory, cores)
  PROVE  change' = Vm!NoChange \/ change' \in VmRequest
<1> DEFINE new == [memory |-> memory, cores |-> cores,
                   current_memory |-> vm.memory, current_cores |-> vm.cores]
           merged == Vm!merge(change.activity, new)
<1>1. new \in Vm!VMChangeActivity
  BY DEF VmInv, Vm!TypeOK, Vm!VMChangeActivity
<1>2. CASE change' = change
  BY <1>2 DEF VmInv
<1>3. CASE change' = [state |-> "pending", activity |-> new]
  BY <1>1, <1>3 DEF VmRequest, Vm!State
<1>4. ASSUME change \in VmRequest,
             \/ change' = [change EXCEPT !.activity = merged]
             \/ change' = [change EXCEPT !.state = "deleted"]
      PROVE  change' \in VmRequest
  <2>1. merged \in Vm!VMChangeActivity
    BY <1>1, <1>4 DEF VmRequest, Vm!merge, Vm!Latest, Vm!VMChangeActivity
  <2> HIDE DEF merged
  <2> QED
    BY <1>4, <2>1 DEF VmRequest, Vm!State
<1>5. change \notin VmRequest => change.state = "none"
  BY DEF VmInv, Vm!NoChange
<1>6. change \in VmRequest => change.state # "none"
  BY DEF VmRequest
<1>7. change' = CASE ~Vm!is_effective(new) -> change
                  [] Vm!is_effective(new) /\ change.state = "none" ->
                       [state |-> "pending", activity |-> new]
                  [] OTHER -> IF Vm!is_effective(merged) THEN [change EXCEPT !.activity = merged]
                              ELSE [change EXCEPT !.state = "deleted"]
  BY DEF Vm!RequestChange
<1> HIDE DEF new, merged
<1> QED
  BY <1>2, <1>3, <1>4, <1>5, <1>6, <1>7

\* Every step keeps the types.
LEMMA VmInvStep == VmInv /\ [Vm!Next]_(Vm!vars) => VmInv'
<1> SUFFICES ASSUME VmInv, [Vm!Next]_(Vm!vars) PROVE VmInv'
    OBVIOUS
<1> USE DEF VmInv, Vm!machine, Vm!queue
<1>1. CASE UNCHANGED Vm!vars
  BY <1>1 DEF Vm!vars, Vm!TypeOK, VmRequest, Vm!NoChange
<1>2. CASE Vm!Wish \/ Vm!Migrate \/ Vm!Kill \/ Vm!UpdateEnc
  BY <1>2 DEF Vm!Wish, Vm!Migrate, Vm!Kill, Vm!UpdateEnc, Vm!TypeOK, Vm!Size
<1>3. CASE Vm!Provide
  <2>1. current' \in Vm!Files /\ current'.properties # Vm!Broken
    BY <1>3, VmWritten DEF Vm!Provide, Vm!TypeOK
  <2> QED
    BY <1>3, <2>1 DEF Vm!Provide, Vm!TypeOK
<1>4. ASSUME NEW cold \in BOOLEAN, Vm!Boot(cold) \/ Vm!Start(cold) PROVE VmInv'
  <2>1. current' \in Vm!Files /\ current'.properties # Vm!Broken
    BY <1>4, VmWritten, VmNoFiles DEF Vm!Boot, Vm!Start, Vm!TypeOK
  <2>2. booted' \in Vm!Files
    <3>1. CASE booted' = Vm!Written(booted, host)
      BY <3>1, VmWritten DEF Vm!TypeOK
    <3>2. CASE booted' = [booted EXCEPT !.properties = Vm!Broken]
      BY <3>2 DEF Vm!TypeOK, Vm!Files
    <3>3. CASE booted' = booted
      BY <3>3 DEF Vm!TypeOK
    <3> QED
      BY <1>4, <3>1, <3>2, <3>3 DEF Vm!Boot, Vm!Start, Vm!Seeded
  <2>3. /\ pc' = "idle" /\ (vm' = wanted \/ vm' = vm)
        /\ UNCHANGED <<wanted, enc, host, change, reboot>>
    BY <1>4 DEF Vm!Boot, Vm!Start
  <2> QED
    BY <2>1, <2>2, <2>3 DEF Vm!TypeOK
<1>5. CASE Vm!AskForReboot \/ Vm!request_reboot_for_kvm_environment
  <2>1. reboot' = reboot \/ \E cold \in BOOLEAN : Vm!RequestReboot(cold)
    BY <1>5 DEF Vm!AskForReboot, Vm!request_reboot_for_kvm_environment
  <2>2. ASSUME NEW cold \in BOOLEAN, Vm!RequestReboot(cold)
        PROVE  reboot' \in [state : Vm!State, cold : BOOLEAN] /\ reboot'.state # "deleted"
    <3>1. (reboot.cold \/ cold) \in BOOLEAN
      BY <2>2 DEF Vm!TypeOK
    <3>2. \/ reboot' = [state |-> "pending", cold |-> reboot.cold \/ cold]
          \/ reboot' = [state |-> reboot.state, cold |-> reboot.cold \/ cold]
      BY <2>2 DEF Vm!RequestReboot
    <3> QED
      BY <3>1, <3>2 DEF Vm!TypeOK, Vm!State
  <2>3. reboot' \in [state : Vm!State, cold : BOOLEAN] /\ reboot'.state # "deleted"
    BY <2>1, <2>2 DEF Vm!TypeOK
  <2> QED
    BY <1>5, <2>3
    DEF Vm!AskForReboot, Vm!request_reboot_for_kvm_environment, Vm!TypeOK, VmRequest, Vm!NoChange
<1>6. CASE Vm!request_reboot_for_memory \/ Vm!request_reboot_for_cpu
  <2>1. change' = Vm!NoChange \/ change' \in VmRequest
    BY <1>6, VmRequestChange
    DEF Vm!request_reboot_for_memory, Vm!request_reboot_for_cpu, Vm!TypeOK
  <2> QED
    BY <1>6, <2>1
    DEF Vm!request_reboot_for_memory, Vm!request_reboot_for_cpu, Vm!TypeOK, VmRequest,
        Vm!NoChange, Vm!State
<1>7. CASE Vm!Due
  <2>1. reboot' \in [state : Vm!State, cold : BOOLEAN] /\ reboot'.state # "deleted"
    BY <1>7 DEF Vm!Due, Vm!TypeOK, Vm!State
  <2>2. change' = Vm!NoChange \/ change' \in VmRequest
    BY <1>7 DEF Vm!Due, VmRequest, Vm!NoChange, Vm!State
  <2> QED
    BY <1>7, <2>1, <2>2 DEF Vm!Due, Vm!TypeOK, VmRequest, Vm!NoChange, Vm!State
<1>8. CASE Vm!Run
  <2>1. reboot' \in [state : Vm!State, cold : BOOLEAN] /\ reboot'.state # "deleted"
    BY <1>8 DEF Vm!Run, Vm!TypeOK, Vm!State, Vm!NoReboot
  <2>2. change' = Vm!NoChange \/ change' \in VmRequest
    <3>1. \/ change' = change \/ change' = Vm!NoChange
          \/ change.state = "due" /\ change' = [change EXCEPT !.state = "success"]
      BY <1>8 DEF Vm!Run
    <3> QED
      BY <3>1 DEF VmRequest, Vm!NoChange, Vm!State
  <2>3. pc' \in {"poweroff", "reboot", "idle"}
    BY <1>8 DEF Vm!Run
  <2> QED
    BY <1>8, <2>1, <2>2, <2>3 DEF Vm!Run, Vm!TypeOK, VmRequest, Vm!NoChange, Vm!State
<1> QED
  BY <1>1, <1>2, <1>3, <1>4, <1>5, <1>6, <1>7, <1>8
  DEF Vm!Next, Vm!AgentStep, Vm!RebootAndExit

---------------------------------------------------------------------------
(***************************************************************************)
(* Slurm: what SlurmMaintenanceProofs shows, of the nodes of this module.  *)
(***************************************************************************)
SlurmShown == INSTANCE SlurmMaintenanceProofs WITH Node <- SlurmNode, Bounds <- SlurmBounds

\* The steps that it speaks of are those of Slurm: one action after the other.
LEMMA SlurmStarts ==
  ASSUME NEW m \in Slurm!Machine
  PROVE  /\ Slurm!Start(m) => SlurmShown!Start(m)
         /\ Slurm!Finish(m) => SlurmShown!Finish(m)
         /\ Slurm!Crash(m) => SlurmShown!Crash(m)
         /\ Slurm!Timeout(m) => SlurmShown!Timeout(m)
         /\ Slurm!Work(m) => SlurmShown!Work(m)
         /\ Slurm!Request(m) => SlurmShown!Request(m)
  BY DEF Slurm!Start, Slurm!Enter, Slurm!Leave, Slurm!Finish, Slurm!BackInService,
         Slurm!Crash, Slurm!Timeout, Slurm!Work, Slurm!Request, Slurm!Ready, Slurm!GoTo,
         Slurm!Choose, Slurm!End, Slurm!Look, Slurm!Nodes, Slurm!Machine, Slurm!slurm,
         Slurm!run, SlurmShown!Start, SlurmShown!Enter, SlurmShown!Leave, SlurmShown!Finish,
         SlurmShown!BackInService, SlurmShown!Crash, SlurmShown!Timeout, SlurmShown!Work,
         SlurmShown!Request, SlurmShown!Ready, SlurmShown!GoTo, SlurmShown!Choose,
         SlurmShown!End, SlurmShown!Look, SlurmShown!Nodes, SlurmShown!Machine,
         SlurmShown!slurm, SlurmShown!run

\* Draining.
LEMMA SlurmDrains ==
  ASSUME NEW m \in Slurm!Machine
  PROVE  /\ Slurm!DrainChecked(m) => SlurmShown!DrainChecked(m)
         /\ Slurm!Drained(m) => SlurmShown!Drained(m)
         /\ Slurm!DrainWait(m) => SlurmShown!DrainWait(m)
         /\ \A n \in SlurmNode :
              /\ Slurm!DrainCheck(m, n) => SlurmShown!DrainCheck(m, n)
              /\ Slurm!DrainNode(m, n) => SlurmShown!DrainNode(m, n)
              /\ Slurm!DrainPoll(m, n) => SlurmShown!DrainPoll(m, n)
              /\ Slurm!DownNode(m, n) => SlurmShown!DownNode(m, n)
  BY DEF Slurm!DrainChecked, Slurm!Drained, Slurm!DrainWait, Slurm!Wait, Slurm!DrainCheck,
         Slurm!DrainNode, Slurm!DrainPoll, Slurm!DownNode, Slurm!Drain, Slurm!Down,
         Slurm!Reason, Slurm!is_node_drained, Slurm!GoTo, Slurm!Choose, Slurm!End,
         Slurm!Look, Slurm!Nodes, Slurm!Machine, Slurm!slurm, Slurm!run,
         SlurmShown!DrainChecked, SlurmShown!Drained, SlurmShown!DrainWait, SlurmShown!Wait,
         SlurmShown!DrainCheck, SlurmShown!DrainNode, SlurmShown!DrainPoll,
         SlurmShown!DownNode, SlurmShown!Drain, SlurmShown!Down, SlurmShown!Reason,
         SlurmShown!is_node_drained, SlurmShown!GoTo, SlurmShown!Choose, SlurmShown!End,
         SlurmShown!Look, SlurmShown!Nodes, SlurmShown!Machine, SlurmShown!slurm,
         SlurmShown!run

\* The command of the controller.
LEMMA SlurmReadies == Slurm!ReadyStep => SlurmShown!ReadyStep
  BY DEF Slurm!ReadyStep, Slurm!AskedRequired, Slurm!ReadyChecked, Slurm!Readied,
         Slurm!ReadyWait, Slurm!AskRequired, Slurm!ReadyCheck, Slurm!ReadyNode,
         Slurm!ReadyPoll, Slurm!Wait, Slurm!Resume, Slurm!BackInService,
         Slurm!ready_pre_checks, Slurm!is_node_ready, Slurm!AgentReason, Slurm!GoTo,
         Slurm!Choose, Slurm!End, Slurm!Look, Slurm!Nodes, Slurm!Machine, Slurm!slurm,
         Slurm!run, SlurmShown!ReadyStep, SlurmShown!AskedRequired, SlurmShown!ReadyChecked,
         SlurmShown!Readied, SlurmShown!ReadyWait, SlurmShown!AskRequired,
         SlurmShown!ReadyCheck, SlurmShown!ReadyNode, SlurmShown!ReadyPoll, SlurmShown!Wait,
         SlurmShown!Resume, SlurmShown!BackInService, SlurmShown!ready_pre_checks,
         SlurmShown!is_node_ready, SlurmShown!AgentReason, SlurmShown!GoTo,
         SlurmShown!Choose, SlurmShown!End, SlurmShown!Look, SlurmShown!Nodes,
         SlurmShown!Machine, SlurmShown!slurm, SlurmShown!run

\* Jobs and administrators.
LEMMA SlurmOthers ==
  /\ Slurm!ByHand <=> SlurmShown!ByHand
  /\ \A n \in SlurmNode : /\ Slurm!StartJob(n) => SlurmShown!StartJob(n)
                          /\ Slurm!EndJob(n) => SlurmShown!EndJob(n)
  BY DEF Slurm!ByHand, Slurm!DrainByHand, Slurm!DownByHand, Slurm!ReadyByHand, Slurm!Drain,
         Slurm!Down, Slurm!Resume, Slurm!is_node_ready, Slurm!Nodes, Slurm!Machine, Slurm!Entering,
         Slurm!StartJob, Slurm!EndJob, Slurm!slurm, Slurm!run, SlurmShown!ByHand,
         SlurmShown!DrainByHand, SlurmShown!DownByHand, SlurmShown!ReadyByHand, SlurmShown!Drain,
         SlurmShown!Down, SlurmShown!Resume, SlurmShown!is_node_ready, SlurmShown!Nodes,
         SlurmShown!Machine, SlurmShown!Entering, SlurmShown!StartJob, SlurmShown!EndJob, SlurmShown!slurm, SlurmShown!run

\* Together.
LEMMA SlurmStep == [Slurm!Next]_(Slurm!vars) => [SlurmShown!Next]_(SlurmShown!vars)
<1> SUFFICES ASSUME [Slurm!Next]_(Slurm!vars) PROVE [SlurmShown!Next]_(SlurmShown!vars)
    OBVIOUS
<1>1. Slurm!Machine = SlurmShown!Machine
  BY DEF Slurm!Machine, SlurmShown!Machine
<1>2. CASE UNCHANGED Slurm!vars
  BY <1>2 DEF Slurm!vars, SlurmShown!vars, Slurm!slurm, SlurmShown!slurm, Slurm!run, SlurmShown!run
<1>3. CASE \E n \in SlurmNode : Slurm!StartJob(n) \/ Slurm!EndJob(n)
  BY <1>3, SlurmOthers DEF SlurmShown!Next
<1>4. ASSUME NEW m \in Slurm!Machine, Slurm!Request(m) \/ Slurm!Step(m) \/ Slurm!Crash(m)
      PROVE  SlurmShown!Next
  <2>1. SlurmShown!Request(m) \/ SlurmShown!Step(m) \/ SlurmShown!Crash(m)
    BY <1>4, SlurmStarts, SlurmDrains DEF Slurm!Step, SlurmShown!Step
  <2> QED
    BY <1>1, <2>1 DEF SlurmShown!Next
<1>5. CASE Slurm!ReadyStep \/ Slurm!ByHand
  BY <1>5, SlurmReadies, SlurmOthers DEF SlurmShown!Next
<1> QED
  BY <1>2, <1>3, <1>4, <1>5 DEF Slurm!Next

\* It starts as Slurm does.
LEMMA SlurmInit == Slurm!Init => SlurmShown!Init
  BY DEF Slurm!Init, SlurmShown!Init, Slurm!Machine, SlurmShown!Machine

---------------------------------------------------------------------------
(***************************************************************************)
(* The composition. A behaviour is one of a single kind of machines for    *)
(* ever, and its steps are those of that kind.                             *)
(***************************************************************************)

\* What is shown of the machines of each kind.
Inv ==
  /\ cluster \in {"slurm", "k3s", "routers", "vm"}
  /\ cluster = "slurm" => SlurmShown!Inv /\ SlurmShown!Rest
  /\ cluster = "k3s" => K3sInv /\ K3sRest
  /\ cluster = "routers" => RouterInv /\ RouterRest /\ NotifyInv
  /\ cluster = "vm" => VmInv

\* The step of a behaviour is one of its kind of machines.
LEMMA StepOfOne ==
  ASSUME [Next]_vars
  PROVE  /\ cluster' = cluster
         /\ cluster = "slurm" => [Slurm!Next]_(Slurm!vars)
         /\ cluster = "k3s" => [K3s!Next]_(K3s!vars)
         /\ cluster = "routers" => [Routers!Next]_(Routers!vars)
         /\ cluster = "vm" => [Vm!Next]_(Vm!vars)
<1>1. CASE UNCHANGED vars
  BY <1>1
  DEF vars, slurm, k3s, routers, machine, commands, Slurm!vars, Slurm!slurm, Slurm!run, K3s!vars,
      K3s!cluster, K3s!command, Routers!vars, Routers!failover, Routers!command, Vm!vars,
      Vm!machine, Vm!queue
<1>2. CASE SlurmNext
  BY <1>2 DEF SlurmNext, SlurmAction
<1>3. CASE K3sNext
  BY <1>3 DEF K3sNext, K3sAction
<1>4. CASE RoutersNext
  BY <1>4 DEF RoutersNext, RoutersAction
<1>5. CASE VmNext
  BY <1>5 DEF VmNext, VmAction
<1> QED
  BY <1>1, <1>2, <1>3, <1>4, <1>5 DEF Next

\* In the beginning.
LEMMA InitInv == NodesAssumption /\ Init => Inv
<1> SUFFICES ASSUME NodesAssumption, Init PROVE Inv
    OBVIOUS
<1>1. CASE cluster = "slurm" /\ Slurm!Init
  <2>1. SlurmShown!Inv
    BY <1>1, SlurmInit, SlurmShown!InitInv
  <2>2. SlurmShown!Rest
    BY <1>1
    DEF NodesAssumption, Slurm!SlurmAssumption, Slurm!Init, SlurmShown!Rest, SlurmShown!Machine
  <2> QED
    BY <1>1, <2>1, <2>2 DEF Inv
<1>2. CASE cluster = "k3s" /\ K3s!Init
  <2>1. K3sRest
    BY <1>2 DEF NodesAssumption, K3s!KubernetesAssumption, K3s!Init, K3sRest, K3sLeft
  <2> QED
    BY <1>2, <2>1, K3sInitInv DEF Inv
<1>3. CASE cluster = "routers" /\ Routers!Init
  BY <1>3, RouterInitInv, RouterRestInit DEF Inv, NodesAssumption
<1>4. CASE cluster = "vm" /\ Vm!Init
  BY <1>4, VmInitInv DEF Inv
<1> QED
  BY <1>1, <1>2, <1>3, <1>4 DEF Init

\* Every step keeps it.
LEMMA InvStep == Inv /\ [Next]_vars => Inv'
<1> SUFFICES ASSUME Inv, [Next]_vars PROVE Inv'
    OBVIOUS
<1>1. cluster' = cluster
  BY StepOfOne
<1>2. CASE cluster = "slurm"
  BY <1>1, <1>2, StepOfOne, SlurmStep, SlurmShown!InvStep, SlurmShown!RestStep DEF Inv
<1>3. CASE cluster = "k3s"
  BY <1>1, <1>3, StepOfOne, K3sInvStep, K3sRestStep DEF Inv
<1>4. CASE cluster = "routers"
  BY <1>1, <1>4, StepOfOne, RouterInvStep, RouterRestStep DEF Inv
<1>5. CASE cluster = "vm"
  BY <1>1, <1>5, StepOfOne, VmInvStep DEF Inv
<1> QED
  BY <1>2, <1>3, <1>4, <1>5 DEF Inv

\* The inductive invariant holds in every reachable state.
THEOREM Invariance == Spec => []Inv
  BY NodesAssumption, InitInv, InvStep, PTL DEF Spec

\* Every variable of every kind of machines keeps its type, for any number of nodes,
\* dependencies, agents and routers.
THEOREM TypeCorrect == Spec => []TypeOK
<1>1. SlurmShown!Inv /\ SlurmShown!Rest => Slurm!TypeOK
  BY DEF SlurmShown!Inv, SlurmShown!Types, SlurmShown!Rest, Slurm!TypeOK, Slurm!Machine,
         SlurmShown!Machine, Slurm!Phase, SlurmShown!Phase, Slurm!AgentReason,
         SlurmShown!AgentReason
<1>2. K3sInv /\ K3sRest => K3s!TypeOK
  BY DEF K3sInv, K3sTypes, K3sRest, K3sLeft, K3s!TypeOK
<1>3. RouterInv /\ RouterRest => Routers!TypeOK
  BY DEF RouterInv, RouterTypes, RouterRest, RouterLeft, Routers!TypeOK
<1>4. Inv => TypeOK
  BY <1>1, <1>2, <1>3 DEF Inv, VmInv, TypeOK
<1> QED
  BY <1>4, Invariance, PTL

\* While a machine executes maintenance, no job runs on the nodes concerned, unless the
\* controller or an administrator who set one of them to ready has overtaken it.
THEOREM NoJobDuringMaintenanceHolds == Spec => []NoJobDuringMaintenance
<1>1. SlurmShown!NoJobDuringMaintenance => Slurm!NoJobDuringMaintenance
  BY DEF Slurm!NoJobDuringMaintenance, SlurmShown!NoJobDuringMaintenance, Slurm!Machine,
         SlurmShown!Machine, Slurm!Nodes, SlurmShown!Nodes
<1>2. Inv => NoJobDuringMaintenance
  BY <1>1, SlurmShown!InvNoJob DEF Inv, NoJobDuringMaintenance
<1> QED
  BY <1>2, Invariance, PTL

\* Maintenance sets no node DOWN on which a job runs.
THEOREM NoJobKilledHolds == Spec => NoJobKilled
<1>1. [SlurmShown!KeepsJobs]_(SlurmShown!vars) => [Slurm!KeepsJobs]_(Slurm!vars)
  BY SlurmOthers
  DEF Slurm!KeepsJobs, SlurmShown!KeepsJobs, Slurm!vars, SlurmShown!vars, Slurm!slurm,
      SlurmShown!slurm, Slurm!run, SlurmShown!run
<1>2. Slurm!vars' = Slurm!vars => Slurm!KeepsJobs
  BY DEF Slurm!vars, Slurm!slurm, Slurm!KeepsJobs
<1>3. Inv /\ [Next]_vars => [cluster = "slurm" => Slurm!KeepsJobs]_vars
  BY <1>1, <1>2, StepOfOne, SlurmStep, SlurmShown!JobsKept DEF Inv
<1> QED
  BY <1>3, Invariance, PTL DEF Spec, NoJobKilled

\* Maintenance never takes more than one node at a time away from the pods, for any number of
\* agents, requests, failing commands, killed runs and commands of administrators.
THEOREM OneCordonedHolds == Spec => []OneCordoned
<1>1. Inv => OneCordoned
  BY DEF Inv, OneCordoned, K3sInv, K3sNotBothPassed, K3sPassed, K3s!OneCordoned
<1> QED
  BY <1>1, Invariance, PTL

\* Only one router at a time has a lowered priority, for any number of routers.
THEOREM OneLoweredHolds == Spec => []OneLowered
<1>1. Inv => OneLowered
  BY DEF Inv, OneLowered, RouterInv, RouterTypes, RouterNotBothPassed, RouterPassed,
         Routers!OneLowered
<1> QED
  BY <1>1, Invariance, PTL

\* A change of keepalived's state that is notified on its own repairs the state file and the
\* system, whatever notify commands and switches that ran at once, or failed, left before.
THEOREM NotifyRepairsHolds == Spec => []NotifyRepairs
<1>1. Inv => NotifyRepairs
  BY DEF Inv, NotifyRepairs, NotifyInv, NotifyOf, Routers!NotifyRepairs
<1> QED
  BY <1>1, Invariance, PTL
=============================================================================
