----------------------- MODULE MaintenanceClusterProofs -----------------------
(***************************************************************************)
(* Machines that require each other never execute activities at the same   *)
(* time, for any number of machines and any lists of required machines.    *)
(***************************************************************************)
EXTENDS MaintenanceCluster, TLAPS

\* m's constraints command has seen n in service in the current run.
Passed(m, n) ==
  /\ pc[m] \in {"constraints", "execute", "run"}
  /\ n \notin to_ask[m]
  /\ ~missing[m]

(***************************************************************************)
(* The inductive invariant. A machine tells the directory before it asks   *)
(* and executes only after every answer was good; so of two machines that  *)
(* require each other, the one that asked first had marked itself out of   *)
(* service before the other one asks.                                      *)
(***************************************************************************)
OutWhileBusy ==
  \A m \in Machine : pc[m] \in {"constraints", "execute", "run"} => ~in_service[m]

ExecutingPassed ==
  \A m \in Machine : Executing(m) => to_ask[m] = {} /\ ~missing[m]

NotBothPassed ==
  \A m, n \in Machine :
    m \in Required[n] /\ n \in Required[m] => ~(Passed(m, n) /\ Passed(n, m))

Inv == TypeOK /\ OutWhileBusy /\ ExecutingPassed /\ NotBothPassed

---------------------------------------------------------------------------
\* Every step of every machine keeps the types.
LEMMA TypeStep == TypeOK /\ [Next]_vars => TypeOK'
<1> SUFFICES ASSUME TypeOK, [Next]_vars PROVE TypeOK'
    OBVIOUS
<1> USE ClusterAssumption DEF TypeOK, Phase, Result, Goto, request, command
<1>1. CASE UNCHANGED vars
  BY <1>1 DEF vars
<1>2. ASSUME NEW m \in Machine, Add(m) \/ Schedule(m) \/ Pass(m) PROVE TypeOK'
  BY <1>2 DEF Add, Schedule, Pass
<1>3. ASSUME NEW m \in Machine, Run(m) PROVE TypeOK'
  BY <1>3 DEF Run, updated
<1>4. ASSUME NEW m \in Machine, MarkOutOfService(m) PROVE TypeOK'
  BY <1>4 DEF MarkOutOfService
<1>5. ASSUME NEW m \in Machine, NEW n \in Machine, Ask(m, n) PROVE TypeOK'
  BY <1>5 DEF Ask
<1>6. ASSUME NEW m \in Machine, ConstraintsMet(m) \/ ConstraintsNotMet(m) PROVE TypeOK'
  BY <1>6 DEF ConstraintsMet, ConstraintsNotMet
<1>7. ASSUME NEW m \in Machine, Start(m) PROVE TypeOK'
  BY <1>7 DEF Start
<1>8. ASSUME NEW m \in Machine, NEW result \in Result, Finish(m, result) PROVE TypeOK'
  BY <1>8 DEF Finish
<1>9. ASSUME NEW m \in Machine, Leave(m) PROVE TypeOK'
  BY <1>9 DEF Leave
<1>10. ASSUME NEW m \in Machine, Crash(m) PROVE TypeOK'
  BY <1>10 DEF Crash
<1> QED
  BY <1>1, <1>2, <1>3, <1>4, <1>5, <1>6, <1>7, <1>8, <1>9, <1>10 DEF Next, Step

\* In the beginning nobody runs.
LEMMA InitInv == Init => Inv
  BY ClusterAssumption
  DEF Init, Inv, TypeOK, OutWhileBusy, ExecutingPassed, NotBothPassed, Passed, Executing, Phase

\* A step of machine m that asks nobody and starts no run leaves what m knows
\* of the others, and what the others know of m, as it was or forgets it.
LEMMA QuietStep ==
  ASSUME Inv, TypeOK', NEW m \in Machine,
         UNCHANGED command,
         \A n \in Machine \ {m} : pc'[n] = pc[n] /\ in_service'[n] = in_service[n],
         \/ pc'[m] \notin {"constraints", "execute", "run"}
         \/ /\ in_service'[m] = in_service[m]
            /\ pc[m] \in {"constraints", "execute", "run"}
            /\ \/ pc'[m] = pc[m]
               \/ to_ask[m] = {} /\ ~missing[m]
  PROVE Inv'
<1> USE DEF Inv, TypeOK, command, Executing
<1>1. OutWhileBusy'
  BY DEF OutWhileBusy
<1>2. ExecutingPassed'
  BY DEF ExecutingPassed
<1>3. ASSUME NEW a \in Machine, NEW b \in Machine, Passed(a, b)' PROVE Passed(a, b)
  BY <1>3 DEF Passed
<1>4. NotBothPassed'
  BY <1>3 DEF NotBothPassed
<1> QED
  BY <1>1, <1>2, <1>4

\* Every step of every machine keeps the inductive invariant.
LEMMA InvStep == Inv /\ [Next]_vars => Inv'
<1> SUFFICES ASSUME Inv, [Next]_vars PROVE Inv'
    OBVIOUS
<1>0. TypeOK /\ TypeOK'
  BY TypeStep DEF Inv
<1>1. CASE UNCHANGED vars
  BY <1>1 DEF vars, request, command, Inv, TypeOK, OutWhileBusy, ExecutingPassed,
              NotBothPassed, Passed, Executing
<1>2. ASSUME NEW m \in Machine, Add(m) \/ Schedule(m) \/ Pass(m) PROVE Inv'
  <2>1. UNCHANGED <<pc, in_service, command>>
    BY <1>2 DEF Add, Schedule, Pass
  <2> QED
    BY <1>0, <2>1, QuietStep
<1>3. ASSUME NEW m \in Machine, Run(m) \/ Leave(m) \/ Crash(m) PROVE Inv'
  BY <1>0, <1>3, QuietStep DEF Run, Leave, Crash, Goto, TypeOK
<1>4. ASSUME NEW m \in Machine, MarkOutOfService(m) PROVE Inv'
  <2> USE <1>0, <1>4 DEF MarkOutOfService, Goto, TypeOK
  <2>1. OutWhileBusy'
    BY DEF Inv, OutWhileBusy
  <2>2. ExecutingPassed'
    BY DEF Inv, ExecutingPassed, Executing
  <2>3. \A n \in Machine : n \in Required[m] => ~Passed(m, n)'
    BY ClusterAssumption DEF Passed
  <2>4. \A a \in Machine \ {m}, b \in Machine : Passed(a, b)' => Passed(a, b)
    BY DEF Passed, request
  <2>5. NotBothPassed'
    BY <2>3, <2>4 DEF Inv, NotBothPassed
  <2> QED
    BY <2>1, <2>2, <2>5 DEF Inv
<1>5. ASSUME NEW m \in Machine, NEW n \in Machine, Ask(m, n) PROVE Inv'
  <2> USE <1>0, <1>5 DEF Ask, TypeOK
  <2>1. OutWhileBusy'
    BY DEF Inv, OutWhileBusy
  <2>2. ExecutingPassed'
    BY DEF Inv, ExecutingPassed, Executing
  <2>3. \A a \in Machine \ {m}, b \in Machine : Passed(a, b)' => Passed(a, b)
    BY DEF Passed
  <2>4. \A b \in Machine \ {n} : Passed(m, b)' => Passed(m, b)
    BY DEF Passed
  <2>5. Passed(m, n)' => ~Passed(n, m)
    BY DEF Passed, Inv, OutWhileBusy
  <2>6. m \notin Required[m]
    BY ClusterAssumption
  <2>7. NotBothPassed'
    BY <2>3, <2>4, <2>5, <2>6 DEF Inv, NotBothPassed
  <2> QED
    BY <2>1, <2>2, <2>7 DEF Inv
<1>6. ASSUME NEW m \in Machine, ConstraintsMet(m) \/ ConstraintsNotMet(m) PROVE Inv'
  BY <1>0, <1>6, QuietStep DEF ConstraintsMet, ConstraintsNotMet, Goto, TypeOK
<1>7. ASSUME NEW m \in Machine, Start(m) PROVE Inv'
  BY <1>0, <1>7, QuietStep DEF Start, Goto, TypeOK, Inv, ExecutingPassed, Executing
<1>8. ASSUME NEW m \in Machine, NEW result \in Result, Finish(m, result) PROVE Inv'
  BY <1>0, <1>8, QuietStep DEF Finish, Goto, TypeOK
<1> QED
  BY <1>1, <1>2, <1>3, <1>4, <1>5, <1>6, <1>7, <1>8 DEF Next, Step

---------------------------------------------------------------------------
\* The inductive invariant holds in every reachable state.
THEOREM Invariance == Spec => []Inv
  BY InitInv, InvStep, PTL DEF Spec

\* Types are kept, for every number of machines.
THEOREM TypeCorrect == Spec => []TypeOK
  BY Invariance, PTL DEF Inv

\* Two machines that require each other in service never execute activities at
\* the same time.
THEOREM MutualExclusionHolds == Spec => []MutualExclusion
<1>1. Inv => MutualExclusion
  BY ClusterAssumption
  DEF Inv, TypeOK, MutualExclusion, ExecutingPassed, NotBothPassed, Passed, Executing
<1> QED
  BY Invariance, <1>1, PTL
=============================================================================
