------------------------ MODULE SlurmMaintenanceProofs ------------------------
(***************************************************************************)
(* Maintenance kills no job and none runs during maintenance, for any      *)
(* number of nodes, dependencies, requests, kills and commands by hand, on *)
(* machines that neither the controller nor an administrator has overtaken.*)
(***************************************************************************)
EXTENDS SlurmMaintenance, TLAPS

Types ==
  /\ state \in [Node -> {"IDLE", "ALLOCATED", "DOWN"}] /\ drain \in [Node -> BOOLEAN]
  /\ in_service \in [Machine -> BOOLEAN]
  /\ pc \in [Machine -> Phase]
  /\ todo \in [Machine -> SUBSET Machine] /\ to_drain \in [Machine -> SUBSET Node]
  /\ chosen \in [Machine -> SUBSET Machine]
  /\ overtaken \subseteq Machine

\* What m's enter command has found or made drained so far.
Seen(m, n) ==
  \/ pc[m] = "drain check" /\ n \notin todo[m] /\ n \notin chosen[m]
  \/ pc[m] \in {"drain", "drain wait"} /\ n \notin chosen[m]
  \/ pc[m] \in {"down", "work"}

(***************************************************************************)
(* The inductive invariant, for each machine: it is out of service while   *)
(* it enters, what its enter command has seen drained stays drained, and   *)
(* only the controller sets nodes to ready.                                *)
(***************************************************************************)
Local(m) ==
  /\ pc[m] \in {"idle", "down", "work"} => chosen[m] = {}
  /\ pc[m] \in Ready \cup {"ready wait"} => m = Controller
  /\ pc[m] \in Entering => ~in_service[m]
  /\ pc[m] = "down" => todo[m] \subseteq Nodes(m)
  /\ m \notin overtaken => \A n \in Nodes(m) : Seen(m, n) => is_node_drained(n)

(* And for the controller: a machine whose maintenance a ready command     *)
(* would disturb is in service, or has been overtaken.                     *)
Harmless(m) == in_service[m] \/ m \in overtaken

ReadySafe ==
  LET c == Controller
  IN /\ pc[c] = "ready required" /\ chosen[c] = {} => \A d \in Dependency \ todo[c] : Harmless(d)
     /\ pc[c] \in {"ready check", "ready"} =>
          /\ \A d \in Dependency : Harmless(d)
          /\ \A n \in chosen[c] : Harmless(n)
     /\ pc[c] = "ready" => todo[c] \subseteq chosen[c]

Inv == Types /\ (\A m \in Machine : Local(m)) /\ ReadySafe

---------------------------------------------------------------------------
\* The nodes concerned by a machine are nodes.
LEMMA NodesType == \A m \in Machine : Nodes(m) \subseteq Node /\ Nodes(m) \subseteq Machine
  BY DEF Nodes, Machine

\* Which machines there are.
LEMMA MachineType ==
  Controller \in Machine /\ Node \subseteq Machine /\ Dependency \subseteq Machine
  BY DEF Machine

\* In the beginning no agent runs.
LEMMA InitInv == Init => Inv
<1> SUFFICES ASSUME Init PROVE Inv
    OBVIOUS
<1>1. Types
  BY DEF Init, Types, Phase
<1>2. ASSUME NEW m \in Machine PROVE Local(m)
  <2>1. pc[m] = "idle" /\ chosen[m] = {}
    BY DEF Init
  <2> QED
    BY <2>1 DEF Local, Seen, Entering, Ready
<1>3. ReadySafe
  BY MachineType DEF Init, ReadySafe
<1> QED
  BY <1>1, <1>2, <1>3 DEF Inv

---------------------------------------------------------------------------
\* What the building blocks of the actions do to the types.
LEMMA GoToType ==
  ASSUME Types, NEW m \in Machine, NEW phase \in Phase, NEW S \in SUBSET Machine, GoTo(m, phase, S)
  PROVE  pc' \in [Machine -> Phase] /\ todo' \in [Machine -> SUBSET Machine]
  BY DEF GoTo, Types

\* Choosing machines keeps the type of chosen.
LEMMA ChooseType ==
  ASSUME Types, NEW m \in Machine, NEW S \in SUBSET Machine, Choose(m, S)
  PROVE  chosen' \in [Machine -> SUBSET Machine]
  BY DEF Choose, Types

\* Looking at one more machine keeps the type of todo.
LEMMA LookType ==
  ASSUME Types, NEW m \in Machine, NEW phase, NEW n, Look(m, phase, n)
  PROVE  /\ todo' \in [Machine -> SUBSET Machine]
         /\ UNCHANGED <<in_service, pc, overtaken>>
<1>1. todo[m] \ {n} \in SUBSET Machine
  BY DEF Types
<1> QED
  BY <1>1 DEF Look, Types

\* Entering and leaving maintenance keep the types.
LEMMA ServiceType ==
  ASSUME Types, NEW m \in Machine, Enter(m) \/ BackInService(m) \/ Leave(m)
  PROVE  /\ in_service' \in [Machine -> BOOLEAN] /\ overtaken' \subseteq Machine
         /\ pc' \in [Machine -> Phase] /\ todo' \in [Machine -> SUBSET Machine]
<1>1. /\ "drain check" \in Phase /\ "idle" \in Phase /\ "ready required" \in Phase
      /\ {} \in SUBSET Machine
  BY DEF Phase
<1>2. CASE Enter(m)
  BY <1>1, <1>2, GoToType, NodesType DEF Enter, Types
<1>3. ASSUME BackInService(m)
      PROVE /\ in_service' \in [Machine -> BOOLEAN] /\ overtaken' \subseteq Machine
            /\ pc' \in [Machine -> Phase] /\ todo' \in [Machine -> SUBSET Machine]
  <2>1. GoTo(m, "idle", {})
    BY <1>3 DEF BackInService
  <2>2. pc' \in [Machine -> Phase] /\ todo' \in [Machine -> SUBSET Machine]
    BY <1>1, <2>1, GoToType
  <2> QED
    BY <1>3, <2>2 DEF BackInService, Types
<1>4. CASE Leave(m) /\ ~BackInService(m)
  <2>1. GoTo(m, "ready required", Dependency) /\ UNCHANGED <<in_service, overtaken>>
    BY <1>4 DEF Leave
  <2> QED
    BY <1>1, <2>1, GoToType, MachineType DEF Types
<1> QED
  BY <1>2, <1>3, <1>4

\* What they do to the machine concerned, and that they do nothing to others.
LEMMA GoToFacts ==
  ASSUME Types, NEW m \in Machine, NEW phase, NEW S, GoTo(m, phase, S)
  PROVE  /\ pc'[m] = phase /\ todo'[m] = S
         /\ \A a \in Machine \ {m} : pc'[a] = pc[a] /\ todo'[a] = todo[a]
  BY DEF GoTo, Types

\* What choosing does, likewise.
LEMMA ChooseFacts ==
  ASSUME Types, NEW m \in Machine, NEW S, Choose(m, S)
  PROVE  chosen'[m] = S /\ \A a \in Machine \ {m} : chosen'[a] = chosen[a]
  BY DEF Choose, Types

\* What looking at one more machine does, likewise.
LEMMA LookFacts ==
  ASSUME Types, NEW m \in Machine, NEW phase, NEW n, Look(m, phase, n)
  PROVE  /\ pc[m] = phase /\ n \in todo[m] /\ todo'[m] = todo[m] \ {n}
         /\ \A a \in Machine \ {m} : todo'[a] = todo[a]
  BY DEF Look, Types

\* Every step keeps the types.
LEMMA TypesStep == Types /\ [Next]_vars => Types'
<1> SUFFICES ASSUME Types, [Next]_vars PROVE Types'
    OBVIOUS
<1>0. Phase = {"idle", "drain check", "drain", "drain wait", "down", "work",
               "ready required", "ready check", "ready", "ready wait"}
  BY DEF Phase
<1>a. "idle" \in Phase /\ {} \in SUBSET Machine
  BY DEF Phase
<1> USE MachineType, NodesType DEF slurm, run
<1>1. CASE UNCHANGED vars
  BY <1>1 DEF vars, Types
<1>2. ASSUME NEW n \in Node, StartJob(n) \/ EndJob(n) \/ DrainByHand(n) \/ DownByHand(n)
      PROVE Types'
  BY <1>2 DEF StartJob, EndJob, DrainByHand, DownByHand, Drain, Down, Types
<1>15. ASSUME NEW n \in Node, ReadyByHand(n) PROVE Types'
  BY <1>15 DEF ReadyByHand, Resume, Types
<1>3. ASSUME NEW m \in Machine, Request(m) PROVE Types'
  BY <1>3 DEF Request, Types
<1>4. ASSUME NEW m \in Machine, Start(m) PROVE Types'
  <2>1. (Enter(m) \/ Leave(m)) /\ UNCHANGED <<slurm, to_drain, chosen>>
    BY <1>4 DEF Start
  <2> QED
    BY <2>1, ServiceType DEF Types
<1>5. ASSUME NEW m \in Machine, NEW n \in Node, DrainCheck(m, n) PROVE Types'
  <2>1. PICK S \in SUBSET Machine : Choose(m, S)
    BY <1>5 DEF DrainCheck, Types
  <2>2. chosen' \in [Machine -> SUBSET Machine]
    BY <2>1, ChooseType
  <2>3. PICK T \in SUBSET Node : to_drain' = [to_drain EXCEPT ![m] = T]
    BY <1>5 DEF DrainCheck, Types
  <2>4. to_drain' \in [Machine -> SUBSET Node]
    BY <2>3 DEF Types
  <2> QED
    BY <1>5, <2>2, <2>4, LookType DEF DrainCheck, Types
<1>6. ASSUME NEW m \in Machine, DrainChecked(m) \/ Drained(m) \/ Work(m) PROVE Types'
  <2>1. PICK phase \in Phase, S \in SUBSET Machine : GoTo(m, phase, S)
    BY <1>0, <1>6 DEF DrainChecked, Drained, Work, Types
  <2>2. UNCHANGED to_drain \/ to_drain' = [to_drain EXCEPT ![m] = {}]
    BY <1>6 DEF DrainChecked, Drained, Work
  <2>3. UNCHANGED <<slurm, in_service, chosen, overtaken>>
    BY <1>6 DEF DrainChecked, Drained, Work
  <2> QED
    BY <2>1, <2>2, <2>3, GoToType DEF Types
<1>7. ASSUME NEW m \in Machine, NEW n \in Node, DrainNode(m, n) \/ DownNode(m, n) PROVE Types'
  <2>1. /\ state' \in [Node -> {"IDLE", "ALLOCATED", "DOWN"}] /\ drain' \in [Node -> BOOLEAN]
        /\ UNCHANGED <<to_drain, chosen>>
    BY <1>7 DEF DrainNode, DownNode, Drain, Down, Types
  <2> QED
    BY <1>7, <2>1, LookType DEF DrainNode, DownNode, Types
<1>8. ASSUME NEW m \in Machine, NEW n \in Node, DrainPoll(m, n) \/ ReadyPoll(m, n) PROVE Types'
  <2>1. PICK S \in SUBSET Machine : Choose(m, S)
    <3>1. chosen[m] \ {n} \in SUBSET Machine /\ chosen[m] \in SUBSET Machine
      BY DEF Types
    <3> QED
      BY <1>8, <3>1 DEF DrainPoll, ReadyPoll
  <2>2. UNCHANGED <<slurm, to_drain>>
    BY <1>8 DEF DrainPoll, ReadyPoll
  <2> QED
    BY <1>8, <2>1, <2>2, LookType, ChooseType DEF DrainPoll, ReadyPoll, Types
<1>9. ASSUME NEW m \in Machine, DrainWait(m) \/ ReadyWait(m) PROVE Types'
  <2>1. UNCHANGED <<slurm, to_drain, chosen>>
    BY <1>9 DEF DrainWait, ReadyWait, Wait
  <2>2. \/ BackInService(m)
        \/ /\ UNCHANGED <<in_service, overtaken>>
           /\ \E phase \in Phase, S \in SUBSET Machine : GoTo(m, phase, S)
    BY <1>0, <1>9 DEF DrainWait, ReadyWait, Wait, Types
  <2> QED
    BY <2>1, <2>2, GoToType, ServiceType DEF Types
<1>10. ASSUME NEW m \in Machine, Timeout(m) \/ Crash(m) PROVE Types'
  <2>1. GoTo(m, "idle", {}) /\ Choose(m, {}) /\ to_drain' = [to_drain EXCEPT ![m] = {}]
    BY <1>10 DEF Timeout, Crash, End
  <2>2. UNCHANGED <<slurm, in_service, overtaken>>
    BY <1>10 DEF Timeout, Crash
  <2> QED
    BY <1>a, <2>1, <2>2, GoToType, ChooseType DEF Types
<1>11. ASSUME NEW m \in Machine, Finish(m) PROVE Types'
  <2>1. UNCHANGED <<slurm, to_drain, chosen>>
    BY <1>11 DEF Finish
  <2>2. Leave(m) \/ (GoTo(m, "idle", {}) /\ UNCHANGED <<in_service, overtaken>>)
    BY <1>11 DEF Finish
  <2> QED
    BY <1>a, <2>1, <2>2, GoToType, ServiceType DEF Types
<1>12. ASSUME NEW d \in Dependency, AskRequired(Controller, d) PROVE Types'
  <2>1. PICK S \in SUBSET Machine : Choose(Controller, S)
    BY <1>12 DEF AskRequired, Types
  <2> QED
    BY <1>12, <2>1, LookType, ChooseType DEF AskRequired, Types
<1>13. ASSUME AskedRequired(Controller) \/ ReadyChecked(Controller) \/ Readied(Controller)
       PROVE Types'
  <2>1. UNCHANGED <<slurm, to_drain>> /\ (UNCHANGED chosen \/ Choose(Controller, {}))
    BY <1>13 DEF AskedRequired, ReadyChecked, Readied
  <2>2. \/ BackInService(Controller)
        \/ /\ UNCHANGED <<in_service, overtaken>>
           /\ \E phase \in Phase, S \in SUBSET Machine : GoTo(Controller, phase, S)
    BY <1>0, <1>13 DEF AskedRequired, ReadyChecked, Readied, Types
  <2> QED
    BY <2>1, <2>2, GoToType, ChooseType, ServiceType DEF Types
<1>14. ASSUME NEW n \in Node, ReadyCheck(Controller, n) \/ ReadyNode(Controller, n) PROVE Types'
  <2>1. \/ UNCHANGED slurm /\ \E S \in SUBSET Machine : Choose(Controller, S)
        \/ UNCHANGED chosen /\ Resume(n)
    BY <1>14 DEF ReadyCheck, ReadyNode, Types
  <2>2. state' \in [Node -> {"IDLE", "ALLOCATED", "DOWN"}] /\ drain' \in [Node -> BOOLEAN]
    BY <2>1 DEF Resume, Types
  <2> QED
    BY <1>14, <2>1, <2>2, LookType, ChooseType DEF ReadyCheck, ReadyNode, Types
<1> QED
  BY <1>1, <1>2, <1>3, <1>4, <1>5, <1>6, <1>7, <1>8, <1>9, <1>10, <1>11, <1>12, <1>13, <1>14, <1>15
  DEF Next, Step, ReadyStep, ByHand

---------------------------------------------------------------------------
\* The step is one of m's run, or of nobody's.
OnlyRun(m) ==
  \A a \in Machine \ {m} :
    /\ pc'[a] = pc[a] /\ todo'[a] = todo[a] /\ chosen'[a] = chosen[a]
    /\ in_service'[a] = in_service[a] /\ (a \in overtaken' <=> a \in overtaken)

KeepsDrained == \A n \in Node : is_node_drained(n) => is_node_drained(n)'

\* A step of m that undoes no drain says nothing new about the other machines.
LEMMA OthersKept ==
  ASSUME Inv, NEW m \in Machine, OnlyRun(m), KeepsDrained, NEW a \in Machine \ {m}
  PROVE  Local(a)'
<1>1. Local(a)
  BY DEF Inv
<1>2. \A n \in Nodes(a) : Seen(a, n)' => Seen(a, n)
  BY DEF OnlyRun, Seen
<1>3. Nodes(a) \subseteq Node
  BY NodesType
<1> QED
  BY <1>1, <1>2, <1>3 DEF Local, OnlyRun, KeepsDrained

\* A machine that enters disturbs no ready command: it is overtaken.
LEMMA ReadyKept ==
  ASSUME Inv, NEW m \in Machine \ {Controller}, OnlyRun(m),
         pc[Controller] \in Ready /\ Harmless(m) => Harmless(m)'
  PROVE  ReadySafe'
<1> DEFINE c == Controller
<1>1. /\ c \in Machine \ {m} /\ Dependency \subseteq Machine
      /\ pc'[c] = pc[c] /\ todo'[c] = todo[c] /\ chosen'[c] = chosen[c]
  BY MachineType DEF OnlyRun
<1>2. chosen[c] \subseteq Machine
  BY <1>1 DEF Inv, Types
<1>3. \A a \in Machine : pc[c] \in Ready /\ Harmless(a) => Harmless(a)'
  BY DEF OnlyRun, Harmless
<1>4. {"ready required", "ready check", "ready"} = Ready
  BY DEF Ready
<1> QED
  BY <1>1, <1>2, <1>3, <1>4 DEF Inv, ReadySafe

\* A step of m's run that has only to be looked at for m.
LEMMA RunStep ==
  ASSUME Inv, Types', NEW m \in Machine, OnlyRun(m), KeepsDrained, Local(m)',
         m # Controller => (pc[Controller] \in Ready /\ Harmless(m) => Harmless(m)'),
         m = Controller => ReadySafe'
  PROVE  Inv'
<1>1. \A a \in Machine : Local(a)'
  BY OthersKept
<1>2. ReadySafe'
  BY ReadyKept
<1> QED
  BY <1>1, <1>2 DEF Inv

\* A step that changes nodes only, and undoes no drain.
LEMMA NodeStep ==
  ASSUME Inv, Types', UNCHANGED <<in_service, run, overtaken>>, KeepsDrained
  PROVE  Inv'
<1>1. OnlyRun(Controller) /\ Controller \in Machine
  BY MachineType DEF OnlyRun, run
<1>2. Local(Controller)'
  <2>1. Local(Controller) /\ Nodes(Controller) \subseteq Node
    BY <1>1, NodesType DEF Inv
  <2>2. \A n \in Nodes(Controller) : Seen(Controller, n)' => Seen(Controller, n)
    BY DEF Seen, run
  <2> QED
    BY <2>1, <2>2 DEF Local, KeepsDrained, run
<1>3. ReadySafe'
  BY DEF Inv, ReadySafe, Harmless, run
<1> QED
  BY <1>1, <1>2, <1>3, RunStep

---------------------------------------------------------------------------
\* A step of m that does not lead into a ready command.
LEMMA EnterStep ==
  ASSUME Inv, Types', NEW m \in Machine, OnlyRun(m), KeepsDrained, Local(m)', pc'[m] \notin Ready,
         UNCHANGED <<in_service, overtaken>>
  PROVE  Inv'
<1>1. m = Controller => ReadySafe'
  BY DEF ReadySafe, Ready
<1> QED
  BY <1>1, RunStep DEF Harmless

\* The end of a run that puts the machine back in service.
LEMMA BackStep ==
  ASSUME Inv, Types', NEW m \in Machine, BackInService(m), chosen'[m] = {}, UNCHANGED slurm,
         \A a \in Machine \ {m} : chosen'[a] = chosen[a]
  PROVE  Inv'
<1>1. OnlyRun(m) /\ pc'[m] = "idle" /\ in_service'[m]
  BY DEF BackInService, GoTo, OnlyRun, Inv, Types
<1>2. Local(m)'
  BY <1>1 DEF Local, Seen, Ready, Entering
<1>3. m = Controller => ReadySafe'
  BY <1>1 DEF ReadySafe
<1>4. KeepsDrained
  BY DEF KeepsDrained, is_node_drained, slurm
<1> QED
  BY <1>1, <1>2, <1>3, <1>4, RunStep DEF Harmless

\* After the requests are executed, or if there are none.
LEMMA LeaveStep ==
  ASSUME Inv, Types', NEW m \in Machine, Leave(m), chosen[m] = {}, UNCHANGED <<slurm, chosen>>
  PROVE  Inv'
<1>1. CASE BackInService(m)
  BY <1>1, BackStep
<1>2. CASE m = Controller /\ GoTo(m, "ready required", Dependency)
           /\ UNCHANGED <<in_service, overtaken>>
  <2>1. OnlyRun(m) /\ pc'[m] = "ready required" /\ todo'[m] = Dependency
    BY <1>2, MachineType DEF GoTo, OnlyRun, Inv, Types
  <2>2. Local(m)'
    BY <1>2, <2>1 DEF Local, Seen, Entering
  <2>3. ReadySafe'
    BY <1>2, <2>1 DEF ReadySafe
  <2>4. KeepsDrained
    BY DEF KeepsDrained, is_node_drained, slurm
  <2> QED
    BY <1>2, <2>1, <2>2, <2>3, <2>4, RunStep
<1> QED
  BY <1>1, <1>2 DEF Leave

\* Starting a run.
LEMMA StartStep == ASSUME Inv, Types', NEW m \in Machine, Start(m) PROVE Inv'
<1>1. pc[m] = "idle" /\ chosen[m] = {} /\ UNCHANGED <<slurm, chosen>>
  BY DEF Start, Local, Inv
<1>2. CASE Leave(m)
  BY <1>1, <1>2, LeaveStep
<1>3. CASE Enter(m)
  <2>1. /\ OnlyRun(m) /\ pc'[m] = "drain check" /\ todo'[m] = Nodes(m) /\ ~in_service'[m]
        /\ (in_service[m] /\ pc[Controller] \in Ready => m \in overtaken')
        /\ overtaken \subseteq overtaken'
    BY <1>1, <1>3 DEF Enter, GoTo, OnlyRun, Inv, Types
  <2>2. Local(m)'
    BY <1>1, <2>1 DEF Local, Seen, Ready
  <2>3. m = Controller => ReadySafe'
    BY <2>1 DEF ReadySafe
  <2>4. KeepsDrained
    BY <1>1 DEF KeepsDrained, is_node_drained, slurm
  <2> QED
    BY <2>1, <2>2, <2>3, <2>4, RunStep DEF Harmless
<1> QED
  BY <1>2, <1>3 DEF Start

---------------------------------------------------------------------------
\* The enter command: what was seen drained is drained until the machine works.
LEMMA DrainSteps ==
  ASSUME Inv, Types', NEW m \in Machine, NEW n \in Node,
         DrainCheck(m, n) \/ DrainNode(m, n) \/ DrainPoll(m, n) \/ DownNode(m, n)
  PROVE  Inv'
<1> USE DEF Inv, Types, Look
<1>1. /\ pc[m] \in Entering /\ UNCHANGED <<in_service, overtaken, pc>>
      /\ todo' = [todo EXCEPT ![m] = @ \ {n}]
  BY DEF DrainCheck, DrainNode, DrainPoll, DownNode, Entering
<1>2. OnlyRun(m)
  <2>1. UNCHANGED chosen \/ \E S : Choose(m, S)
    BY DEF DrainCheck, DrainNode, DrainPoll, DownNode
  <2>2. \A a \in Machine \ {m} : chosen'[a] = chosen[a]
    BY <2>1 DEF Choose
  <2> QED
    BY <1>1, <2>2 DEF OnlyRun
<1>3. KeepsDrained
  BY DEF KeepsDrained, is_node_drained, DrainCheck, DrainNode, DrainPoll, DownNode, Drain, Down, slurm
<1>4. Local(m)'
  <2>1. pc'[m] \in {"idle", "down", "work"} => chosen'[m] = {}
    BY <1>1 DEF Local, DrainCheck, DrainNode, DrainPoll, DownNode
  <2>2. ASSUME NEW k \in Nodes(m), Seen(m, k)' PROVE Seen(m, k) \/ is_node_drained(k)
    <3>2. CASE DrainCheck(m, n)
      <4>0. pc[m] = "drain check" /\ pc'[m] = pc[m] /\ todo'[m] = todo[m] \ {n}
        BY <1>1, <3>2, LookFacts DEF DrainCheck
      <4>1. pc[m] = "drain check" /\ (k # n => k \notin todo[m])
        BY ONLY <2>2, <4>0 DEF Seen
      <4>2. chosen'[m] = IF is_node_drained(n) THEN chosen[m] ELSE chosen[m] \cup {n}
        BY <3>2 DEF DrainCheck, Choose
      <4>3. k \notin chosen'[m]
        BY <1>1, <2>2, <4>1 DEF Seen
      <4> QED
        BY <4>1, <4>2, <4>3 DEF Seen
    <3>3. CASE DrainPoll(m, n)
      <4>1. pc[m] = "drain wait" /\ k \notin chosen'[m]
        BY <1>1, <2>2, <3>3 DEF Seen, DrainPoll
      <4>2. chosen'[m] = IF is_node_drained(n) THEN chosen[m] \ {n} ELSE chosen[m]
        BY <3>3 DEF DrainPoll, Choose
      <4> QED
        BY <4>1, <4>2 DEF Seen
    <3>4. CASE DrainNode(m, n) \/ DownNode(m, n)
      <4>1. UNCHANGED chosen /\ pc[m] \in {"drain", "down"}
        BY <3>4 DEF DrainNode, DownNode
      <4> QED
        BY <1>1, <2>2, <4>1 DEF Seen
    <3> QED
      BY <3>2, <3>3, <3>4
  <2>3. ASSUME m \notin overtaken, NEW k \in Nodes(m), Seen(m, k)' PROVE is_node_drained(k)'
    BY <1>3, <2>2, <2>3, NodesType DEF Local, KeepsDrained
  <2>4. Local(m)
    OBVIOUS
  <2>5. pc'[m] = "down" => todo'[m] \subseteq Nodes(m)
    BY <1>1, <2>4 DEF Local
  <2> QED
    BY <1>1, <2>1, <2>3, <2>4, <2>5 DEF Local
<1>5. pc'[m] \notin Ready
  BY <1>1 DEF Entering, Ready
<1> QED
  BY <1>1, <1>2, <1>3, <1>4, <1>5, EnterStep

\* The enter command between its looks: nothing new counts as seen.
LEMMA EnterSteps ==
  ASSUME Inv, Types', NEW m \in Machine,
         DrainChecked(m) \/ Drained(m) \/ DrainWait(m) \/ Work(m)
  PROVE  Inv'
<1> USE DEF Inv, Types, GoTo
<1>0. \/ pc[m] = "drain check" /\ chosen[m] = {} /\ GoTo(m, "down", Nodes(m))
      \/ pc[m] = "drain check" /\ GoTo(m, "drain", to_drain[m])
      \/ pc[m] \in {"drain", "drain wait"} /\ GoTo(m, "drain wait", chosen[m])
      \/ pc[m] = "drain wait" /\ chosen[m] = {} /\ GoTo(m, "down", Nodes(m))
      \/ pc[m] = "down" /\ GoTo(m, "work", {})
  BY DEF DrainChecked, Drained, DrainWait, Wait, Work
<1>1. /\ pc[m] \in Entering /\ pc'[m] \in Entering
      /\ todo[m] = {} /\ UNCHANGED <<in_service, overtaken, slurm, chosen>>
  <2>1. pc[m] \in Entering /\ pc'[m] \in Entering
    BY <1>0 DEF Entering
  <2>2. todo[m] = {} /\ UNCHANGED <<in_service, overtaken, slurm, chosen>>
    BY DEF DrainChecked, Drained, DrainWait, Wait, Work
  <2> QED
    BY <2>1, <2>2
<1>2. OnlyRun(m)
  BY <1>0, <1>1 DEF OnlyRun
<1>3. KeepsDrained
  BY <1>1 DEF KeepsDrained, is_node_drained, slurm
<1>4. \A n \in Nodes(m) : Seen(m, n)' => Seen(m, n)
  BY <1>0, <1>1 DEF Seen
<1>5. /\ pc'[m] \in {"down", "work"} => chosen'[m] = {}
      /\ pc'[m] = "down" => todo'[m] \subseteq Nodes(m)
  BY <1>0, <1>1, ZenonT(40) DEF Local
<1>6. pc'[m] \notin Ready /\ pc'[m] \notin {"idle", "ready wait"}
  BY <1>1 DEF Entering, Ready
<1>7. Nodes(m) \subseteq Node
  BY NodesType
<1>8. Local(m)'
  BY <1>1, <1>3, <1>4, <1>5, <1>6, <1>7 DEF Local, KeepsDrained
<1> QED
  BY <1>1, <1>2, <1>3, <1>6, <1>8, EnterStep

\* A run ends in the middle, or after the requests are executed.
LEMMA EndSteps ==
  ASSUME Inv, Types', NEW m \in Machine, Timeout(m) \/ Crash(m) \/ Finish(m)
  PROVE  Inv'
<1> USE DEF Inv, Types, GoTo
<1>1. CASE Finish(m) /\ Leave(m)
  BY <1>1, LeaveStep DEF Finish, Local
<1>2. CASE ~Leave(m) \/ ~Finish(m)
  <2>1. /\ OnlyRun(m) /\ pc'[m] = "idle" /\ chosen'[m] = {}
        /\ UNCHANGED <<in_service, overtaken, slurm>>
    <3>1. CASE Timeout(m) \/ Crash(m)
      <4>1. /\ GoTo(m, "idle", {}) /\ Choose(m, {})
            /\ UNCHANGED <<in_service, overtaken, slurm>>
        BY <3>1 DEF Timeout, Crash, End
      <4> QED
        BY <4>1, GoToFacts, ChooseFacts DEF OnlyRun
    <3>2. CASE Finish(m)
      <4>1. /\ pc[m] = "work" /\ GoTo(m, "idle", {})
            /\ UNCHANGED <<in_service, overtaken, slurm, chosen>>
        BY <1>2, <3>2 DEF Finish
      <4> QED
        BY <4>1 DEF OnlyRun, Local
    <3> QED
      BY <3>1, <3>2
  <2>2. KeepsDrained
    BY <2>1 DEF KeepsDrained, is_node_drained, slurm
  <2>3. Local(m)' /\ pc'[m] \notin Ready
    BY <2>1 DEF Local, Seen, Ready, Entering
  <2> QED
    BY <2>1, <2>2, <2>3, EnterStep
<1> QED
  BY <1>1, <1>2

---------------------------------------------------------------------------
\* The ready command.
LEMMA ReadyLooks ==
  ASSUME Inv, Types', NEW n \in Machine,
         \/ n \in Dependency /\ AskRequired(Controller, n)
         \/ n \in Node /\ (ReadyCheck(Controller, n) \/ ReadyPoll(Controller, n))
  PROVE  Inv'
<1> DEFINE c == Controller
<1> USE MachineType DEF Inv, Types, Look
<1>1. /\ pc[c] \in Ready \cup {"ready wait"}
      /\ UNCHANGED <<in_service, overtaken, pc, slurm>>
      /\ todo' = [todo EXCEPT ![c] = @ \ {n}]
  BY DEF AskRequired, ReadyCheck, ReadyPoll, Ready
<1>2. OnlyRun(c)
  <2>1. PICK S : Choose(c, S)
    BY DEF AskRequired, ReadyCheck, ReadyPoll
  <2> QED
    BY <1>1, <2>1 DEF OnlyRun, Choose
<1>3. KeepsDrained
  BY <1>1 DEF KeepsDrained, is_node_drained, slurm
<1>4. Local(c)'
  BY <1>1 DEF Local, Seen, Ready, Entering
<1>5. ReadySafe'
  <2>1. CASE AskRequired(c, n)
    <3>1. /\ pc[c] = "ready required" /\ pc'[c] = "ready required"
          /\ chosen'[c] = IF in_service[n] THEN chosen[c] ELSE chosen[c] \cup {n}
          /\ todo'[c] = todo[c] \ {n}
      BY <1>1, <2>1, LookFacts, ChooseFacts DEF AskRequired
    <3>2. \A a : Harmless(a)' <=> Harmless(a)
      BY <1>1 DEF Harmless
    <3>3. chosen'[c] = {} => chosen[c] = {} /\ in_service[n]
      BY <3>1
    <3>4. ASSUME chosen'[c] = {}, NEW d \in Dependency \ todo'[c] PROVE Harmless(d)
      BY <3>1, <3>3, <3>4 DEF ReadySafe, Harmless
    <3> QED
      BY <3>1, <3>2, <3>4 DEF ReadySafe
  <2>2. CASE ReadyCheck(c, n)
    <3>1. /\ pc[c] = "ready check" /\ pc'[c] = "ready check"
          /\ chosen'[c] = IF ready_pre_checks(n) THEN chosen[c] \cup {n} ELSE chosen[c]
      BY <1>1, <2>2 DEF ReadyCheck, Choose
    <3>2. chosen'[c] = chosen[c] \/ (in_service[n] /\ chosen'[c] = chosen[c] \cup {n})
      BY <3>1 DEF ready_pre_checks
    <3> QED
      BY <1>1, <3>1, <3>2 DEF ReadySafe, Harmless
  <2>3. CASE ReadyPoll(c, n)
    BY <1>1, <2>3 DEF ReadyPoll, ReadySafe
  <2> QED
    BY <2>1, <2>2, <2>3
<1> QED
  BY <1>2, <1>3, <1>4, <1>5, RunStep

\* The ready command between its looks: it goes on only where that is harmless.
LEMMA ReadySteps ==
  ASSUME Inv, Types',
         \/ AskedRequired(Controller) \/ ReadyChecked(Controller) \/ Readied(Controller)
         \/ ReadyWait(Controller)
  PROVE  Inv'
<1> DEFINE c == Controller
<1> USE MachineType DEF Inv, Types
<1>1. UNCHANGED slurm /\ todo[c] = {} /\ pc[c] \in Ready \cup {"ready wait"}
  BY DEF AskedRequired, ReadyChecked, Readied, ReadyWait, Wait, Ready
<1>2. \/ UNCHANGED chosen
      \/ Choose(c, {})
  BY DEF AskedRequired, ReadyChecked, Readied, ReadyWait, Wait
<1>3. \A a \in Machine \ {c} : chosen'[a] = chosen[a]
  BY <1>2 DEF Choose
<1>4. CASE BackInService(c) /\ chosen'[c] = {}
  BY <1>1, <1>3, <1>4, BackStep
<1>5. ASSUME UNCHANGED <<in_service, overtaken>>,
             \/ /\ pc[c] = "ready required" /\ chosen[c] = {} /\ chosen'[c] = {}
                /\ GoTo(c, "ready check", Node)
             \/ pc[c] = "ready check" /\ UNCHANGED chosen /\ GoTo(c, "ready", chosen[c])
             \/ GoTo(c, "ready wait", chosen[c])
      PROVE Inv'
  <2>0. /\ \/ /\ pc[c] = "ready required" /\ chosen[c] = {} /\ chosen'[c] = {}
              /\ pc'[c] = "ready check" /\ todo'[c] = Node
           \/ /\ pc[c] = "ready check" /\ chosen'[c] = chosen[c]
              /\ pc'[c] = "ready" /\ todo'[c] = chosen[c]
           \/ pc'[c] = "ready wait"
        /\ \A a \in Machine \ {c} : pc'[a] = pc[a] /\ todo'[a] = todo[a]
    BY ONLY <1>5, GoToFacts, MachineType, Types
  <2>1. OnlyRun(c) /\ pc'[c] \in {"ready check", "ready", "ready wait"}
    BY <1>3, <1>5, <2>0 DEF OnlyRun
  <2>2. KeepsDrained
    BY <1>1 DEF KeepsDrained, is_node_drained, slurm
  <2>3. Local(c)'
    BY <2>1 DEF Local, Seen, Ready, Entering
  <2>4. ReadySafe'
    <3>1. \A a : Harmless(a)' <=> Harmless(a)
      BY <1>5 DEF Harmless
    <3>2. \/ pc[c] = "ready required" /\ chosen[c] = {} /\ todo[c] = {}
          \/ pc[c] = "ready check"
          \/ pc'[c] = "ready wait"
      BY <1>1, <2>0
    <3>3. \/ pc'[c] = "ready wait"
          \/ \A d \in Dependency : Harmless(d)
      BY <3>2 DEF ReadySafe
    <3>4. pc[c] = "ready check" => \A n \in chosen[c] : Harmless(n)
      BY DEF ReadySafe
    <3> QED
      BY ONLY <2>0, <3>1, <3>3, <3>4 DEF ReadySafe
  <2> QED
    BY <1>5, <2>1, <2>2, <2>3, <2>4, RunStep
<1>6. CASE AskedRequired(c)
  <2>1. chosen'[c] = {}
    BY <1>6 DEF AskedRequired, Choose
  <2> QED
    BY <1>4, <1>5, <1>6, <2>1 DEF AskedRequired
<1>7. CASE ReadyChecked(c)
  BY <1>4, <1>5, <1>7 DEF ReadyChecked
<1>8. CASE Readied(c)
  BY <1>5, <1>8 DEF Readied
<1>9. CASE ReadyWait(c)
  BY <1>4, <1>5, <1>9 DEF ReadyWait, Wait
<1> QED
  BY <1>6, <1>7, <1>8, <1>9

\* Setting a node to ready disturbs only machines that are in service or overtaken.
LEMMA ReadyNodeStep ==
  ASSUME Inv, Types', NEW n \in Node, ReadyNode(Controller, n)
  PROVE  Inv'
<1> DEFINE c == Controller
<1> USE MachineType DEF Inv, Types, Look
<1>1. /\ pc[c] = "ready" /\ pc'[c] = "ready" /\ n \in chosen[c]
      /\ UNCHANGED <<in_service, overtaken, pc, chosen>>
      /\ todo' = [todo EXCEPT ![c] = @ \ {n}]
  BY DEF ReadyNode, ReadySafe
<1>2. \A k \in Node \ {n} : is_node_drained(k) => is_node_drained(k)'
  BY ZenonT(40) DEF ReadyNode, Resume, is_node_drained
<1>3. \A d \in Dependency \cup {n} : Harmless(d)
  BY <1>1 DEF ReadySafe
<1>4. ASSUME NEW m \in Machine PROVE Local(m)'
  <2>1. \A k \in Nodes(m) : Seen(m, k)' => Seen(m, k) /\ pc[m] \in Entering /\ m # c
    BY <1>1 DEF Seen, Entering
  <2>2. m \notin overtaken /\ n \in Nodes(m) => pc[m] \notin Entering \/ m = c
    BY <1>3 DEF Nodes, Local, Harmless, Machine
  <2>3. \A k \in Nodes(m) : m \notin overtaken /\ Seen(m, k)' => is_node_drained(k)'
    BY <1>2, <2>1, <2>2, NodesType DEF Local
  <2> QED
    BY <1>1, <2>3 DEF Local
<1>5. ReadySafe'
  BY <1>1 DEF ReadySafe, Harmless
<1> QED
  BY <1>4, <1>5

---------------------------------------------------------------------------
\* An administrator who sets a node to ready overtakes the machines that enter maintenance and
\* have to do with it; what the others have seen drained stays so.
LEMMA ReadyByHandStep ==
  ASSUME Inv, Types', NEW n \in Node, ReadyByHand(n)
  PROVE  Inv'
<1>1. /\ UNCHANGED <<in_service, run>>
      /\ \A k \in Node \ {n} : is_node_drained(k) => is_node_drained(k)'
      /\ overtaken \subseteq overtaken'
      /\ \A m \in Machine \ overtaken' : m \notin overtaken /\ ~(pc[m] \in Entering /\ n \in Nodes(m))
  BY DEF ReadyByHand, Resume, is_node_drained, Inv, Types
<1>2. ASSUME NEW m \in Machine PROVE Local(m)'
  <2>1. Local(m) /\ Nodes(m) \subseteq Node
    BY NodesType DEF Inv
  <2>2. \A k \in Nodes(m) : (Seen(m, k)' <=> Seen(m, k)) /\ (Seen(m, k) => pc[m] \in Entering)
    BY <1>1 DEF Seen, Entering, run
  <2>3. m \notin overtaken' => \A k \in Nodes(m) : Seen(m, k)' => is_node_drained(k)'
    BY <1>1, <2>1, <2>2 DEF Local
  <2> QED
    BY <1>1, <2>1, <2>3 DEF Local, run
<1>3. ReadySafe'
  BY <1>1 DEF Inv, ReadySafe, Harmless, run
<1> QED
  BY <1>2, <1>3 DEF Inv

\* Every step keeps the inductive invariant.
LEMMA InvStep == Inv /\ [Next]_vars => Inv'
<1> SUFFICES ASSUME Inv, [Next]_vars PROVE Inv'
    OBVIOUS
<1>1. Types'
  BY TypesStep DEF Inv
<1>2. CASE UNCHANGED vars
  <2>1. KeepsDrained
    BY <1>2 DEF KeepsDrained, is_node_drained, vars, slurm
  <2> QED
    BY <1>1, <1>2, <2>1, NodeStep DEF vars
<1>3. ASSUME NEW n \in Node, StartJob(n) \/ EndJob(n) \/ DrainByHand(n) \/ DownByHand(n)
      PROVE Inv'
  <2>1. UNCHANGED <<in_service, run, overtaken>>
    BY <1>3 DEF StartJob, EndJob, DrainByHand, DownByHand
  <2>2. KeepsDrained
    BY <1>3 DEF StartJob, EndJob, DrainByHand, DownByHand, Drain, Down, KeepsDrained,
                is_node_drained, Inv, Types
  <2> QED
    BY <1>1, <2>1, <2>2, NodeStep
<1>7. ASSUME NEW n \in Node, ReadyByHand(n) PROVE Inv'
  BY <1>1, <1>7, ReadyByHandStep
<1>4. ASSUME NEW m \in Machine, Request(m) PROVE Inv'
  <2>1. KeepsDrained
    BY <1>4 DEF Request, KeepsDrained, is_node_drained, slurm
  <2> QED
    BY <1>1, <1>4, <2>1, NodeStep DEF Request
<1>5. ASSUME NEW m \in Machine, Step(m) \/ Crash(m) PROVE Inv'
  BY <1>1, <1>5, StartStep, DrainSteps, EnterSteps, EndSteps DEF Step
<1>6. CASE ReadyStep
  BY <1>1, <1>6, ReadyLooks, ReadySteps, ReadyNodeStep, MachineType DEF ReadyStep
<1> QED
  BY <1>2, <1>3, <1>4, <1>5, <1>6, <1>7 DEF Next, ByHand

---------------------------------------------------------------------------
\* The types of what no guard of another machine's run depends on.
Rest ==
  /\ reason \in [Node -> AgentReason \cup {"", "manual"}]
  /\ due \subseteq Machine
  /\ left \in [requests : Nat, crashes : Nat, hands : Nat]

\* What is left of a bound after it was used.
LEMMA BoundFacts ==
  ASSUME NEW l \in [requests : Nat, crashes : Nat, hands : Nat]
  PROVE  /\ l.requests > 0 => [l EXCEPT !.requests = @ - 1] \in [requests : Nat, crashes : Nat, hands : Nat]
         /\ l.crashes > 0 => [l EXCEPT !.crashes = @ - 1] \in [requests : Nat, crashes : Nat, hands : Nat]
         /\ l.hands > 0 => [l EXCEPT !.hands = @ - 1] \in [requests : Nat, crashes : Nat, hands : Nat]
  OBVIOUS

\* Every step keeps these, too: the agents write only reasons of the agents.
LEMMA RestStep == Rest /\ [Next]_vars => Rest'
<1> SUFFICES ASSUME Rest, [Next]_vars PROVE Rest'
    OBVIOUS
<1> USE DEF Rest, slurm, run
<1>1. CASE UNCHANGED <<reason, due, left>>
  BY <1>1
<1>2. ASSUME NEW n \in Node, StartJob(n) \/ EndJob(n) PROVE Rest'
  BY <1>1, <1>2 DEF StartJob, EndJob
<1>3. ASSUME NEW n \in Node, DrainByHand(n) \/ DownByHand(n) \/ ReadyByHand(n) PROVE Rest'
  <2>1. left' \in [requests : Nat, crashes : Nat, hands : Nat]
    BY <1>3, BoundFacts DEF DrainByHand, DownByHand, ReadyByHand
  <2>2. (\E why \in {"manual", ""} : reason' = [reason EXCEPT ![n] = why]) /\ due' = due
    BY <1>3 DEF DrainByHand, DownByHand, ReadyByHand, Drain, Down, Resume
  <2> QED
    BY <2>1, <2>2
<1>4. ASSUME NEW m \in Machine, Request(m) \/ Crash(m) PROVE Rest'
  <2>1. left' \in [requests : Nat, crashes : Nat, hands : Nat]
    BY <1>4, BoundFacts DEF Request, Crash
  <2>2. reason' = reason /\ due' \subseteq Machine
    BY <1>4 DEF Request, Crash
  <2> QED
    BY <2>1, <2>2
<1>5. ASSUME NEW m \in Machine,
             \/ Start(m) \/ DrainChecked(m) \/ Drained(m) \/ DrainWait(m) \/ Work(m) \/ Timeout(m)
             \/ AskedRequired(m) \/ ReadyChecked(m) \/ Readied(m) \/ ReadyWait(m)
             \/ \E n \in Machine : \/ DrainCheck(m, n) \/ DrainPoll(m, n) \/ AskRequired(m, n)
                                   \/ ReadyCheck(m, n) \/ ReadyPoll(m, n)
      PROVE  Rest'
  BY <1>1, <1>5
  DEF Start, DrainChecked, Drained, DrainWait, Wait, Work, Timeout, AskedRequired, ReadyChecked,
      Readied, ReadyWait, DrainCheck, DrainPoll, AskRequired, ReadyCheck, ReadyPoll, Look
<1>6. ASSUME NEW m \in Machine, Finish(m) PROVE Rest'
  BY <1>6 DEF Finish
<1>7. ASSUME NEW m \in Machine, NEW n \in Node,
             DrainNode(m, n) \/ DownNode(m, n) \/ ReadyNode(m, n)
      PROVE  Rest'
  <2>1. UNCHANGED <<due, left>>
    BY <1>7 DEF DrainNode, DownNode, ReadyNode, Look
  <2>2. PICK why \in AgentReason \cup {"", "manual"} :
          reason' = [reason EXCEPT ![n] = why] \/ reason' = reason
    BY <1>7
    DEF DrainNode, DownNode, ReadyNode, Drain, Down, Resume, Reason, AgentReason
  <2> QED
    BY <2>1, <2>2
<1> QED
  BY <1>1, <1>2, <1>3, <1>4, <1>5, <1>6, <1>7, MachineType
  DEF Next, Step, ReadyStep, ByHand, vars

\* A step that sets a node DOWN on which a job runs is one of a command by hand, or of a machine
\* that was overtaken.
LEMMA JobsKept == Inv /\ [Next]_vars => [KeepsJobs]_vars
<1>1. SUFFICES ASSUME Inv, [Next]_vars,
                      NEW n \in Node, state[n] = "ALLOCATED", state'[n] = "DOWN", ~ByHand
               PROVE  \E m \in overtaken : pc[m] = "down"
  BY DEF KeepsJobs
<1>2. PICK m \in Machine, k \in Node : DownNode(m, k)
  BY <1>1 DEF Next, Step, ReadyStep, vars, slurm, StartJob, EndJob, Request, Crash, Start,
      DrainChecked, Drained, DrainWait, Wait, Work, Finish, Timeout, DrainCheck, DrainNode, Drain,
      DrainPoll, AskedRequired, ReadyChecked, Readied, ReadyWait, AskRequired, ReadyCheck,
      ReadyNode, Resume, ReadyPoll, Inv, Types
<1>3. k = n /\ pc[m] = "down"
  BY <1>1, <1>2 DEF DownNode, Look, Down, slurm, Inv, Types
<1>4. n \in Nodes(m)
  BY <1>1, <1>2, <1>3 DEF DownNode, Look, Inv, Local
<1> QED
  BY <1>1, <1>3, <1>4 DEF Inv, Local, Seen, is_node_drained

---------------------------------------------------------------------------
\* The inductive invariant holds in every reachable state.
THEOREM Invariance == Spec => []Inv
  BY InitInv, InvStep, PTL DEF Spec

\* Every variable keeps its type, for any number of nodes and dependencies.
THEOREM TypeCorrect ==
  ASSUME SlurmAssumption
  PROVE  Spec => []TypeOK
<1>1. Init => Rest
  BY SlurmAssumption DEF SlurmAssumption, Init, Rest
<1>2. Inv /\ Rest => TypeOK
  BY DEF Inv, Types, Rest, TypeOK
<1> QED
  BY <1>1, <1>2, RestStep, Invariance, PTL DEF Spec

\* What the invariant says of a machine that executes maintenance.
LEMMA InvNoJob == Inv => NoJobDuringMaintenance
  BY DEF Inv, Local, Seen, is_node_drained, NoJobDuringMaintenance

\* No job runs on the nodes concerned while maintenance is executed, for any number of nodes,
\* dependencies, requests, kills and commands by hand.
THEOREM NoJobDuringMaintenanceHolds == Spec => []NoJobDuringMaintenance
  BY Invariance, InvNoJob, PTL

\* Maintenance sets no node DOWN on which a job runs.
THEOREM NoJobKilledHolds == Spec => NoJobKilled
  BY Invariance, JobsKept, PTL DEF Spec, NoJobKilled
=============================================================================
