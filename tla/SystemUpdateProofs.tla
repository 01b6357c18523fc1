-------------------------- MODULE SystemUpdateProofs --------------------------
(***************************************************************************)
(* Type correctness of the update of a machine, and that fc-agent and      *)
(* fc-update-channel replace a release only by a reboot, for any channels, *)
(* releases, changes, failing commands and reboots nobody asked for.       *)
(***************************************************************************)
EXTENDS SystemUpdate, TLAPS

Switching == {"load", "build", "register", "activate"}
Requesting == {"request", "request:lock", "request:prepare", "request:add"}
Stage == {"initial", "initial update", "switch"}
Running == {"run:channel", "run:build", "run:register", "run:activate"}

(***************************************************************************)
(* The inductive invariant: what is known of a service p while it switches *)
(* the system. It holds fc-agent.lock, and a switch type that was chosen   *)
(* stays right, because nobody else changes the running system.            *)
(***************************************************************************)
Switches(p) ==
  /\ pc[p] \in Switching \cup {"request:prepare"} => agent_lock = p
  /\ pc[p] = "load" => job[p].url \in Channel \ Local
  /\ pc[p] = "build" => job[p].url \in Channel
  /\ pc[p] \in {"register", "activate"} => job[p].system \in System
  /\ pc[p] \in Switching /\ job[p].stage # "switch" => marker
  /\ ~by_hand /\ pc[p] = "activate" /\ job[p].kind = "switch" /\ job[p].stage # "initial"
       => os_release(job[p].system) = os_release(current)

\* The agent, while it runs the requests under the lock of ReqManager.
Runs ==
  /\ pc["agent"] \in Running \cup {"run:end"} =>
       rm_lock = "agent" /\ ("update" \in job["agent"].due => update \in UpdateRequest)
  /\ pc["agent"] \in Running => update \in UpdateRequest
  /\ ~by_hand /\ pc["agent"] = "run:activate" /\ job["agent"].kind = "switch"
       => os_release(update.system) = os_release(current)

\* fc-update-channel: requests are only made where updates are left to maintenance.
Asks ==
  /\ pc["channel"] \in Requesting => in_maintenance /\ job["channel"].url \in Channel
  /\ pc["channel"] \in {"request:prepare", "request:add"} => job["channel"].url \notin Local
  /\ pc["channel"] = "request:add" => job["channel"].system \in System
  /\ pc["channel"] \in Switching \cup {"lock"} => ~in_maintenance

Update == update \in UpdateRequest => in_maintenance /\ update.url \notin Local

Bounded == config + left.changes =< MaxChanges

Inv == /\ TypeOK /\ Bounded /\ (\A p \in Service : Switches(p)) /\ Runs /\ Asks /\ Update
       /\ (~by_hand => pc["operator"] = "idle")

Lefts == [changes : 0 .. MaxChanges, failures : 0 .. MaxFailures, power : 0 .. MaxPowerFailures]

---------------------------------------------------------------------------
\* What the building blocks of the actions do.
LEMMA GoToFacts ==
  ASSUME TypeOK, NEW p \in Service, NEW step \in Step, GoTo(p, step)
  PROVE  /\ pc' \in [Service -> Step] /\ pc'[p] = step
         /\ \A q \in Service \ {p} : pc'[q] = pc[q]
  BY DEF GoTo, TypeOK

\* Remember changes what one service remembers and nothing else.
LEMMA RememberFacts ==
  ASSUME TypeOK, NEW p \in Service, NEW j \in Job, Remember(p, j)
  PROVE  /\ job' \in [Service -> Job] /\ job'[p] = j
         /\ \A q \in Service \ {p} : job'[q] = job[q]
  BY DEF Remember, TypeOK

\* Failing or not leaves the bound on changes alone.
LEMMA LeftFacts ==
  ASSUME TypeOK, Fail \/ Succeed
  PROVE  left' \in Lefts /\ left'.changes = left.changes
<1>1. left \in Lefts
  BY DEF TypeOK, Lefts
<1>2. CASE Fail
  BY <1>1, <1>2, SystemUpdateAssumption DEF Fail, Lefts
<1>3. CASE Succeed
  BY <1>1, <1>3 DEF Succeed
<1> QED
  BY <1>2, <1>3

\* Systems that are built from channels, and a memory without content, have their types.
LEMMA BuildType ==
  ASSUME TypeOK, NEW url \in Channel
  PROVE  build_system(url) \in System
  BY DEF TypeOK, build_system, System

\* A service that remembers nothing is type correct, too.
LEMMA NoJobType == NoJob \in Job
  BY DEF NoJob, Job

\* What a service remembers, after one or two changes of it.
LEMMA UrlFacts ==
  ASSUME NEW j \in Job, NEW url \in Channel \cup {None}
  PROVE  LET k == [j EXCEPT !.url = url]
         IN k \in Job /\ k.url = url /\ k.stage = j.stage
  BY DEF Job

\* A new stage and URL keep the type of a job.
LEMMA StageFacts ==
  ASSUME NEW j \in Job, NEW stage \in Stage, NEW url \in Channel \cup {None}
  PROVE  LET k == [j EXCEPT !.stage = stage, !.url = url]
         IN k \in Job /\ k.stage = stage /\ k.url = url
<1> DEFINE k == [j EXCEPT !.stage = stage]
<1>1. k \in Job /\ k.stage = stage
  BY DEF Job, Stage
<1>2. [j EXCEPT !.stage = stage, !.url = url] = [k EXCEPT !.url = url]
  OBVIOUS
<1> HIDE DEF k
<1>3. LET n == [k EXCEPT !.url = url]
      IN n \in Job /\ n.url = url /\ n.stage = k.stage
  BY <1>1, UrlFacts
<1> QED
  BY <1>1, <1>2, <1>3

\* A new kind of switch changes nothing else that a service remembers.
LEMMA KindFacts ==
  ASSUME NEW j \in Job, NEW kind \in {"switch", "boot"}
  PROVE  LET k == [j EXCEPT !.kind = kind]
         IN /\ k \in Job /\ k.kind = kind
            /\ k.stage = j.stage /\ k.system = j.system /\ k.due = j.due
  BY DEF Job

\* A new system changes nothing else that matters of a service's job.
LEMMA SystemFacts ==
  ASSUME NEW j \in Job, NEW system \in System
  PROVE  LET k == [j EXCEPT !.system = system]
         IN k \in Job /\ k.system = system /\ k.stage = j.stage
  BY DEF Job

---------------------------------------------------------------------------
\* In the beginning no service runs.
LEMMA InitInv == Init => Inv
<1> SUFFICES ASSUME Init PROVE Inv
    OBVIOUS
<1> USE SystemUpdateAssumption
<1>1. InitialChannel \in Channel
  OBVIOUS
<1>2. 0 \in 0 .. MaxChanges /\ 0 \in 0 .. MaxFailures /\ MaxChanges \in 0 .. MaxChanges
      /\ MaxFailures \in 0 .. MaxFailures /\ MaxPowerFailures \in 0 .. MaxPowerFailures
  OBVIOUS
<1>3. {profile, boot, current, booted} \subseteq System
  BY <1>1, <1>2 DEF Init, System
<1>4. pc \in [Service -> Step] /\ job \in [Service -> Job]
  BY NoJobType DEF Init, Step
<1>5. TypeOK
  BY <1>1, <1>2, <1>3, <1>4 DEF Init, TypeOK
<1>6. \A p \in Service : pc[p] = "idle"
  BY DEF Init
<1>7. \A p \in Service : Switches(p)
  BY <1>6 DEF Switches, Switching
<1>8. Runs /\ Asks
  BY <1>6 DEF Runs, Asks, Running, Requesting, Switching, Service
<1>9. Update /\ Bounded /\ pc["operator"] = "idle"
  BY <1>6, NoneAssumption DEF Init, Update, Bounded, Service
<1> QED
  BY <1>5, <1>7, <1>8, <1>9 DEF Inv

---------------------------------------------------------------------------
\* The steps of fc-manage switch: p is the only service that they concern.
Only(p) ==
  /\ pc' \in [Service -> Step] /\ job' \in [Service -> Job]
  /\ \A q \in Service \ {p} : pc'[q] = pc[q] /\ job'[q] = job[q]

\* A service that switches under fc-agent.lock disturbs what is known of no other one.
LEMMA SwitchFrame ==
  ASSUME Inv, TypeOK', NEW p \in Service, Only(p), Switches(p)', left'.changes = left.changes,
         pc[p] \in Switching \cup {"lock"}, pc'[p] \in Switching \cup {"idle", "properties"},
         agent_lock \in {p, None}, agent_lock' \in {p, None},
         UNCHANGED <<directory, update, rm_lock>>
  PROVE  Inv'
<1> USE NoneAssumption DEF directory
<1>1. \A q \in Service : Switches(q)'
  <2> SUFFICES ASSUME NEW q \in Service \ {p} PROVE Switches(q)'
      OBVIOUS
  <2>1. Switches(q) /\ pc'[q] = pc[q] /\ job'[q] = job[q] /\ q # agent_lock
    BY DEF Inv, Only, Service
  <2> QED
    BY <2>1 DEF Switches, Switching
<1>2. p = "channel" => ~in_maintenance
  BY DEF Inv, Asks
<1>3. Runs'
  <2>1. CASE p = "agent"
    BY <2>1 DEF Runs, Running, Switching
  <2>2. CASE p # "agent"
    <3>1. pc'["agent"] = pc["agent"] /\ job'["agent"] = job["agent"]
      BY <2>2 DEF Only, Service
    <3>2. pc["agent"] = "run:activate" => by_hand
      BY <1>2, <2>2 DEF Inv, Runs, Update, Running, Service, Switching
    <3> QED
      BY <3>1, <3>2 DEF Runs, Inv
  <2> QED
    BY <2>1, <2>2
<1>4. Asks'
  <2>1. CASE p = "channel"
    BY <1>2, <2>1 DEF Asks, Requesting, Switching
  <2>2. CASE p # "channel"
    BY <2>2 DEF Inv, Asks, Only, Service
  <2> QED
    BY <2>1, <2>2
<1>5. ~by_hand' => pc'["operator"] = "idle"
  BY DEF Inv, Only, Service, Switching
<1>6. Update' /\ Bounded'
  BY DEF Inv, Update, Bounded
<1> QED
  BY <1>1, <1>3, <1>4, <1>5, <1>6 DEF Inv

\* The next system is built or its channel loaded.
LEMMA SwitchFacts ==
  ASSUME TypeOK, NEW p \in Service, NEW stage \in {"initial update", "switch"},
         NEW load \in BOOLEAN, NEW env \in Channel, switch(p, stage, load, env)
  PROVE  /\ Only(p) /\ pc'[p] \in {"load", "build"} /\ job'[p].stage = stage
         /\ job'[p].url \in Channel /\ (pc'[p] = "load" => job'[p].url \notin Local)
<1> DEFINE url == IF load \/ env \in Local THEN env ELSE channel
           step == IF load /\ env \notin Local THEN "load" ELSE "build"
<1>0. url \in Channel /\ (step = "load" => url \notin Local) /\ step \in {"load", "build"}
  BY DEF TypeOK
<1>1. step \in Step /\ stage \in Stage /\ job[p] \in Job
  BY DEF Step, Stage, TypeOK
<1> DEFINE k == [job[p] EXCEPT !.stage = stage]
           j == [k EXCEPT !.url = url]
<1>2. GoTo(p, step) /\ Remember(p, j)
  <2>1. GoTo(p, step)
    BY DEF switch
  <2>2. Remember(p, [job[p] EXCEPT !.stage = stage, !.url = url])
    BY DEF switch
  <2>3. [job[p] EXCEPT !.stage = stage, !.url = url] = j
    OBVIOUS
  <2> HIDE DEF j
  <2> QED
    BY <2>1, <2>2, <2>3
<1> HIDE DEF url, step
<1>3. k \in Job /\ k.stage = stage
  BY <1>1 DEF Job, Stage
<1> HIDE DEF k
<1>4. j \in Job /\ j.stage = stage /\ j.url = url
  BY <1>0, <1>3, UrlFacts
<1> HIDE DEF j
<1>5. Only(p) /\ pc'[p] = step /\ job'[p] = j
  BY <1>1, <1>2, <1>4, GoToFacts, RememberFacts DEF Only
<1> QED
  BY <1>0, <1>4, <1>5

\* A command ends and forgets what it has built.
LEMMA EndFacts ==
  ASSUME TypeOK, NEW p \in Service, EndCommand(p)
  PROVE  Only(p) /\ pc'[p] \in {"idle", "properties"} /\ agent_lock' = None
<1>1. NextCommand(p) \in {"idle", "properties"} /\ NextCommand(p) \in Step
  BY DEF NextCommand, Step
<1> QED
  BY <1>1, GoToFacts, RememberFacts, NoJobType DEF EndCommand, Forget, Only

\* Whatever fails, the first run goes on with its second stage.
LEMMA FailedFacts ==
  ASSUME Inv, NEW p \in Service, pc[p] \in Switching, Failed(p), UNCHANGED marker
  PROVE  /\ Only(p) /\ pc'[p] \in Switching \cup {"idle", "properties"}
         /\ agent_lock = p /\ agent_lock' \in {p, None} /\ Switches(p)'
<1>1. agent_lock = p /\ (job[p].stage = "initial" => marker)
  BY DEF Inv, Switches
<1>2. CASE job[p].stage = "initial"
  <2>1. switch(p, "initial update", TRUE, enc) /\ enc \in Channel /\ UNCHANGED agent_lock
    BY <1>2 DEF Failed, InitialUpdate, Inv, TypeOK
  <2>2. /\ Only(p) /\ pc'[p] \in {"load", "build"} /\ job'[p].stage = "initial update"
        /\ job'[p].url \in Channel /\ (pc'[p] = "load" => job'[p].url \notin Local)
    BY <2>1, SwitchFacts DEF Inv
  <2> QED
    BY <1>1, <1>2, <2>1, <2>2 DEF Switches, Switching
<1>3. CASE job[p].stage # "initial"
  <2>1. Only(p) /\ pc'[p] \in {"idle", "properties"} /\ agent_lock' = None
    BY <1>3, EndFacts DEF Failed, Inv
  <2> QED
    BY <1>1, <2>1 DEF Switches, Switching
<1> QED
  BY <1>2, <1>3

\* Waiting for fc-agent.lock and getting it.
LEMMA LockForSwitchStep == ASSUME Inv, NEW p \in Service, LockForSwitch(p) PROVE Inv'
<1>1. /\ pc[p] = "lock" /\ agent_lock = None /\ agent_lock' = p
      /\ UNCHANGED <<directory, channel, marker, machine, links, requests, rebooting,
                     rm_lock, lost, left>>
      /\ enc' \in Channel
  BY DEF LockForSwitch, LoadEnc, Inv, TypeOK
<1>2. CASE marker
  <2> DEFINE j == [job[p] EXCEPT !.stage = "initial", !.url = channel]
  <2>1. j \in Job /\ j.stage = "initial" /\ j.url = channel
    BY StageFacts, ZenonT(40) DEF Inv, TypeOK, Stage
  <2>2. "build" \in Step /\ GoTo(p, "build") /\ Remember(p, j)
    BY <1>2 DEF LockForSwitch, Step
  <2> HIDE DEF j
  <2>3. Only(p) /\ pc'[p] = "build" /\ job'[p] = j
    BY <2>1, <2>2, GoToFacts, RememberFacts DEF Inv, Only
  <2>4. Switches(p)'
    BY <1>1, <1>2, <2>1, <2>3 DEF Switches, Switching, Inv, TypeOK
  <2>5. TypeOK'
    BY <1>1, <2>3 DEF Inv, TypeOK, Only, directory, machine, links, requests
  <2> QED
    BY <1>1, <2>3, <2>4, <2>5, SwitchFrame DEF Switching, requests
<1>3. CASE ~marker
  <2>1. switch(p, "switch", job[p].load, enc') /\ job[p].load \in BOOLEAN
    BY <1>3 DEF LockForSwitch, Inv, TypeOK, Job
  <2>2. /\ Only(p) /\ pc'[p] \in {"load", "build"} /\ job'[p].stage = "switch"
        /\ job'[p].url \in Channel /\ (pc'[p] = "load" => job'[p].url \notin Local)
    BY <1>1, <2>1, SwitchFacts DEF Inv
  <2>3. Switches(p)'
    BY <1>1, <2>2 DEF Switches, Switching
  <2>4. TypeOK'
    BY <1>1, <2>2 DEF Inv, TypeOK, Only, directory, machine, links, requests
  <2> QED
    BY <1>1, <2>2, <2>3, <2>4, SwitchFrame DEF Switching, requests
<1> QED
  BY <1>2, <1>3

\* Setting the channel, or leaving it, before a build.
LEMMA LoadNixosStep == ASSUME Inv, NEW p \in Service, LoadNixos(p) PROVE Inv'
<1>1. /\ pc[p] = "load" /\ channel' = job[p].url /\ job[p].url \in Channel \ Local
      /\ agent_lock = p /\ (job[p].stage # "switch" => marker)
      /\ UNCHANGED <<directory, enc, marker, machine, links, requests, rebooting, rm_lock, lost>>
  BY DEF LoadNixos, Inv, Switches, Switching
<1>2. left' \in Lefts /\ left'.changes = left.changes
  BY LeftFacts DEF LoadNixos, Inv
<1>3. /\ Only(p) /\ pc'[p] \in Switching \cup {"idle", "properties"}
      /\ agent_lock' \in {p, None} /\ Switches(p)'
  <2>1. CASE StartBuild(p, job[p].url) /\ UNCHANGED agent_lock
    <3> DEFINE j == [job[p] EXCEPT !.url = job[p].url]
    <3>1. j \in Job /\ j.url = job[p].url /\ j.stage = job[p].stage
      BY <1>1, UrlFacts DEF Inv, TypeOK
    <3>2. "build" \in Step /\ GoTo(p, "build") /\ Remember(p, j)
      BY <2>1 DEF StartBuild, Step
    <3> HIDE DEF j
    <3>3. Only(p) /\ pc'[p] = "build" /\ job'[p] = j
      BY <3>1, <3>2, GoToFacts, RememberFacts DEF Inv, Only
    <3> QED
      BY <1>1, <2>1, <3>1, <3>3 DEF Switches, Switching
  <2>2. CASE Failed(p)
    BY <1>1, <2>2, FailedFacts DEF Switching
  <2> QED
    BY <2>1, <2>2 DEF LoadNixos
<1>4. TypeOK'
  BY <1>1, <1>2, <1>3 DEF Inv, TypeOK, Only, Lefts, directory, machine, links, requests
<1> QED
  BY <1>1, <1>2, <1>3, <1>4, SwitchFrame DEF Switching, requests

\* Building the system under the lock.
LEMMA BuildStep == ASSUME Inv, NEW p \in Service, Build(p) PROVE Inv'
<1>1. /\ pc[p] = "build" /\ job[p].url \in Channel
      /\ agent_lock = p /\ (job[p].stage # "switch" => marker)
      /\ UNCHANGED <<directory, enc, channel, marker, machine, next_link, requests, rebooting,
                     rm_lock, lost>>
  BY DEF Build, Inv, Switches, Switching
<1> DEFINE system == build_system(job[p].url)
           j == [job[p] EXCEPT !.system = system]
<1>2. system \in System
  BY <1>1, BuildType DEF Inv
<1>3. left' \in Lefts /\ left'.changes = left.changes
  BY LeftFacts DEF Build, Inv
<1>4. /\ Only(p) /\ pc'[p] \in Switching \cup {"idle", "properties"}
      /\ agent_lock' \in {p, None} /\ Switches(p)' /\ built_link' \in {built_link, system}
  <2>1. CASE GoTo(p, "register") /\ Remember(p, j) /\ UNCHANGED agent_lock /\ built_link' = system
    <3> HIDE DEF system
    <3>1. j \in Job /\ j.system = system /\ j.stage = job[p].stage
      BY <1>2, SystemFacts DEF Inv, TypeOK
    <3>2. "register" \in Step
      BY DEF Step
    <3> HIDE DEF j
    <3>3. Only(p) /\ pc'[p] = "register" /\ job'[p] = j
      BY <2>1, <3>1, <3>2, GoToFacts, RememberFacts DEF Inv, Only
    <3> QED
      BY <1>1, <1>2, <2>1, <3>1, <3>3 DEF Switches, Switching, System
  <2>2. CASE Failed(p) /\ UNCHANGED built_link
    BY <1>1, <2>2, FailedFacts DEF Switching
  <2> QED
    BY <2>1, <2>2 DEF Build
<1> HIDE DEF system
<1>5. TypeOK'
  BY <1>1, <1>2, <1>3, <1>4 DEF Inv, TypeOK, Only, Lefts, directory, machine, requests
<1> QED
  BY <1>1, <1>3, <1>4, <1>5, SwitchFrame DEF Switching, requests

\* The switch type is chosen: without a reboot only if the release stays.
LEMMA RegisterStep == ASSUME Inv, NEW p \in Service, Register(p) PROVE Inv'
<1>1. /\ pc[p] = "register" /\ job[p].system \in System /\ job[p] \in Job
      /\ agent_lock = p /\ (job[p].stage # "switch" => marker)
      /\ UNCHANGED <<directory, enc, channel, marker, boot, current, booted, next_link, requests,
                     rebooting, rm_lock>>
      /\ lost' = lost \ {p}
  BY DEF Register, Inv, Switches, Switching, TypeOK
<1>3. left' \in Lefts /\ left'.changes = left.changes
  BY LeftFacts DEF Register, Inv
<1> DEFINE kind == CASE job[p].stage = "initial" -> "switch"
                     [] job[p].stage = "initial update" -> SwitchType(job[p].system, FALSE)
                     [] OTHER -> SwitchType(job[p].system, job[p].restart)
           j == [job[p] EXCEPT !.kind = kind]
<1>4. /\ kind \in {"switch", "boot"}
      /\ kind = "switch" /\ job[p].stage # "initial"
           => os_release(job[p].system) = os_release(current)
  BY DEF SwitchType
<1>5. /\ Only(p) /\ pc'[p] \in Switching \cup {"idle", "properties"}
      /\ agent_lock' \in {p, None} /\ Switches(p)'
      /\ profile' \in {profile, job[p].system} /\ built_link' \in {built_link, None}
  <2>1. CASE /\ profile' = job[p].system /\ built_link' = None
             /\ GoTo(p, "activate") /\ Remember(p, j) /\ UNCHANGED agent_lock
    <3> HIDE DEF kind
    <3>1. /\ j \in Job /\ j.kind = kind
          /\ j.stage = job[p].stage /\ j.system = job[p].system
      BY <1>1, <1>4, KindFacts
    <3>2. "activate" \in Step
      BY DEF Step
    <3> HIDE DEF j
    <3>3. Only(p) /\ pc'[p] = "activate" /\ job'[p] = j
      BY <2>1, <3>1, <3>2, GoToFacts, RememberFacts DEF Inv, Only
    <3> QED
      BY <1>1, <1>4, <2>1, <3>1, <3>3 DEF Switches, Switching, os_release
  <2>2. CASE Failed(p) /\ UNCHANGED <<profile, built_link>>
    BY <1>1, <2>2, FailedFacts DEF Switching
  <2> QED
    BY <2>1, <2>2 DEF Register
<1> HIDE DEF kind, j
<1>6. TypeOK'
  BY <1>1, <1>3, <1>5 DEF Inv, TypeOK, Only, Lefts, directory, requests
<1> QED
  BY <1>1, <1>3, <1>5, <1>6, SwitchFrame DEF Switching, requests

\* Activating: the system was chosen for the release that runs, or is only booted.
LEMMA SwitchToConfigurationStep ==
  ASSUME Inv, NEW p \in Service, switch_to_configuration(p)
  PROVE  Inv'
<1>1. /\ pc[p] = "activate" /\ job[p].system \in System /\ job[p].load \in BOOLEAN
      /\ agent_lock = p /\ (job[p].stage # "switch" => marker)
      /\ UNCHANGED <<directory, enc, channel, profile, booted, links, requests, rm_lock, lost>>
  BY DEF switch_to_configuration, Inv, Switches, Switching, TypeOK, Job
<1>2. /\ boot' \in {boot, job[p].system} /\ current' \in {current, job[p].system}
      /\ rebooting' \in BOOLEAN
  BY DEF switch_to_configuration, Activated, ActivationFailed, Inv, TypeOK
<1>3. left' \in Lefts /\ left'.changes = left.changes
  BY LeftFacts DEF switch_to_configuration, Inv
<1>4. /\ Only(p) /\ pc'[p] \in Switching \cup {"idle", "properties"}
      /\ agent_lock' \in {p, None} /\ Switches(p)' /\ marker' \in BOOLEAN
  <2>0. marker \in BOOLEAN
    BY DEF Inv, TypeOK
  <2>1. CASE AfterSwitch(p) /\ job[p].stage = "initial"
    <3>1. switch(p, "initial update", TRUE, enc) /\ enc \in Channel /\ UNCHANGED <<agent_lock, marker>>
      BY <2>1 DEF AfterSwitch, InitialUpdate, Inv, TypeOK
    <3>2. /\ Only(p) /\ pc'[p] \in {"load", "build"} /\ job'[p].stage = "initial update"
          /\ job'[p].url \in Channel /\ (pc'[p] = "load" => job'[p].url \notin Local)
      BY <3>1, SwitchFacts DEF Inv
    <3> QED
      BY <1>1, <2>0, <2>1, <3>1, <3>2 DEF Switches, Switching
  <2>2. CASE AfterSwitch(p) /\ job[p].stage = "initial update"
    <3>1. /\ switch(p, "switch", job[p].load, enc) /\ enc \in Channel
          /\ UNCHANGED agent_lock /\ marker' = FALSE
      BY <2>2 DEF AfterSwitch, Inv, TypeOK
    <3>2. /\ Only(p) /\ pc'[p] \in {"load", "build"} /\ job'[p].stage = "switch"
          /\ job'[p].url \in Channel /\ (pc'[p] = "load" => job'[p].url \notin Local)
      BY <1>1, <3>1, SwitchFacts DEF Inv
    <3> QED
      BY <1>1, <3>1, <3>2 DEF Switches, Switching
  <2>3. CASE AfterSwitch(p) /\ job[p].stage \notin {"initial", "initial update"}
    <3>1. EndCommand(p) /\ UNCHANGED marker
      BY <2>3 DEF AfterSwitch
    <3>2. Only(p) /\ pc'[p] \in {"idle", "properties"} /\ agent_lock' = None
      BY <3>1, EndFacts DEF Inv
    <3> QED
      BY <2>0, <3>1, <3>2 DEF Switches, Switching
  <2>4. CASE Failed(p) /\ UNCHANGED marker
    BY <1>1, <2>0, <2>4, FailedFacts DEF Switching
  <2> QED
    BY <2>1, <2>2, <2>3, <2>4 DEF switch_to_configuration
<1>5. TypeOK'
  BY <1>1, <1>2, <1>3, <1>4 DEF Inv, TypeOK, Only, Lefts, directory, links, requests
<1> QED
  BY <1>1, <1>3, <1>4, <1>5, SwitchFrame DEF Switching, requests

\* Every step of fc-manage switch, in each of the three services.
LEMMA SwitchStepKeeps == ASSUME Inv, NEW p \in Service, SwitchStep(p) PROVE Inv'
  BY LockForSwitchStep, LoadNixosStep, BuildStep, RegisterStep, SwitchToConfigurationStep
  DEF SwitchStep

---------------------------------------------------------------------------
\* A step of p that takes the lock from nobody, and changes the running system only
\* where nobody else is about to activate one.
LEMMA ServiceFrame ==
  ASSUME Inv, NEW p \in Service, Only(p), Switches(p)', UNCHANGED <<directory, marker>>,
         UNCHANGED agent_lock \/ agent_lock \in {p, None},
         UNCHANGED current \/ (in_maintenance /\ p = "agent")
  PROVE  /\ \A q \in Service : Switches(q)'
         /\ p # "operator" => (~by_hand' => pc'["operator"] = "idle")
<1> USE DEF directory
<1>1. ASSUME NEW q \in Service \ {p} PROVE Switches(q)'
  <2>1. /\ Switches(q) /\ pc'[q] = pc[q] /\ job'[q] = job[q]
        /\ (agent_lock = q => agent_lock' = q) /\ UNCHANGED <<marker, by_hand>>
    BY NoneAssumption DEF Inv, Only, Service
  <2>2. UNCHANGED current \/ by_hand \/ pc[q] # "activate"
    BY DEF Inv, Asks, Service, Switching
  <2> QED
    BY <2>1, <2>2 DEF Switches, Switching, os_release
<1>2. p # "operator" => (~by_hand' => pc'["operator"] = "idle")
  BY DEF Inv, Only, Service
<1> QED
  BY <1>1, <1>2

\* A step of the agent that has only to be looked at for the agent.
LEMMA AgentFrame ==
  ASSUME Inv, TypeOK', Only("agent"), pc'["agent"] \notin Switching \cup {"request:prepare"},
         Runs', Update', UNCHANGED <<directory, marker, agent_lock>>,
         left'.changes = left.changes, UNCHANGED current \/ in_maintenance
  PROVE  Inv'
<1>1. "agent" \in Service /\ Switches("agent")'
  BY DEF Service, Switches, Switching
<1>2. Asks'
  BY DEF Inv, Asks, Only, Service, directory
<1>3. Bounded'
  BY DEF Inv, Bounded, directory
<1> QED
  BY <1>1, <1>2, <1>3, ServiceFrame DEF Inv

\* The steps of fc-agent that come before the switch and after it.
LEMMA StartAgentStep == Inv /\ (StartAgent \/ UpdateEnc \/ request_reboot_for_kernel) => Inv'
<1> SUFFICES ASSUME Inv, StartAgent \/ UpdateEnc \/ request_reboot_for_kernel PROVE Inv'
    OBVIOUS
<1>1. /\ GoTo("agent", "update-enc") \/ GoTo("agent", "lock") \/ GoTo("agent", "run")
      /\ UNCHANGED <<directory, channel, marker, machine, links, update, rebooting, locks, job, lost>>
  BY DEF StartAgent, UpdateEnc, request_reboot_for_kernel, requests
<1>2. Only("agent") /\ pc'["agent"] \in {"update-enc", "lock", "run"}
  <2>1. "agent" \in Service /\ {"update-enc", "lock", "run"} \subseteq Step
    BY DEF Service, Step
  <2> QED
    BY <1>1, <2>1, GoToFacts DEF Inv, TypeOK, Only
<1>3. left' \in Lefts /\ left'.changes = left.changes
  BY LeftFacts DEF StartAgent, UpdateEnc, request_reboot_for_kernel, Inv, TypeOK, Lefts
<1>4. enc' \in Channel /\ reboot' \in {"none", "asked", "stale", "done"}
  BY DEF StartAgent, UpdateEnc, request_reboot_for_kernel, Inv, TypeOK, requests
<1>5. TypeOK'
  BY <1>1, <1>2, <1>3, <1>4 DEF Inv, TypeOK, Only, Lefts, directory, machine, links, locks
<1>6. Runs' /\ Update'
  BY <1>1, <1>2 DEF Inv, Runs, Running, Update, directory
<1> QED
  BY <1>1, <1>2, <1>3, <1>5, <1>6, AgentFrame DEF Switching, locks, machine

\* A request in another state is a request.
LEMMA RequestFacts ==
  ASSUME NEW u \in UpdateRequest, NEW state \in {"pending", "success", "error", "deleted"}
  PROVE  LET v == [u EXCEPT !.state = state]
         IN v \in UpdateRequest /\ v.url = u.url /\ v.system = u.system
  BY DEF UpdateRequest

\* The request manager starts a run with the due requests.
LEMMA RunStep == ASSUME Inv, NEW due \in SUBSET Pending, Run(due) PROVE Inv'
<1>1. /\ due \subseteq {"update", "reboot"}
      /\ "update" \in due => update \in UpdateRequest
  BY DEF Pending, Inv, TypeOK
<1> DEFINE j == [NoJob EXCEPT !.due = due]
<1>2. j \in Job /\ j.due = due
  BY <1>1, NoJobType DEF Job
<1> HIDE DEF j
<1>3. /\ (GoTo("agent", "run:channel") /\ "update" \in due) \/ GoTo("agent", "run:end")
      /\ Remember("agent", j) /\ rm_lock' = "agent"
      /\ UNCHANGED <<directory, enc, channel, marker, machine, links, reboot, rebooting,
                     agent_lock, lost, left>>
  BY DEF Run, j
<1>4. /\ Only("agent") /\ job'["agent"] = j /\ pc'["agent"] \in {"run:channel", "run:end"}
      /\ (pc'["agent"] = "run:channel" => "update" \in due)
  <2>1. "agent" \in Service /\ {"run:channel", "run:end"} \subseteq Step
    BY DEF Service, Step
  <2> QED
    BY <1>2, <1>3, <2>1, GoToFacts, RememberFacts DEF Inv, Only
<1>5. /\ update' = update \/ (update \in UpdateRequest /\ update' = [update EXCEPT !.tried = TRUE])
      /\ update \in UpdateRequest => [update EXCEPT !.tried = TRUE] \in UpdateRequest
      /\ update \in UpdateRequest => [update EXCEPT !.tried = TRUE].url = update.url
  BY <1>1 DEF Run, UpdateRequest
<1>6. TypeOK'
  BY <1>3, <1>4, <1>5 DEF Inv, TypeOK, Only, directory, machine, links
<1>7. Runs' /\ Update'
  BY <1>1, <1>2, <1>3, <1>4, <1>5 DEF Inv, Runs, Running, Update, directory
<1> QED
  BY <1>3, <1>4, <1>6, <1>7, AgentFrame DEF Switching, machine

\* What is known while the agent runs an update.
LEMMA RunningFacts ==
  ASSUME Inv, pc["agent"] \in Running
  PROVE  /\ "agent" \in Service /\ rm_lock = "agent" /\ update \in UpdateRequest
         /\ update.url \in Channel \ Local /\ update.system \in System
         /\ in_maintenance
<1>1. update \in UpdateRequest /\ rm_lock = "agent"
  BY DEF Inv, Runs
<1> QED
  BY <1>1 DEF Inv, Update, UpdateRequest, Service

\* The update is over: it succeeded, failed or is to be tried again.
LEMMA FinishFacts ==
  ASSUME Inv, pc["agent"] \in Running,
         NEW state \in {"pending", "success", "error"}, Finish(state), UNCHANGED job
  PROVE  /\ Only("agent") /\ pc'["agent"] = "run:end" /\ job'["agent"] = job["agent"]
         /\ update' \in UpdateRequest /\ update'.url = update.url
<1>1. "agent" \in Service /\ "run:end" \in Step
  BY DEF Service, Step
<1>2. update' \in UpdateRequest /\ update'.url = update.url
  BY RunningFacts, RequestFacts DEF Finish
<1> QED
  BY <1>1, <1>2, GoToFacts DEF Finish, Inv, Only, TypeOK

\* The update activity sets the channel.
LEMMA RunChannelStep == Inv /\ RunChannel => Inv'
<1> SUFFICES ASSUME Inv, RunChannel PROVE Inv'
    OBVIOUS
<1>1. /\ pc["agent"] \in Running /\ channel' = update.url
      /\ UNCHANGED <<directory, enc, marker, machine, links, reboot, rebooting, locks, job, lost>>
  BY DEF RunChannel, Running
<1>2. left' \in Lefts /\ left'.changes = left.changes
  BY LeftFacts DEF RunChannel, Inv
<1>3. /\ Only("agent") /\ pc'["agent"] \in {"run:build", "run:end"} /\ job'["agent"] = job["agent"]
      /\ update' \in UpdateRequest /\ update'.url = update.url
  <2>1. CASE Finish("success") \/ Finish("error")
    BY <1>1, <2>1, FinishFacts
  <2>2. CASE GoTo("agent", "run:build") /\ UNCHANGED update
    <3>1. "agent" \in Service /\ "run:build" \in Step
      BY DEF Service, Step
    <3> QED
      BY <1>1, <2>2, <3>1, GoToFacts, RunningFacts DEF Inv, Only, TypeOK
  <2> QED
    BY <2>1, <2>2 DEF RunChannel
<1>4. TypeOK'
  BY <1>1, <1>2, <1>3, RunningFacts DEF Inv, TypeOK, Only, Lefts, directory, machine, links, locks
<1>5. Runs' /\ Update'
  BY <1>1, <1>3, RunningFacts DEF Runs, Running, Update, directory, locks
<1> QED
  BY <1>1, <1>2, <1>3, <1>4, <1>5, AgentFrame DEF Switching, locks, machine

\* The update activity builds, without fc-agent.lock.
LEMMA RunBuildStep == Inv /\ RunBuild => Inv'
<1> SUFFICES ASSUME Inv, RunBuild PROVE Inv'
    OBVIOUS
<1>1. /\ pc["agent"] \in Running
      /\ UNCHANGED <<directory, enc, channel, marker, machine, links, reboot, rebooting, locks,
                     job, lost>>
  BY DEF RunBuild, Running
<1>2. left' \in Lefts /\ left'.changes = left.changes
  BY LeftFacts DEF RunBuild, Inv
<1>3. /\ Only("agent") /\ pc'["agent"] \in {"run:register", "run:end"}
      /\ job'["agent"] = job["agent"] /\ update' \in UpdateRequest /\ update'.url = update.url
  <2>1. CASE Finish("error")
    BY <1>1, <2>1, FinishFacts
  <2>2. CASE /\ GoTo("agent", "run:register")
             /\ update' = [update EXCEPT !.system = build_system(update.url)]
    <3>1. "agent" \in Service /\ "run:register" \in Step
      BY DEF Service, Step
    <3>2. build_system(update.url) \in System
      BY <1>1, BuildType, RunningFacts DEF Inv
    <3>3. update' \in UpdateRequest /\ update'.url = update.url
      BY <1>1, <2>2, <3>2, RunningFacts DEF UpdateRequest
    <3> QED
      BY <1>1, <2>2, <3>1, <3>3, GoToFacts DEF Inv, Only, TypeOK
  <2> QED
    BY <2>1, <2>2 DEF RunBuild
<1>4. TypeOK'
  BY <1>1, <1>2, <1>3 DEF Inv, TypeOK, Only, Lefts, directory, machine, links, locks
<1>5. Runs' /\ Update'
  BY <1>1, <1>3, RunningFacts DEF Runs, Running, Update, directory, locks
<1> QED
  BY <1>1, <1>2, <1>3, <1>4, <1>5, AgentFrame DEF Switching, locks, machine

\* As with fc-manage, the switch type is chosen when the system is registered.
LEMMA RunRegisterStep == Inv /\ RunRegister => Inv'
<1> SUFFICES ASSUME Inv, RunRegister PROVE Inv'
    OBVIOUS
<1>1. /\ pc["agent"] \in Running /\ lost' \subseteq lost
      /\ UNCHANGED <<directory, enc, channel, marker, boot, current, booted, links, reboot,
                     rebooting, locks>>
  BY DEF RunRegister, Running
<1>2. left' \in Lefts /\ left'.changes = left.changes
  BY LeftFacts DEF RunRegister, Inv
<1> DEFINE kind == SwitchType(update.system, FALSE)
           j == [job["agent"] EXCEPT !.kind = kind]
<1>3. /\ kind \in {"switch", "boot"}
      /\ kind = "switch" => os_release(update.system) = os_release(current)
  BY DEF SwitchType
<1>4. /\ Only("agent") /\ update' \in UpdateRequest /\ update'.url = update.url
      /\ job'["agent"].due = job["agent"].due /\ profile' \in {profile, update.system}
      /\ \/ pc'["agent"] = "run:end"
         \/ pc'["agent"] = "run:activate" /\ job'["agent"].kind = kind /\ UNCHANGED update
  <2>1. CASE Finish("error") /\ UNCHANGED <<profile, job>>
    BY <1>1, <2>1, FinishFacts
  <2>2. CASE /\ profile' = update.system /\ UNCHANGED update
             /\ GoTo("agent", "run:activate") /\ Remember("agent", j)
    <3>1. "agent" \in Service /\ "run:activate" \in Step /\ job["agent"] \in Job
      BY DEF Service, Step, Inv, TypeOK
    <3> HIDE DEF kind
    <3>2. j \in Job /\ j.kind = kind /\ j.due = job["agent"].due
      BY <1>3, <3>1, KindFacts
    <3> HIDE DEF j
    <3> QED
      BY <1>1, <2>2, <3>1, <3>2, GoToFacts, RememberFacts, RunningFacts DEF Inv, Only
  <2> QED
    BY <2>1, <2>2 DEF RunRegister
<1> HIDE DEF kind, j
<1>5. TypeOK'
  BY <1>1, <1>2, <1>4, RunningFacts DEF Inv, TypeOK, Only, Lefts, directory, links, locks
<1>6. Runs' /\ Update'
  BY <1>1, <1>3, <1>4, RunningFacts DEF Runs, Running, Update, directory, locks, os_release
<1>7. pc'["agent"] \notin Switching \cup {"request:prepare"}
  BY <1>4 DEF Switching
<1> QED
  BY <1>1, <1>2, <1>4, <1>5, <1>6, <1>7, AgentFrame DEF locks

\* The update activity switches, or only sets the boot loader, as it has decided before.
LEMMA RunActivateStep == Inv /\ RunActivate => Inv'
<1> SUFFICES ASSUME Inv, RunActivate PROVE Inv'
    OBVIOUS
<1>1. /\ pc["agent"] \in Running
      /\ UNCHANGED <<directory, enc, channel, marker, profile, booted, links, reboot, rebooting,
                     locks, job, lost>>
  BY DEF RunActivate, Running
<1>2. left' \in Lefts /\ left'.changes = left.changes
  BY LeftFacts DEF RunActivate, Inv
<1>3. boot' \in {boot, update.system} /\ current' \in {current, update.system}
  BY DEF RunActivate, Activated, ActivationFailed
<1>4. /\ Only("agent") /\ pc'["agent"] = "run:end" /\ job'["agent"] = job["agent"]
      /\ update' \in UpdateRequest /\ update'.url = update.url
  <2>1. Finish("success") \/ Finish("pending")
    BY DEF RunActivate
  <2> QED
    BY <1>1, <2>1, FinishFacts
<1>5. TypeOK'
  BY <1>1, <1>2, <1>3, <1>4, RunningFacts DEF Inv, TypeOK, Only, Lefts, directory, links, locks
<1>6. Runs' /\ Update'
  BY <1>1, <1>4, RunningFacts DEF Runs, Running, Update, directory, locks
<1> QED
  BY <1>1, <1>2, <1>4, <1>5, <1>6, AgentFrame, RunningFacts DEF Switching, locks

\* The end of a run, with or without a reboot.
LEMMA RunEndStep == Inv /\ RunEnd => Inv'
<1> SUFFICES ASSUME Inv, RunEnd PROVE Inv'
    OBVIOUS
<1>1. /\ pc["agent"] = "run:end" /\ rm_lock' = None /\ GoTo("agent", "idle") /\ Forget("agent")
      /\ UNCHANGED <<directory, enc, channel, marker, machine, links, agent_lock, lost, left>>
  BY DEF RunEnd
<1>2. Only("agent") /\ pc'["agent"] = "idle"
  <2>1. "agent" \in Service /\ "idle" \in Step
    BY DEF Service, Step
  <2> QED
    BY <1>1, <2>1, GoToFacts, RememberFacts, NoJobType DEF Forget, Inv, Only
<1>3. /\ update' \in {update, None} /\ reboot' \in {"done", "none", reboot}
      /\ rebooting' \in BOOLEAN
  BY DEF RunEnd
<1>4. TypeOK'
  BY <1>1, <1>2, <1>3 DEF Inv, TypeOK, Only, directory, machine, links
<1>5. Runs' /\ Update'
  BY <1>1, <1>2, <1>3, NoneAssumption DEF Inv, Runs, Running, Update, directory
<1> QED
  BY <1>1, <1>2, <1>4, <1>5, AgentFrame DEF Switching, machine

---------------------------------------------------------------------------
\* A step of fc-update-channel that has only to be looked at for that service.
LEMMA ChannelFrame ==
  ASSUME Inv, TypeOK', Only("channel"), Switches("channel")', Asks', Update',
         UNCHANGED <<directory, marker, current, rm_lock>>, left'.changes = left.changes,
         UNCHANGED agent_lock \/ agent_lock \in {"channel", None},
         UNCHANGED update \/ rm_lock = None
  PROVE  Inv'
<1>1. "channel" \in Service /\ \A q \in Service : Switches(q)'
  BY ServiceFrame DEF Service
<1>2. ~by_hand' => pc'["operator"] = "idle"
  BY ServiceFrame DEF Service
<1>3. pc'["agent"] = pc["agent"] /\ job'["agent"] = job["agent"]
  BY DEF Only, Service
<1>4. UNCHANGED update \/ pc["agent"] \notin Running \cup {"run:end"}
  BY NoneAssumption DEF Inv, Runs, Service
<1>5. Runs'
  BY <1>3, <1>4 DEF Inv, Runs, Running, directory, os_release
<1>6. Bounded'
  BY DEF Inv, Bounded, directory
<1> QED
  BY <1>1, <1>2, <1>5, <1>6 DEF Inv

\* The beginning of fc-update-channel.
LEMMA StartChannelStep == Inv /\ StartChannel => Inv'
<1> SUFFICES ASSUME Inv, StartChannel PROVE Inv'
    OBVIOUS
<1>1. UNCHANGED <<directory, enc, channel, marker, machine, links, requests, rebooting, locks,
                  lost, left>>
  BY DEF StartChannel
<1> DEFINE asks == [NoJob EXCEPT !.url = enc]
           loads == [NoJob EXCEPT !.load = TRUE]
<1>2. asks \in Job /\ asks.url = enc /\ loads \in Job /\ enc \in Channel
  BY NoJobType DEF Job, Inv, TypeOK
<1> HIDE DEF asks, loads
<1>3. \/ in_maintenance /\ GoTo("channel", "request") /\ Remember("channel", asks)
      \/ ~in_maintenance /\ GoTo("channel", "lock") /\ Remember("channel", loads)
  BY DEF StartChannel, asks, loads
<1>4. /\ Only("channel")
      /\ \/ in_maintenance /\ pc'["channel"] = "request" /\ job'["channel"] = asks
         \/ ~in_maintenance /\ pc'["channel"] = "lock"
  <2>1. "channel" \in Service /\ {"request", "lock"} \subseteq Step
    BY DEF Service, Step
  <2> QED
    BY <1>2, <1>3, <2>1, GoToFacts, RememberFacts DEF Inv, Only
<1>5. TypeOK'
  BY <1>1, <1>4 DEF Inv, TypeOK, Only, directory, machine, links, requests, locks
<1>6. Switches("channel")' /\ Asks' /\ Update'
  BY <1>1, <1>2, <1>4
  DEF Switches, Switching, Asks, Requesting, Update, Inv, directory, requests
<1> QED
  BY <1>1, <1>4, <1>5, <1>6, ChannelFrame DEF machine, requests, locks

\* request update looks at the requests it will decide from.
LEMMA ListRequestsStep == Inv /\ ListRequests => Inv'
<1> SUFFICES ASSUME Inv, ListRequests PROVE Inv'
    OBVIOUS
<1>1. /\ pc["channel"] = "request" /\ in_maintenance /\ job["channel"].url \in Channel
      /\ UNCHANGED <<directory, enc, channel, marker, machine, links, requests, rebooting, locks,
                     lost, left>>
  BY DEF ListRequests, Inv, Asks, Requesting
<1> DEFINE seen == IF update = None THEN None ELSE update.url
           j == [job["channel"] EXCEPT !.seen = seen]
<1>2. seen \in Channel \cup {None} /\ job["channel"] \in Job
  BY DEF Inv, TypeOK, UpdateRequest, Service
<1>3. GoTo("channel", "request:lock") /\ Remember("channel", j)
  BY DEF ListRequests
<1> HIDE DEF seen
<1>4. j \in Job /\ j.url = job["channel"].url
  BY <1>2 DEF Job
<1> HIDE DEF j
<1>5. Only("channel") /\ pc'["channel"] = "request:lock" /\ job'["channel"] = j
  <2>1. "channel" \in Service /\ "request:lock" \in Step
    BY DEF Service, Step
  <2> QED
    BY <1>3, <1>4, <2>1, GoToFacts, RememberFacts DEF Inv, Only
<1>6. TypeOK'
  BY <1>1, <1>5 DEF Inv, TypeOK, Only, directory, machine, links, requests, locks
<1>7. Switches("channel")' /\ Asks' /\ Update'
  BY <1>1, <1>4, <1>5
  DEF Switches, Switching, Asks, Requesting, Update, Inv, directory, requests
<1> QED
  BY <1>1, <1>5, <1>6, <1>7, ChannelFrame DEF machine, requests, locks

\* fc-update-channel ends and forgets what it has prepared.
LEMMA RestFacts ==
  ASSUME Inv, Rest("channel")
  PROVE  Only("channel") /\ pc'["channel"] = "idle"
<1>1. "channel" \in Service /\ "idle" \in Step
  BY DEF Service, Step
<1> QED
  BY <1>1, GoToFacts, RememberFacts, NoJobType DEF Rest, Forget, Inv, Only

\* request update takes fc-agent.lock, and decides from the list that it read.
LEMMA RequestUpdateStep == Inv /\ request_update => Inv'
<1> SUFFICES ASSUME Inv, request_update PROVE Inv'
    OBVIOUS
<1>1. /\ pc["channel"] = "request:lock" /\ in_maintenance /\ job["channel"].url \in Channel
      /\ agent_lock = None
      /\ UNCHANGED <<directory, enc, channel, marker, machine, links, requests, rebooting,
                     rm_lock, lost>>
  BY DEF request_update, Inv, Asks, Requesting
<1>2. left' \in Lefts /\ left'.changes = left.changes
  BY LeftFacts DEF request_update, Inv
<1>3. /\ Only("channel")
      /\ \/ pc'["channel"] = "idle" /\ UNCHANGED agent_lock
         \/ /\ pc'["channel"] = "request:prepare" /\ job'["channel"] = job["channel"]
            /\ job["channel"].url \notin Local /\ agent_lock' = "channel"
  <2>1. CASE Rest("channel") /\ UNCHANGED agent_lock
    BY <2>1, RestFacts
  <2>2. CASE /\ job["channel"].url \notin Local /\ agent_lock' = "channel"
             /\ GoTo("channel", "request:prepare") /\ UNCHANGED job
    <3>1. "channel" \in Service /\ "request:prepare" \in Step
      BY DEF Service, Step
    <3> QED
      BY <2>2, <3>1, GoToFacts DEF Inv, Only, TypeOK
  <2> QED
    BY <2>1, <2>2 DEF request_update
<1>4. TypeOK'
  BY <1>1, <1>2, <1>3 DEF Inv, TypeOK, Only, Lefts, Service, directory, machine, links, requests
<1>5. Switches("channel")' /\ Asks' /\ Update'
  BY <1>1, <1>3
  DEF Switches, Switching, Asks, Requesting, Update, Inv, directory, requests
<1> QED
  BY <1>1, <1>2, <1>3, <1>4, <1>5, ChannelFrame DEF machine, requests

\* request update builds the system that the update would switch to.
LEMMA PrepareStep == Inv /\ Prepare => Inv'
<1> SUFFICES ASSUME Inv, Prepare PROVE Inv'
    OBVIOUS
<1>1. /\ pc["channel"] = "request:prepare" /\ in_maintenance /\ agent_lock = "channel"
      /\ job["channel"].url \in Channel \ Local /\ agent_lock' = None
      /\ UNCHANGED <<directory, enc, marker, machine, built_link, requests, rebooting, rm_lock,
                     lost>>
  BY DEF Prepare, Inv, Asks, Requesting, Switches, Service
<1>2. left' \in Lefts /\ left'.changes = left.changes
  BY LeftFacts DEF Prepare, Inv
<1> DEFINE system == build_system(job["channel"].url)
           j(restart) == [job["channel"] EXCEPT !.system = system, !.restart = restart]
<1>3. system \in System
  BY <1>1, BuildType DEF Inv
<1>4. NeedsReboot(system) \in BOOLEAN /\ job["channel"] \in Job
  BY DEF NeedsReboot, Inv, TypeOK, Service
<1>5. next_link' \in {next_link, system} /\ channel' \in {channel, job["channel"].url}
  BY DEF Prepare
<1>6. PICK restart \in {TRUE, NeedsReboot(system)} :
        Rest("channel") \/ (GoTo("channel", "request:add") /\ Remember("channel", j(restart)))
  BY DEF Prepare
<1> HIDE DEF system
<1>7. /\ j(restart) \in Job /\ j(restart).url = job["channel"].url
      /\ j(restart).system = system
  BY <1>3, <1>4 DEF Job
<1> HIDE DEF j
<1>8. /\ Only("channel")
      /\ \/ pc'["channel"] = "idle"
         \/ pc'["channel"] = "request:add" /\ job'["channel"] = j(restart)
  <2>1. "channel" \in Service /\ "request:add" \in Step
    BY DEF Service, Step
  <2> QED
    BY <1>6, <1>7, <2>1, RestFacts, GoToFacts, RememberFacts DEF Inv, Only
<1>9. TypeOK'
  BY <1>1, <1>2, <1>3, <1>5, <1>8 DEF Inv, TypeOK, Only, Lefts, directory, machine, requests
<1>10. Switches("channel")' /\ Asks' /\ Update'
  BY <1>1, <1>3, <1>7, <1>8
  DEF Switches, Switching, Asks, Requesting, Update, Inv, System, directory, requests
<1> QED
  BY <1>1, <1>2, <1>8, <1>9, <1>10, ChannelFrame DEF machine, requests

\* The request is added only while the agent runs none.
LEMMA AddRequestStep == Inv /\ AddRequest => Inv'
<1> SUFFICES ASSUME Inv, AddRequest PROVE Inv'
    OBVIOUS
<1> DEFINE j == job["channel"]
           new == [url |-> j.url, system |-> j.system, reboot |-> j.restart,
                   state |-> "pending", tried |-> FALSE]
           merged == [new EXCEPT !.state = update.state, !.tried = update.tried]
<1>1. /\ pc["channel"] = "request:add" /\ in_maintenance /\ rm_lock = None /\ Rest("channel")
      /\ j.url \in Channel \ Local /\ j.system \in System /\ j.restart \in BOOLEAN
      /\ UNCHANGED <<directory, enc, channel, marker, machine, links, reboot, rebooting, locks,
                     lost, left>>
  BY DEF AddRequest, Inv, TypeOK, Asks, Requesting, Service, Job
<1>2. update' = CASE update = None /\ is_effective(j)  -> new
                  [] update = None /\ ~is_effective(j) -> None
                  [] update # None /\ is_effective(j)  -> merged
                  [] OTHER -> [merged EXCEPT !.state = "deleted"]
  BY DEF AddRequest
<1> HIDE DEF j
<1>3. new \in UpdateRequest /\ new.url = j.url
  BY <1>1 DEF UpdateRequest
<1> HIDE DEF new
<1>4. update # None =>
        /\ merged \in UpdateRequest /\ merged.url = j.url
        /\ [merged EXCEPT !.state = "deleted"] \in UpdateRequest
        /\ [merged EXCEPT !.state = "deleted"].url = j.url
  <2> SUFFICES ASSUME update \in UpdateRequest
               PROVE  /\ merged \in UpdateRequest /\ merged.url = j.url
                      /\ [merged EXCEPT !.state = "deleted"] \in UpdateRequest
                      /\ [merged EXCEPT !.state = "deleted"].url = j.url
    BY DEF Inv, TypeOK
  <2>1. merged \in UpdateRequest /\ merged.url = j.url
    BY <1>3 DEF UpdateRequest
  <2> HIDE DEF merged
  <2> QED
    BY <2>1, RequestFacts
<1> HIDE DEF merged
<1>5. update' = None \/ (update' \in UpdateRequest /\ update'.url = j.url)
  BY <1>2, <1>3, <1>4
<1>6. Only("channel") /\ pc'["channel"] = "idle"
  BY <1>1, RestFacts
<1>7. TypeOK'
  BY <1>1, <1>5, <1>6 DEF Inv, TypeOK, Only, directory, machine, links, locks
<1>8. Switches("channel")' /\ Asks' /\ Update'
  BY <1>1, <1>5, <1>6, NoneAssumption
  DEF Switches, Switching, Asks, Requesting, Update, directory
<1> QED
  BY <1>1, <1>6, <1>7, <1>8, ChannelFrame DEF machine, locks

---------------------------------------------------------------------------
\* What an operator does: nothing is claimed of switch types from then on.
LEMMA OperatorStep == Inv /\ (StartSwitch \/ activate_configuration) => Inv'
<1> SUFFICES ASSUME Inv, StartSwitch \/ activate_configuration PROVE Inv'
    OBVIOUS
<1> USE DEF Service
<1>1. /\ by_hand' /\ left.changes > 0 /\ left' = [left EXCEPT !.changes = @ - 1]
      /\ by_hand' \in BOOLEAN
      /\ pc["operator"] = "idle"
      /\ UNCHANGED <<wanted, config, in_maintenance, enc, channel, marker, profile, boot, booted,
                     links, requests, rebooting, locks, lost>>
  BY DEF StartSwitch, activate_configuration, machine
<1>2. left' \in Lefts /\ left'.changes = left.changes - 1
  BY <1>1, SystemUpdateAssumption DEF Inv, TypeOK, Lefts
<1>3. Only("operator") /\ pc'["operator"] \in {"idle", "lock"}
  <2>1. CASE StartSwitch
    <3>1. PICK load, restart \in BOOLEAN :
            Remember("operator", [NoJob EXCEPT !.load = load, !.restart = restart])
      BY <2>1 DEF StartSwitch
    <3>2. [NoJob EXCEPT !.load = load, !.restart = restart] \in Job
      BY NoJobType DEF Job
    <3>3. "lock" \in Step /\ GoTo("operator", "lock")
      BY <2>1 DEF StartSwitch, Step
    <3> QED
      BY <3>1, <3>2, <3>3, GoToFacts, RememberFacts DEF Inv, Only
  <2>2. CASE activate_configuration
    BY <1>1, <2>2 DEF activate_configuration, Only, Inv, TypeOK
  <2> QED
    BY <2>1, <2>2
<1>4. current' \in System
  BY DEF StartSwitch, activate_configuration, machine, Inv, TypeOK
<1>5. TypeOK'
  BY <1>1, <1>2, <1>3, <1>4 DEF Inv, TypeOK, Only, Lefts, links, requests, locks
<1>6. \A p \in Service : Switches(p)'
  BY <1>1, <1>3 DEF Inv, Switches, Switching, Only, locks
<1>7. Runs' /\ Asks' /\ Update'
  BY <1>1, <1>3 DEF Inv, Runs, Running, Asks, Update, Only, requests, locks
<1>8. Bounded'
  BY <1>1, <1>2, SystemUpdateAssumption DEF Inv, TypeOK, Bounded, Lefts
<1> QED
  BY <1>1, <1>5, <1>6, <1>7, <1>8 DEF Inv

\* The garbage collector, which knows nothing of the locks, takes a system away.
LEMMA CollectGarbageStep == Inv /\ collect_garbage => Inv'
<1> SUFFICES ASSUME Inv, collect_garbage PROVE Inv'
    OBVIOUS
<1>1. /\ UNCHANGED <<directory, enc, channel, marker, machine, links, requests, rebooting, locks,
                     pc, job, left>>
      /\ \E gone \in SUBSET Service : lost' = lost \cup gone
  BY DEF collect_garbage
<1>2. TypeOK'
  BY <1>1 DEF Inv, TypeOK, directory, machine, links, requests, locks
<1>3. \A p \in Service : Switches(p)'
  BY <1>1 DEF Inv, Switches, directory, machine, locks, os_release
<1> QED
  BY <1>1, <1>2, <1>3
  DEF Inv, Runs, Asks, Update, Bounded, directory, machine, requests, locks, os_release

\* The directory or the configuration changes, at any time.
LEMMA ChangeStep == Inv /\ Change => Inv'
<1> SUFFICES ASSUME Inv, Change PROVE Inv'
    OBVIOUS
<1>1. /\ left.changes > 0 /\ left' = [left EXCEPT !.changes = @ - 1]
      /\ wanted' \in Channel /\ config' \in {config, config + 1}
      /\ UNCHANGED <<in_maintenance, by_hand, enc, channel, marker, machine, links, requests,
                     rebooting, locks, pc, job, lost>>
  BY DEF Change, Inv, TypeOK
<1>2. left' \in Lefts /\ left'.changes = left.changes - 1
  BY <1>1, SystemUpdateAssumption DEF Inv, TypeOK, Lefts
<1>3. config' \in 0 .. MaxChanges /\ Bounded'
  BY <1>1, <1>2, SystemUpdateAssumption DEF Inv, TypeOK, Bounded, Lefts
<1>4. TypeOK'
  BY <1>1, <1>2, <1>3 DEF Inv, TypeOK, Lefts, machine, links, requests, locks
<1>5. \A p \in Service : Switches(p)'
  BY <1>1 DEF Inv, Switches, machine, locks, os_release
<1> QED
  BY <1>1, <1>3, <1>4, <1>5 DEF Inv, Runs, Asks, Update, machine, requests, locks, os_release

\* After a reboot no service runs.
LEMMA BootStep == Inv /\ (Reboot \/ PowerFailure) => Inv'
<1> SUFFICES ASSUME Inv, Reboot \/ PowerFailure PROVE Inv'
    OBVIOUS
<1>1. Boot /\ left' \in Lefts /\ left'.changes = left.changes
  BY SystemUpdateAssumption DEF Reboot, PowerFailure, Inv, TypeOK, Lefts
<1>2. /\ pc' \in [Service -> Step] /\ job' \in [Service -> Job]
      /\ \A p \in Service : pc'[p] = "idle"
  BY <1>1, NoJobType DEF Boot, Step
<1>3. TypeOK'
  BY <1>1, <1>2 DEF Boot, Inv, TypeOK, Lefts, directory
<1>4. \A p \in Service : Switches(p)'
  BY <1>2 DEF Switches, Switching
<1>5. Runs' /\ Asks' /\ pc'["operator"] = "idle"
  BY <1>2 DEF Runs, Running, Asks, Requesting, Switching, Service
<1>6. Update' /\ Bounded'
  BY <1>1 DEF Boot, Inv, Update, Bounded, directory
<1> QED
  BY <1>3, <1>4, <1>5, <1>6 DEF Inv

---------------------------------------------------------------------------
\* Every step keeps the inductive invariant.
LEMMA InvStep == Inv /\ [Next]_vars => Inv'
<1> SUFFICES ASSUME Inv, [Next]_vars PROVE Inv'
    OBVIOUS
<1>1. CASE UNCHANGED vars
  <2>1. TypeOK' /\ \A p \in Service : Switches(p)'
    BY <1>1 DEF vars, directory, machine, links, requests, locks, Inv, TypeOK, Switches, os_release
  <2> QED
    BY <1>1, <2>1 DEF vars, directory, machine, requests, locks, Inv, Runs, Asks, Update, Bounded,
                      os_release
<1> QED
  BY <1>1, SwitchStepKeeps, StartAgentStep, RunStep, RunChannelStep, RunBuildStep,
     RunRegisterStep, RunActivateStep, RunEndStep, StartChannelStep, ListRequestsStep,
     RequestUpdateStep, PrepareStep, AddRequestStep, OperatorStep, CollectGarbageStep,
     ChangeStep, BootStep
  DEF Next, AgentStep, ChannelStep

\* The inductive invariant holds in every reachable state.
THEOREM Invariance == Spec => []Inv
  BY InitInv, InvStep, PTL DEF Spec

\* The channel, the links, the requests and the systems keep their types: a local checkout never
\* becomes the nixos channel, and what is activated was built.
THEOREM TypeCorrectness == Spec => []TypeOK
<1>1. Inv => TypeOK
  BY DEF Inv
<1> QED
  BY Invariance, <1>1, PTL

\* It is not forgotten that somebody called fc-manage by hand.
LEMMA ByHandStays == [Next]_vars /\ by_hand => by_hand'
<1> SUFFICES ASSUME [Next]_vars PROVE UNCHANGED by_hand \/ by_hand'
    OBVIOUS
<1> USE DEF directory
<1>1. CASE UNCHANGED vars
  BY <1>1 DEF vars
<1>2. ASSUME NEW p \in Service, SwitchStep(p) PROVE UNCHANGED by_hand
  BY <1>2 DEF SwitchStep, LockForSwitch, LoadNixos, Build, Register, switch_to_configuration
<1>3. CASE AgentStep \/ \E due \in SUBSET Pending : Run(due)
  BY <1>3 DEF AgentStep, StartAgent, UpdateEnc, request_reboot_for_kernel, RunChannel, RunBuild,
              RunRegister, RunActivate, RunEnd, Run
<1>4. CASE ChannelStep
  BY <1>4 DEF ChannelStep, StartChannel, ListRequests, request_update, Prepare, AddRequest
<1>5. CASE StartSwitch \/ activate_configuration
  BY <1>5 DEF StartSwitch, activate_configuration
<1>6. CASE collect_garbage \/ Change \/ Reboot \/ PowerFailure
  BY <1>6 DEF collect_garbage, Change, Reboot, PowerFailure, Boot
<1> QED
  BY <1>1, <1>2, <1>3, <1>4, <1>5, <1>6 DEF Next

\* What changes the running system.
LEMMA CurrentChanges ==
  [Next]_vars => \/ UNCHANGED current \/ by_hand'
                 \/ (\E p \in Service : switch_to_configuration(p)) \/ RunActivate \/ Boot
<1> SUFFICES ASSUME [Next]_vars
             PROVE  \/ UNCHANGED current \/ by_hand'
                    \/ (\E p \in Service : switch_to_configuration(p)) \/ RunActivate \/ Boot
    OBVIOUS
<1> USE DEF machine
<1>1. CASE UNCHANGED vars
  BY <1>1 DEF vars
<1>2. ASSUME NEW p \in Service, SwitchStep(p)
      PROVE  UNCHANGED current \/ switch_to_configuration(p)
  BY <1>2 DEF SwitchStep, LockForSwitch, LoadNixos, Build, Register
<1>3. CASE AgentStep \/ \E due \in SUBSET Pending : Run(due)
  BY <1>3 DEF AgentStep, StartAgent, UpdateEnc, request_reboot_for_kernel, RunChannel, RunBuild,
              RunRegister, RunEnd, Run
<1>4. CASE ChannelStep
  BY <1>4 DEF ChannelStep, StartChannel, ListRequests, request_update, Prepare, AddRequest
<1>5. CASE StartSwitch \/ activate_configuration
  BY <1>5 DEF StartSwitch, activate_configuration
<1>6. CASE collect_garbage \/ Change \/ Reboot \/ PowerFailure
  BY <1>6 DEF collect_garbage, Change, Reboot, PowerFailure
<1> QED
  BY <1>1, <1>2, <1>3, <1>4, <1>5, <1>6 DEF Next

\* Until somebody calls fc-manage by hand, a release is replaced only by a reboot, however often
\* the directory changes, commands fail and the machine loses power.
THEOREM ReleaseChangesByRebootHolds == Spec => ReleaseChangesByReboot
<1>1. ASSUME Inv, [Next]_vars, ~by_hand', ~marker, os_release(current') # os_release(current)
      PROVE  current' = booted'
  <2>1. ~UNCHANGED current /\ ~by_hand
    BY <1>1, ByHandStays DEF os_release, Inv, TypeOK
  <2>2. \/ \E p \in Service : switch_to_configuration(p)
        \/ RunActivate \/ Boot
    BY <1>1, <2>1, CurrentChanges DEF Inv, TypeOK
  <2>3. ASSUME NEW p \in Service, switch_to_configuration(p) PROVE FALSE
    <3>1. /\ pc[p] = "activate" /\ job[p].kind = "switch" /\ current' = job[p].system
      BY <1>1, <2>3 DEF switch_to_configuration, Activated, ActivationFailed
    <3>2. Switches(p)
      BY <1>1 DEF Inv
    <3>3. job[p].stage = "switch"
      BY <1>1, <3>1, <3>2 DEF Switches, Switching
    <3> QED
      BY <1>1, <2>1, <3>1, <3>2, <3>3 DEF Switches
  <2>4. CASE RunActivate
    <3>1. pc["agent"] = "run:activate" /\ job["agent"].kind = "switch" /\ current' = update.system
      BY <1>1, <2>4 DEF RunActivate, Activated, ActivationFailed
    <3> QED
      BY <1>1, <2>1, <3>1 DEF Inv, Runs
  <2>5. CASE Boot
    BY <2>5 DEF Boot
  <2> QED
    BY <2>2, <2>3, <2>4, <2>5
<1>2. Inv /\ [Next]_vars => [~by_hand' /\ ~marker /\ os_release(current') # os_release(current)
                               => current' = booted']_vars
  BY <1>1
<1> QED
  BY Invariance, <1>2, PTL DEF Spec, ReleaseChangesByReboot

===============================================================================
