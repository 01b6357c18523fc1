---------------------------- MODULE SystemUpdate ----------------------------
(***************************************************************************)
(* How a machine gets from the channel the directory wants it to use to a  *)
(* running system: the fc-agent service (update-enc, switch --lazy,        *)
(* request system-properties, run), the fc-update-channel service (request *)
(* update, or switch --update-channel), an operator's fc-manage switch and *)
(* fc-collect-garbage. They share the nixos channel, the system profile,   *)
(* the boot loader, the running system and the maintenance requests, under *)
(* two locks: fc-agent.lock (agent_lock) and the lock of ReqManager        *)
(* (rm_lock). What runs under switch_to_configuration.lock is one step, as *)
(* nothing else changes the running system or the boot loader.             *)
(*                                                                         *)
(* A system is known by the content of the channel, the local NixOS        *)
(* configuration and whether the roles are part of it. The request for an  *)
(* update and the one for a reboot are "pending" while ReqManager may run  *)
(* them; which of them are due in a run is the choice of the directory.    *)
(***************************************************************************)
EXTENDS FiniteSets, Naturals

CONSTANTS
  Channel,              \* channel URLs
  Local,                \* those that point to a local checkout (file://)
  Content,              \* the content of a channel
  Release,              \* VERSION_ID of a content
  Kernel,               \* the kernel of a content
  InitialChannel,       \* the channel in the image of the machine
  UpdateInMaintenance,  \* the values of flyingcircus.agent.updateInMaintenance
  Operator,             \* whether somebody calls fc-manage by hand
  MaxChanges,           \* bound: changes of the directory or the configuration
  MaxFailures,          \* bound: failing commands
  MaxPowerFailures,     \* bound: reboots nobody asked for
  None

ASSUME SystemUpdateAssumption ==
  /\ Local \subseteq Channel
  /\ InitialChannel \in Channel \ Local
  /\ UpdateInMaintenance \subseteq BOOLEAN /\ Operator \in BOOLEAN
  /\ MaxChanges \in Nat /\ MaxFailures \in Nat /\ MaxPowerFailures \in Nat

VARIABLES
  wanted,      \* environment_url in the directory
  config,      \* the local configuration, a number
  in_maintenance,  \* the updateInMaintenance of the machine
  by_hand,     \* somebody has called fc-manage by hand
  enc,         \* environment_url in enc.json
  channel,     \* the URL of the nixos channel in /root/.nix-channels
  marker,      \* INITIAL_RUN_MARKER exists
  profile,     \* /nix/var/nix/profiles/system
  boot,        \* the system the boot loader starts
  current,     \* /run/current-system
  booted,      \* /run/booted-system
  built_link,  \* /run/fc-agent-built-system
  next_link,   \* NEXT_SYSTEM
  update,      \* the request with an UpdateActivity, or None
  reboot,      \* the request with a RebootActivity: "none", "asked", "stale" when
               \* the machine has booted since it was made, "done" until archived
  rebooting,   \* reboot(8) was called
  agent_lock, rm_lock,
  pc, job,     \* where each service is, and what it remembers
  lost,        \* services whose built system the garbage collector deleted
  left         \* what remains of the three bounds

machine == <<profile, boot, current, booted>>
links == <<built_link, next_link>>
directory == <<wanted, config, in_maintenance, by_hand>>
requests == <<update, reboot>>
locks == <<agent_lock, rm_lock>>
vars == <<directory, enc, channel, marker, machine, links, requests, rebooting,
          locks, pc, job, lost, left>>

---------------------------------------------------------------------------
Service == {"agent", "channel", "operator"}

System == [tree : {Content[c] : c \in Channel}, config : 0 .. MaxChanges, roles : BOOLEAN]

build_system(url) == [tree |-> Content[url], config |-> config, roles |-> ~marker]

os_release(system) == Release[system.tree]
system_kernel(system) == Kernel[system.tree]

NeedsReboot(system) == \/ os_release(system) # os_release(current)
                       \/ system_kernel(system) # system_kernel(current)

UpdateRequest == [url : Channel, system : System, reboot : BOOLEAN,
                  state : {"pending", "success", "error", "deleted"}, tried : BOOLEAN]

ASSUME NoneAssumption == None \notin Service \cup UpdateRequest

(* The commands of a service, and the points between their steps. *)
Step == {"idle", "update-enc", "lock", "load", "build", "register", "activate",
         "properties", "run", "run:channel", "run:build", "run:register",
         "run:activate", "run:end", "request", "request:lock",
         "request:prepare", "request:add"}

Job == [url : Channel \cup {None}, system : System \cup {None},
        kind : {"switch", "boot"}, stage : {"initial", "initial update", "switch"},
        seen : Channel \cup {None}, due : SUBSET {"update", "reboot"},
        load : BOOLEAN, restart : BOOLEAN]

NoJob == [url |-> None, system |-> None, kind |-> "switch", stage |-> "switch",
          seen |-> None, due |-> {}, load |-> FALSE, restart |-> FALSE]

TypeOK ==
  /\ wanted \in Channel /\ config \in 0 .. MaxChanges /\ in_maintenance \in UpdateInMaintenance
  /\ by_hand \in BOOLEAN /\ enc \in Channel /\ channel \in Channel \ Local /\ marker \in BOOLEAN
  /\ {profile, boot, current, booted} \subseteq System
  /\ built_link \in System \cup {None} /\ next_link \in System \cup {None}
  /\ update \in UpdateRequest \cup {None}
  /\ reboot \in {"none", "asked", "stale", "done"} /\ rebooting \in BOOLEAN
  /\ agent_lock \in Service \cup {None} /\ rm_lock \in {"agent", None}
  /\ pc \in [Service -> Step] /\ job \in [Service -> Job]
  /\ lost \subseteq Service
  /\ left \in [changes : 0 .. MaxChanges, failures : 0 .. MaxFailures,
               power : 0 .. MaxPowerFailures]

Init ==
  /\ wanted = InitialChannel /\ enc = InitialChannel /\ channel = InitialChannel
  /\ config = 0 /\ in_maintenance \in UpdateInMaintenance /\ by_hand = FALSE
  /\ marker \in BOOLEAN
  /\ LET system == [tree |-> Content[InitialChannel], config |-> 0, roles |-> ~marker]
     IN profile = system /\ boot = system /\ current = system /\ booted = system
  /\ built_link = None /\ next_link = None
  /\ update = None /\ reboot = "none" /\ rebooting = FALSE
  /\ agent_lock = None /\ rm_lock = None
  /\ pc = [p \in Service |-> "idle"] /\ job = [p \in Service |-> NoJob]
  /\ lost = {}
  /\ left = [changes |-> MaxChanges, failures |-> MaxFailures, power |-> MaxPowerFailures]

---------------------------------------------------------------------------
GoTo(p, step) == pc' = [pc EXCEPT ![p] = step]
Remember(p, j) == job' = [job EXCEPT ![p] = j]
Forget(p) == Remember(p, NoJob)

Fail == left.failures > 0 /\ left' = [left EXCEPT !.failures = @ - 1]
Succeed == UNCHANGED left

(***************************************************************************)
(* fc-manage switch under fc-agent.lock. On the first run of the agent     *)
(* (marker) a minimal system is built from the channel of the image, then, *)
(* still without the roles, one from the wanted channel; a failure of the  *)
(* first is ignored.                                                       *)
(***************************************************************************)
NextCommand(p) == IF p = "agent" THEN "properties" ELSE "idle"

EndCommand(p) ==
  /\ agent_lock' = None
  /\ GoTo(p, NextCommand(p)) /\ Forget(p)

(* The channel that switch and switch_with_update build: a local checkout, *)
(* the nixos channel, or the wanted one after it was made the nixos channel. *)
StartBuild(p, url) == GoTo(p, "build") /\ Remember(p, [job[p] EXCEPT !.url = url])

switch_load_local(p, stage, load, url) ==
  /\ GoTo(p, IF load THEN "load" ELSE "build")
  /\ Remember(p, [job[p] EXCEPT !.stage = stage, !.url = IF load THEN url ELSE channel])

switch(p, stage, load, url) ==
  LET j == [job[p] EXCEPT !.stage = stage,
                          !.url = IF load \/ url \in Local THEN url ELSE channel]
  IN /\ GoTo(p, IF load /\ url \notin Local THEN "load" ELSE "build")
     /\ Remember(p, j)

\* The operator's command may begin with an update of the ENC data.
LoadEnc(p) == IF p = "operator" THEN {enc, wanted} ELSE {enc}

LockForSwitch(p) ==
  /\ pc[p] = "lock" /\ agent_lock = None
  /\ agent_lock' = p
  /\ \E url \in LoadEnc(p) :
       /\ enc' = url
       /\ IF marker
            THEN GoTo(p, "build") /\ Remember(p, [job[p] EXCEPT !.stage = "initial", !.url = channel])
            ELSE switch(p, "switch", job[p].load, url)
  /\ UNCHANGED <<directory, channel, marker, machine, links, requests, rebooting,
                 rm_lock, lost, left>>

(* What follows a failed or finished stage of the first run. *)
InitialUpdate(p) ==
  switch(p, "initial update", TRUE, enc) /\ UNCHANGED agent_lock

Failed(p) == IF job[p].stage = "initial" THEN InitialUpdate(p) ELSE EndCommand(p)

(* nix-channel --add has set the URL even if nix-channel --update fails. *)
LoadNixos(p) ==
  /\ pc[p] = "load"
  /\ channel' = job[p].url
  /\ \/ Succeed /\ StartBuild(p, job[p].url) /\ UNCHANGED agent_lock
     \/ Fail /\ Failed(p)
  /\ UNCHANGED <<directory, enc, marker, machine, links, requests, rebooting, rm_lock, lost>>

Build(p) ==
  /\ pc[p] = "build"
  /\ \/ /\ Succeed /\ GoTo(p, "register")
        /\ Remember(p, [job[p] EXCEPT !.system = build_system(job[p].url)])
        /\ built_link' = build_system(job[p].url)
        /\ UNCHANGED agent_lock
     \/ Fail /\ Failed(p) /\ UNCHANGED built_link
  /\ UNCHANGED <<directory, enc, channel, marker, machine, next_link, requests, rebooting,
                 rm_lock, lost>>

(* Sets the profile, removes the link, and decides how to activate. *)
SwitchType_unasked(system, restart) == IF restart THEN "boot" ELSE "switch"

SwitchType(system, restart) ==
  IF os_release(system) # os_release(current) \/ restart THEN "boot" ELSE "switch"

Register(p) ==
  /\ pc[p] = "register"
  /\ \/ /\ p \notin lost /\ Succeed
        /\ profile' = job[p].system /\ built_link' = None
        /\ GoTo(p, "activate")
        /\ Remember(p, [job[p] EXCEPT !.kind =
             CASE job[p].stage = "initial" -> "switch"
               [] job[p].stage = "initial update" -> SwitchType(job[p].system, FALSE)
               [] OTHER -> SwitchType(job[p].system, job[p].restart)])
        /\ UNCHANGED agent_lock
     \/ /\ IF p \in lost THEN Succeed ELSE Fail
        /\ Failed(p) /\ UNCHANGED <<profile, built_link>>
  /\ lost' = lost \ {p}
  /\ UNCHANGED <<directory, enc, channel, marker, boot, current, booted, next_link, requests,
                 rebooting, rm_lock>>

(***************************************************************************)
(* switch_to_system under switch_to_configuration.lock: "switch" installs  *)
(* the boot loader and activates the system, "boot" only does the former.  *)
(* A failing script stops before, between or after these.                  *)
(***************************************************************************)
Activated(system, kind) ==
  boot' = system /\ current' = IF kind = "switch" THEN system ELSE current

ActivationFailed(system, kind) ==
  \/ UNCHANGED <<boot, current>>
  \/ boot' = system /\ UNCHANGED current
  \/ kind = "switch" /\ boot' = system /\ current' = system

AfterSwitch(p) ==
  CASE job[p].stage = "initial" -> InitialUpdate(p) /\ UNCHANGED marker
    [] job[p].stage = "initial update" ->
         /\ marker' = FALSE /\ UNCHANGED agent_lock
         /\ switch(p, "switch", job[p].load, enc)
    [] OTHER -> EndCommand(p) /\ UNCHANGED marker

Skip(p) == /\ job[p].stage = "initial update" \/ (job[p].stage = "switch" /\ p # "operator")
           /\ current = job[p].system

switch_to_configuration(p) ==
  /\ pc[p] = "activate"
  /\ IF Skip(p)
       THEN Succeed /\ AfterSwitch(p) /\ UNCHANGED <<boot, current, rebooting>>
       ELSE \/ /\ Succeed /\ AfterSwitch(p)
               /\ Activated(job[p].system, job[p].kind)
               /\ rebooting' = (rebooting \/ job[p].kind = "boot")
            \/ /\ Fail /\ Failed(p)
               /\ ActivationFailed(job[p].system, job[p].kind)
               /\ UNCHANGED <<marker, rebooting>>
  /\ UNCHANGED <<directory, enc, channel, profile, booted, links, requests, rm_lock, lost>>

(* fc-manage switch by hand, with or without --update-enc, --update-channel *)
(* and --activate-reboot; never lazy.                                      *)
StartSwitch ==
  /\ Operator /\ pc["operator"] = "idle" /\ left.changes > 0
  /\ left' = [left EXCEPT !.changes = @ - 1] /\ by_hand' = TRUE
  /\ GoTo("operator", "lock")
  /\ \E load, restart \in BOOLEAN :
       Remember("operator", [NoJob EXCEPT !.load = load, !.restart = restart])
  /\ UNCHANGED <<wanted, config, in_maintenance, enc, channel, marker, machine, links,
                 requests, rebooting, locks, lost>>

(* fc-manage activate-configuration: "test" for the registered system.     *)
activate_configuration ==
  /\ Operator /\ pc["operator"] = "idle" /\ left.changes > 0
  /\ left' = [left EXCEPT !.changes = @ - 1] /\ by_hand' = TRUE
  /\ current' = profile
  /\ UNCHANGED <<wanted, config, in_maintenance, enc, channel, marker, profile, boot, booted,
                 links, requests, rebooting, locks, pc, job, lost>>

---------------------------------------------------------------------------
(***************************************************************************)
(* fc-agent: update-enc, whose failure is ignored, fc-manage switch --lazy,*)
(* request system-properties and run.                                      *)
(***************************************************************************)
StartAgent ==
  /\ pc["agent"] = "idle"
  /\ GoTo("agent", "update-enc")
  /\ UNCHANGED <<directory, enc, channel, marker, machine, links, requests, rebooting,
                 locks, job, lost, left>>

UpdateEnc ==
  /\ pc["agent"] = "update-enc" /\ agent_lock = None
  /\ \/ Succeed /\ enc' = wanted
     \/ Fail /\ UNCHANGED enc
  /\ GoTo("agent", "lock")
  /\ UNCHANGED <<directory, channel, marker, machine, links, requests, rebooting, locks,
                 job, lost>>

(* An update that wants a reboot and had a temporary failure.              *)
TempfailWithReboot == update # None /\ update.state = "pending" /\ update.tried /\ update.reboot

request_reboot_for_kernel ==
  /\ pc["agent"] = "properties" /\ rm_lock = None
  /\ reboot' = IF /\ ~TempfailWithReboot /\ system_kernel(booted) # system_kernel(current)
                   /\ reboot # "done"
                 THEN "asked" ELSE reboot
  /\ GoTo("agent", "run")
  /\ UNCHANGED <<directory, enc, channel, marker, machine, links, update, rebooting, locks,
                 job, lost, left>>

(* The requests that ReqManager runs: any of the pending ones.             *)
Pending_untried == {r \in {"update", "reboot"} :
                      IF r = "reboot" THEN reboot \in {"asked", "stale"}
                      ELSE update # None /\ update.state = "pending" /\ ~update.tried}

Pending == {r \in {"update", "reboot"} :
              IF r = "reboot" THEN reboot \in {"asked", "stale"} ELSE update # None /\ update.state = "pending"}

Run(due) ==
  /\ pc["agent"] = "run" /\ rm_lock = None
  /\ rm_lock' = "agent"
  /\ Remember("agent", [NoJob EXCEPT !.due = due])
  /\ IF "update" \in due
       THEN GoTo("agent", "run:channel") /\ update' = [update EXCEPT !.tried = TRUE]
       ELSE GoTo("agent", "run:end") /\ UNCHANGED update
  /\ UNCHANGED <<directory, enc, channel, marker, machine, links, reboot, rebooting,
                 agent_lock, lost, left>>

(* The steps of UpdateActivity.run. Only its activation is under a lock that *)
(* fc-manage takes, too; the system is built without a link.               *)
Finish(state) ==
  /\ GoTo("agent", "run:end")
  /\ update' = [update EXCEPT !.state = state]

RunChannel ==
  /\ pc["agent"] = "run:channel"
  /\ channel' = update.url
  /\ \/ /\ Succeed
        /\ IF current = update.system THEN Finish("success")
           ELSE GoTo("agent", "run:build") /\ UNCHANGED update
     \/ Fail /\ Finish("error")
  /\ UNCHANGED <<directory, enc, marker, machine, links, reboot, rebooting, locks, job, lost>>

RunBuild ==
  /\ pc["agent"] = "run:build"
  /\ \/ /\ Succeed /\ GoTo("agent", "run:register")
        /\ update' = [update EXCEPT !.system = build_system(update.url)]
     \/ Fail /\ Finish("error")
  /\ UNCHANGED <<directory, enc, channel, marker, machine, links, reboot, rebooting, locks,
                 job, lost>>

RunRegister ==
  /\ pc["agent"] = "run:register"
  /\ \/ /\ "agent" \notin lost /\ Succeed
        /\ profile' = update.system
        /\ GoTo("agent", "run:activate")
        /\ Remember("agent", [job["agent"] EXCEPT !.kind = SwitchType(update.system, FALSE)])
        /\ UNCHANGED update
     \/ /\ IF "agent" \in lost THEN Succeed ELSE Fail
        /\ Finish("error") /\ UNCHANGED <<profile, job>>
  /\ lost' = lost \ {"agent"}
  /\ UNCHANGED <<directory, enc, channel, marker, boot, current, booted, links, reboot,
                 rebooting, locks>>

RunActivate ==
  /\ pc["agent"] = "run:activate"
  /\ \/ Succeed /\ Activated(update.system, job["agent"].kind) /\ Finish("success")
     \/ /\ Fail /\ ActivationFailed(update.system, job["agent"].kind)
        /\ Finish("pending")
  /\ UNCHANGED <<directory, enc, channel, marker, profile, booted, links, reboot, rebooting,
                 locks, job, lost>>

(* A reboot leaves what is finished to the next run, which archives it.    *)
RunEnd ==
  /\ pc["agent"] = "run:end"
  /\ rm_lock' = None
  /\ LET due == job["agent"].due
         succeeded == "update" \in due /\ update.state = "success"
         reboots == "reboot" \in due \/ (succeeded /\ update.reboot)
     IN /\ rebooting' = (rebooting \/ reboots)
        /\ IF reboots
             THEN UNCHANGED update
             ELSE update' = IF update # None /\ update.state # "pending" THEN None ELSE update
        /\ reboot' = CASE "reboot" \in due -> "done"
                       [] reboot = "done" /\ ~reboots -> "none"
                       [] OTHER -> reboot
  /\ GoTo("agent", "idle") /\ Forget("agent")
  /\ UNCHANGED <<directory, enc, channel, marker, machine, links, agent_lock, lost, left>>

---------------------------------------------------------------------------
(***************************************************************************)
(* fc-update-channel: request update. The requests are listed under the    *)
(* lock of ReqManager, the update is prepared under fc-agent.lock and the  *)
(* request is added under the first lock again.                            *)
(***************************************************************************)
Rest(p) == GoTo(p, "idle") /\ Forget(p)

StartChannel ==
  /\ pc["channel"] = "idle"
  /\ IF in_maintenance
       THEN /\ GoTo("channel", "request")
            /\ Remember("channel", [NoJob EXCEPT !.url = enc])
       ELSE /\ GoTo("channel", "lock")
            /\ Remember("channel", [NoJob EXCEPT !.load = TRUE])
  /\ UNCHANGED <<directory, enc, channel, marker, machine, links, requests, rebooting,
                 locks, lost, left>>

ListRequests ==
  /\ pc["channel"] = "request" /\ rm_lock = None
  /\ GoTo("channel", "request:lock")
  /\ Remember("channel", [job["channel"] EXCEPT !.seen = IF update = None THEN None
                                                        ELSE update.url])
  /\ UNCHANGED <<directory, enc, channel, marker, machine, links, requests, rebooting,
                 locks, lost, left>>

Equivalent(j) == j.seen = j.url \/ (j.seen = None /\ channel = j.url)

request_update ==
  /\ pc["channel"] = "request:lock" /\ agent_lock = None
  /\ \/ /\ job["channel"].url \in Local \/ Equivalent(job["channel"])
        /\ Succeed /\ Rest("channel") /\ UNCHANGED agent_lock
     \/ /\ ~(job["channel"].url \in Local \/ Equivalent(job["channel"]))
        /\ \/ Succeed /\ agent_lock' = "channel"
              /\ GoTo("channel", "request:prepare") /\ UNCHANGED job
           \/ Fail /\ Rest("channel") /\ UNCHANGED agent_lock   \* low disk space
  /\ UNCHANGED <<directory, enc, channel, marker, machine, links, requests, rebooting,
                 rm_lock, lost>>

(* Builds the system with the link NEXT_SYSTEM and dry-activates it. If no *)
(* update was listed and it is the running system, its channel is set. The *)
(* units that change may ask for a reboot, too.                            *)
Prepare ==
  /\ pc["channel"] = "request:prepare"
  /\ agent_lock' = None
  /\ LET j == job["channel"]
         system == build_system(j.url)
     IN \/ /\ j.seen = None /\ current = system
           /\ Succeed \/ Fail
           /\ next_link' = system /\ channel' = j.url /\ Rest("channel")
        \/ /\ ~(j.seen = None /\ current = system) /\ Succeed
           /\ next_link' = system /\ GoTo("channel", "request:add")
           /\ \E restart \in {TRUE, NeedsReboot(system)} :
                Remember("channel", [j EXCEPT !.system = system, !.restart = restart])
           /\ UNCHANGED channel
        \/ /\ Fail /\ Rest("channel")
           /\ next_link' \in {next_link, system} /\ UNCHANGED channel
  /\ UNCHANGED <<directory, enc, marker, machine, built_link, requests, rebooting,
                 rm_lock, lost>>

is_effective(j) == j.url # channel /\ j.system # current

(* ReqManager.add: a merged request keeps its state and its attempts.      *)
AddRequest ==
  /\ pc["channel"] = "request:add" /\ rm_lock = None
  /\ LET j == job["channel"]
         new == [url |-> j.url, system |-> j.system, reboot |-> j.restart,
                 state |-> "pending", tried |-> FALSE]
         merged == [new EXCEPT !.state = update.state, !.tried = update.tried]
     IN update' = CASE update = None /\ is_effective(j)  -> new
                    [] update = None /\ ~is_effective(j) -> None
                    [] update # None /\ is_effective(j)  -> merged
                    [] OTHER -> [merged EXCEPT !.state = "deleted"]
  /\ Rest("channel")
  /\ UNCHANGED <<directory, enc, channel, marker, machine, links, reboot, rebooting, locks,
                 lost, left>>

---------------------------------------------------------------------------
(* fc-collect-garbage under fc-agent.lock. A system that was registered is *)
(* kept for three days, one that was only built needs a root.              *)
Unregistered(p) == CASE pc[p] = "register" -> {job[p].system}
                     [] pc[p] = "run:register" -> {update.system}
                     [] OTHER -> {}

collect_garbage ==
  /\ agent_lock = None
  /\ LET roots == {profile, current, booted, built_link, next_link}
         gone == {p \in Service : ~(Unregistered(p) \subseteq roots)}
     IN gone # {} /\ lost' = lost \cup gone
  /\ UNCHANGED <<directory, enc, channel, marker, machine, links, requests, rebooting,
                 locks, pc, job, left>>

(* The directory gets another channel, somebody edits /etc/nixos.          *)
Change ==
  /\ left.changes > 0 /\ left' = [left EXCEPT !.changes = @ - 1]
  /\ \/ wanted' \in Channel \ {wanted} /\ UNCHANGED config
     \/ config' = config + 1 /\ UNCHANGED wanted
  /\ UNCHANGED <<in_maintenance, by_hand, enc, channel, marker, machine, links, requests, rebooting,
                 locks, pc, job, lost>>

Boot ==
  /\ current' = boot /\ booted' = boot
  /\ built_link' = None /\ next_link' = None
  /\ reboot' = IF reboot = "asked" THEN "stale" ELSE reboot
  /\ rebooting' = FALSE /\ agent_lock' = None /\ rm_lock' = None
  /\ pc' = [p \in Service |-> "idle"] /\ job' = [p \in Service |-> NoJob]
  /\ lost' = {}
  /\ UNCHANGED <<directory, enc, channel, marker, profile, boot, update>>

Reboot == rebooting /\ Boot /\ UNCHANGED left

PowerFailure ==
  /\ left.power > 0 /\ left' = [left EXCEPT !.power = @ - 1]
  /\ Boot

---------------------------------------------------------------------------
SwitchStep(p) == LockForSwitch(p) \/ LoadNixos(p) \/ Build(p) \/ Register(p)
                 \/ switch_to_configuration(p)
AgentStep == \/ StartAgent \/ UpdateEnc \/ request_reboot_for_kernel
             \/ RunChannel \/ RunBuild \/ RunRegister \/ RunActivate \/ RunEnd
ChannelStep == StartChannel \/ ListRequests \/ request_update \/ Prepare \/ AddRequest

Next ==
  \/ \E p \in Service : SwitchStep(p)
  \/ AgentStep \/ ChannelStep
  \/ \E due \in SUBSET Pending : Run(due)
  \/ StartSwitch \/ activate_configuration
  \/ collect_garbage \/ Change \/ Reboot \/ PowerFailure

Spec == Init /\ [][Next]_vars

(***************************************************************************)
(* The timers start the services again and again, the lock calls wait, and *)
(* the directory lets a pending request be due again and again.            *)
(***************************************************************************)
Fairness ==
  /\ \A p \in Service : SF_vars(SwitchStep(p))
  /\ SF_vars(AgentStep) /\ SF_vars(ChannelStep)
  /\ WF_vars(\E due \in SUBSET Pending : Run(due))
  /\ SF_vars(Run(Pending))
  /\ WF_vars(Reboot)

FairSpec == Spec /\ Fairness

---------------------------------------------------------------------------
(* The machine ends up running the system that the directory and the local *)
(* configuration ask for, booted with the kernel of that system, once they *)
(* and the failures come to an end: whatever is left behind by an update,  *)
(* a request or a switch that failed or was cut short by a reboot is made  *)
(* good by the services' next runs.                                        *)
Converges ==
  <>[](/\ ~marker
       /\ current = [tree |-> Content[wanted], config |-> config, roles |-> TRUE]
       /\ system_kernel(booted) = system_kernel(current))

(* After the first run of the agent, fc-agent and fc-update-channel never  *)
(* replace a release while the machine runs, whatever happens between the  *)
(* choice of the switch type and the activation. (An operator may do it:   *)
(* activate-configuration does not ask, and an update whose switch type is *)
(* chosen may be overtaken by such a command and a switch by hand.)        *)
ReleaseChangesByReboot ==
  [][~by_hand' /\ ~marker /\ os_release(current') # os_release(current)
       => current' = booted']_vars

(* A scheduled reboot does nothing if the machine has booted for another   *)
(* reason since the request was made (activity/reboot.py).                 *)
RebootsOnce == [][RunEnd /\ reboot = "stale" /\ rebooting' => rebooting \/ update # None]_vars

===========================================================================
