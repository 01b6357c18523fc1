# Verification of fc-nixos

fc-nixos is the Flying Circus' NixOS platform: NixOS modules, and the programs
that run the machines. Most of it is declarative configuration. The programs
that keep state, talk to other machines and can be interrupted anywhere are the
agent (`src/pkgs/fc/agent`, commands `fc-maintenance`, `fc-manage`, `fc-slurm`,
...), the Ceph tools (`src/pkgs/fc/ceph`), the development host
(`src/nixos/roles/devhost/fc.devhost`) and the monitoring checks. This project
models what they do to shared and persistent state: **scheduled maintenance** on
one machine, in groups of machines and on the hosts of a Ceph cluster; **the way
a machine gets to the system it should run**; and **the commands** that
administrators and timers run, which fail or are killed in the middle and are
run again.

`PROJECT.json` lists every definition with the lines it models, every run,
mutant, finding, hazard and theorem. This file explains them.

Paths below are relative to `src/pkgs/fc/agent/src/fc/`, those that start with
`ceph/` to `src/pkgs/fc/ceph/src/fc/`, unless they start with `src/`.

## 1. The system's parts

### Maintenance requests (`maintenance/request.py`, `state.py`, `estimate.py`)
State: a directory `requests/<id>/` with `request.yaml`: the request's state
(pending, due, running, success, error, deleted, postpone), its start time
(`next_due`), its attempts, and its activity. Operations: `execute` (one
attempt), `update_state` and `update_due` (time has passed, the start time has
changed), `merge`, `save`. Hard: `save` creates the directory before the file;
`update_state` has four conditions that may apply one after the other.
Correct means: a retry limit that holds, no way out of a final state.

### Request manager (`maintenance/reqmanager.py`, `cli.py`)
State: the spool directory (`requests/`, `archive/`, the marker
`in_maintenance`, `.lock`, `last_run.json`), and outside of it the directory
service's flag "in service" and its maintenance plan. Each subcommand is a
process that takes `.lock`, loads all requests, works on them in memory, saves
them one by one and may be killed at any point:
`schedule`, `run` (update states, enter maintenance, execute, reboot or leave,
postpone, archive), `delete`, `request script|reboot|system-properties|update`.
Hard: a reboot is a normal end of a run in the middle of the protocol; enter
commands may ask for retry or postponement; the order of directory calls,
marker, saves and renames. Correct means: a request that was added is never
lost and never runs again once it is finished; activities run only in
maintenance mode; the retry limit holds; the directory plans only what is
queued.

### Activities and creating requests (`maintenance/activity/`, `maintenance.py`)
Scripts, reboots, VM changes and updates: what `run`, `resume` and `merge` do,
whether a reboot is needed. Requests are made by comparing memory, cores, KVM
environment and kernel with what is running, or by building the wanted system.
Hard: merging into a request that is already running or finished; deciding from
what was read before a lock, a boot or a migration; the update activity's own
locks. Correct means: the machine ends up with what is wanted, and is then left
alone.

### Constraints in a resource group (`cli.py constraints`, `src/nixos/platform/agent.nix`, `src/nixos/roles/k3s/agent.nix`, `src/nixos/roles/router/default.nix`)
An enter command asks the directory whether other machines are in service.
Each machine decides on its own, with several separate directory calls, after
marking itself out of service. Correct means: machines that require each other
never execute at the same time, and never wait for each other forever.

### Ceph host maintenance (`ceph/maintenance/`)
Enter and leave commands of the storage hosts: the cluster-wide lock on
`rbd/.maintenance`, the health check, the `noup` flags of the host's OSDs, the
workaround for stuck placement groups. Hard: commands that time out and may
have taken effect, kills between two steps, a lock given back while OSDs are
still starting. Correct means: OSDs of at most one host are down for
maintenance, the cluster does not stay locked, the OSDs come back.

### Switching the system (`manage/manage.py`, `util/nixos.py`, `util/channel.py`, `util/lock.py`)
State: what the directory wants, the nixos channel, the system profile, the boot
loader's default, the running and the booted system, built systems, the first-run
marker. Three services change it: fc-agent (ENC, lazy switch, kernel check, due
requests), fc-update-channel (an update request, or a switch), and somebody who
calls `fc-manage`. `fc-agent.lock` covers some of it, the request manager's lock
other parts, and the garbage collector asks neither. Correct means: the machine
converges to the wanted system and its kernel, and its release is not changed
under running services.

### Node drains (`util/slurm.py`, `util/kubernetes.py`, `util/keepalived.py`, `manage/`)
Enter commands that ask another service to take over and wait with timeouts;
leave commands that undo it. What they leave behind after a timeout or kill has
to be found by a later run, told from what administrators have done, and undone
before the machine counts as in service.

### Commands
* `util/postgresql.py`: major upgrades by hand or by an automatic unit, known to
  each other only through marker files in two data directories.
* `fc.devhost/manager.py`: VMs as a JSON file, a Nix file, an image and a unit.
* `ceph/osd`, `ceph/lvm.py`: OSDs as a map entry, logical volumes and a daemon.
* `ceph/luks`: two key slots for each encrypted volume, replaced by each other.
* `ceph/maintenance/images_nautilus.py`: base images of VMs, written by any host.
* `ceph/s3users`, `ceph/keys`: users and keys that timers bring in line with the
  directory.

### Checks
Small pure programs that reduce facts to an exit code. Hard: combining several
results, thresholds of different directions, durations; tables that change while
they are read.

### The rest
ENC data; zones, DHCP, monitoring and backup configuration; disks and VM
creation; installer tools; the NixOS modules; release tooling. `PROJECT.json`
lists them with the reason why they are not modelled.

### How the parts interact
A systemd timer starts the agent again and again (`src/nixos/platform/agent.nix`
398-432): it fetches ENC data, runs `fc-manage`, then `fc-maintenance request
...`, `schedule` and `run`. `run` calls the enter and leave commands, among them
`fc-maintenance constraints`, the node drains and `fc-ceph maintenance
enter|leave`. They communicate by exit codes (69 postpone, 75 try again), by
the directory, and by the services they drain. A due update request builds and
switches the system like `fc-manage` does, and may ask for the reboot that makes
a new kernel run.

## 2. Modules

| Module | Models | Composed of |
|---|---|---|
| `MaintenanceRequest` | operators on a request: `update_state`, `update_due`, attempts, order | |
| `ReqManager` | the request manager of one machine with all subcommands | extends `MaintenanceRequest` |
| `RequestLifecycle` | abstract specification: what becomes of a request | implemented by `ReqManager` |
| `MaintenanceCluster` | runs of several machines with the constraints command | |
| `CephMaintenance` | enter and leave on several Ceph hosts | |
| `TakingTurns` | abstract specification: what maintenance does to the OSDs of several hosts | implemented by `CephMaintenance` |
| `SystemUpdate` | channel, profile, running system; fc-agent, fc-update-channel, an operator, garbage collection, reboots | |
| `VmProperties` | memory, cores and KVM environment of a VM: requests, merging, power-off | |
| `SlurmMaintenance`, `KubernetesMaintenance`, `RouterMaintenance` | enter and leave commands of machines whose work is taken over by others | |
| `PostgresUpgrade`, `Devhost`, `CephOsd`, `LuksKeys`, `VmImages`, `S3Users`, `CephKeys` | one command family each, with its failures and kills | |
| `Checks`, `RouteChecks` | monitoring checks on all combinations of their facts | |
| `NodeMaintenance` | each behaviour is about one Slurm cluster, k3s cluster, group of routers, or VM | instances of the four modules |
| `Commands` | each behaviour is about one command family or check | instances of the nine modules |
| `...Proofs` (eight modules) | theorems about the module they are named after | extend their module and `TLAPS` |
| `MC...` (six modules) | constants for TLC | extend their module |

`NodeMaintenance` and `Commands` put independent systems into one
specification: the first state chooses which one a behaviour is about
(`cluster`, `tool`), the variables of the others stay constant, and each
property holds of the system it names. Fairness is stated for the chosen one,
step by step as in its module. So one run, and one module of theorems, is about
all of them; a theorem about such a composition uses the invariant of one
component and that each step is one of this component or none.

Definitions whose comment starts with "A slip" are not part of any
specification. They are plausible errors in the definition that follows, and
each property is shown to notice one of them (`mutants` in `PROJECT.json`).

### `ReqManager`
`disk`, `archived` and `marker` are the spool directory; `in_service` and
`known` are the directory's view of the machine; `mem`, `opts`, `todo`, `cur`,
`due_dt`, `reboot` are the variables of the process that has `.lock`, and `pc`
is where it is (`idle`: nobody has the lock). Every step between two effects
that survive a kill is an action of its own, and `Crash` may happen before each:

| Code | Actions |
|---|---|
| `__enter__`, `scan` | `StartSchedule`, `StartAdd`, `StartDelete`, `StartRun` (each with `Scan`) |
| `schedule` | `ScheduleCall`, `ScheduleResult`, `ScheduleEnd` |
| `add`, `_merge_request` | `MergeUpdate`, `MergeSignificantUpdate`, `PostponeSignificant`, `MergeRemove`, `AddNothing`, `AddRequest`, `SaveRequest` |
| `delete` | `Delete`, `DeleteNoArchive`, `DeleteSkip` |
| `update_states` | `UpdateState`, in the order of start times |
| `execute` | `Execute`, `MarkOutOfService`, `WriteMarker`, `EnterSucceeds`, `EnterPostpone`, `EnterTempfail`, `StartAttempt`, `FinishAttempt`, `Record`, `Reboot`, `NoReboot` |
| `_leave_maintenance` | `LeaveMaintenance`, `RemoveMarker` |
| `postpone`, `archive` | `Postpone`, `ResetDue`, `Archive`, `ArchiveRequest` |

Abstractions. Time is counted in ticks and start times are tick numbers. The
directory may answer for any subset of the requests it knows, with any time. A
kill, a machine crash, a directory call that raises outside of
`_enter_maintenance` and a leave command that fails have the same effect, the
process ends: `Crash`. A request keeps the number of its attempts and how many
of them never ended. Comments, estimates and output are left out; one duration
stands for all estimates. `request system-properties` adds up to four requests
under one lock; here each `add` is a lock session of its own, between which
nothing need happen. The rename in `archive` and the save that follows it are
one step; afterwards only the state is kept. A failure of the *first* save in
`Request.execute` (disk full) is not modelled, a failure of the last one is.

### `RequestLifecycle`
The promise in five lines: none, making, waiting, running, finished, archived;
a request moves back only from running to waiting; a finished one runs again
only with `--run-all-now --force-run`; it is archived only when the directory
does not plan it any more, unless a run was offline. `ReqManager` maps its disk,
archive and the directory's plan to it (`life`, `Lifecycle!Spec`).

### `MaintenanceCluster`
One request per machine, whose start time is ahead, reached or missed. A run
is `Run`, `MarkOutOfService`, one `Ask` per required machine, then
`ConstraintsMet`, `Start`, `Finish`, `Leave`, or `ConstraintsNotMet` with the
machine's exit code. A success may end in a reboot, with the machine still out
of service. Runs of different machines interleave at every step and may be
killed.

### `CephMaintenance`
Each host's agent is either idle or in one of the steps of `enter` or `leave`;
`exit` remembers how `enter` goes on after its own call of `leave`. A command
that times out may or may not have taken effect (`LockTimesOut`,
`UnlockTimesOut`). An exception that nobody catches, also that of a workaround
that gives up, ends the process like a kill: `Crash`. The cluster is external:
OSDs without the flag start at some time and may leave placement groups stuck;
the lock can be released only by its holder; whether the holder may take it
again is left open. A request becomes due when no run is under way (its state is
looked at only when a run starts). `enter` first flags the host's OSDs and then
takes them down (`SetNoup`, `OsdDown`), and may fail or be killed before either.
Failures of hardware are not modelled: OSDs are down only because of maintenance.

### `TakingTurns`
The promise without the procedure: a turn that a host takes when nobody has it
and gives up after it has let go of all OSDs; OSDs that are held are its own; it
holds them and takes them down only when all OSDs are up; one that is not held comes
up at some time, also after the turn. Health checks, time limits, unlock attempts
and kills are not seen. In `CephMaintenance` the lock is the turn and the flags
are what is held (`Turns!Spec`).

### `SystemUpdate`
A system is known by what it was built from: the content of the channel, the
local configuration, and whether the roles are part of it. `wanted`, `config`
are the directory's and the administrator's wishes, `channel` the nixos
channel, `profile`, `boot`, `current`, `booted` the system profile, the boot
loader's default, the running and the booted system. Each service's place in
its program and what it remembers are in `pc` and `job`. A switch goes from
`StartSwitch` through the choice of the channel, build, registration and
activation; every one may fail, and others act in between unless a lock forbids
it. What
runs under `switch_to_configuration.lock` is one step. The update activity
(`RunChannel`, `RunBuild`, `RunRegister`, `RunActivate`) decides how to activate when it registers.
`request update` lists requests, prepares and adds in three lock sessions. The
garbage collector removes what neither profile nor a running system refers to.
An operator's `switch` may fetch the ENC first (`LoadEnc`); a reboot is asked for
by a new kernel and by units. An `enc.json` that is cut while it is rewritten in
place is left out (section 4).
Building is a function of its inputs; evaluation and output are left out;
specialisations of a system are not told apart from it. `by_hand` is a history
variable: whether anybody has called `fc-manage` by hand.

### `VmProperties`
`wanted` is what the directory says, `vm` what the hypervisor runs, `enc` and
`host` what the machine was told of both, `current` and `booted` the KVM
environment's name now and at boot; `change` and `reboot` are the two requests.
The agent's comparisons, merging (with the values the request was made for),
execution and power-off are one action per agent step; boots, migrations and
new wishes come in between.

### `SlurmMaintenance`, `KubernetesMaintenance`, `RouterMaintenance`
Several machines run their agent: mark out of service, ask the constraints (one
`Ask` each), drain or lower, wait, work, undo, mark in service. Every call to
Slurm, kubectl or keepalived's files is a step; each wait has a timeout action.
`due` is the only thing kept of requests. `SlurmMaintenance` has jobs that start
and end, the reasons that tell the agent's drains from an administrator's, the
nodes that a ready command has chosen (`chosen`) and is still going through, and
machines that a ready command has overtaken (`overtaken`, a history variable):
those that were marked out of service only after the controller had looked at
them, and those one of whose nodes an administrator sets to ready in the middle
of maintenance. In `KubernetesMaintenance` a label does
what the reason does there. `RouterMaintenance` has keepalived's state, one
notify command per state at a time, the state file, the running specialisation,
and fc-agent's own switch, which reads the current specialisation and switches to
it later; when keepalived changes its state is nondeterministic. Left out:
whether Slurm nodes respond, which changes messages only.

### `PostgresUpgrade`
For each version: what is in the data directory (`dir`, `data`) and which markers
(`fcio_upgrade_prepared`, `fcio_migrated_from`, `fcio_migrated_to`,
`fcio_stopper`, the package link) it has. The command and the automatic unit are two
jobs that go through the steps of preparing and upgrading; each may fail, and a
power failure ends all. The service's start with its conditions is one action.
The repairs are those the documentation gives to administrators.

### `Devhost`
`config` (JSON), `nix`, `disk`, `units`, and what a command has open: temporary
image, network block device. `ensure`, `destroy` and `cleanup` are jobs; a torn
file is one that was being written when the power failed. `Together` says how
many commands run at once: the lock is given up as soon as it is taken (section
4), so the code's own limit is none; the passing run shows what holds for one at
a time. The id stands for the address computed from it. A `destroy` that is cut
after the JSON file leaves the unit running and the id free (`Leftover`).

### `CephOsd`, `LuksKeys`
One administrator at a time, as in practice; commands stop at any step and are
repeated. `CephOsd`: the cluster's map, full copies of the data, volume groups
and logical volumes by name, the group of logs on a journal disk (`journal`),
running daemons; the threads of `deactivate`. `purge` goes on when `lvremove` or
`vgremove` fails, which the history variable `ignored` remembers. Confirming the
destruction of OSDs that are not on the host is left out.
`LuksKeys`: per volume the two slots; the keystore's file and the fingerprint of
the passphrase; `rekey` of either; new and purged volumes. Administrators
destroy a keystore only after `test-open` with their passphrase, and mistype at
most as often as the bound says.

### `VmImages`, `S3Users`, `CephKeys`
Timers on one or several hosts, with a run's answer from the directory read once
at the beginning. `VmImages`: the current release, the image's head, its
snapshots with protection and clones, the lock's owner. `S3Users`: the three
stages of a deletion and the keys of a user; each access key has one secret.
`CephKeys`: what each run has asked for, added and still to purge, with `alone`
for runs that no other overlapped. Reading the cluster's keys may fail for one
key and be tried again with the next.

### `Checks`, `RouteChecks`
In `Checks` every fact has a ladder of values from good to bad, with values at,
below and above each threshold (and durations across a day); a behaviour starts
with one check, any configuration and good facts, and facts get worse one at a
time. `Exit` is the check's code over them. A call reports some facts once: lines
of a log that are behind its cookie, overflows since the last call (`Ask`). What
is looked at comes and goes: interfaces, files, roles (`Reconfigure`). In
`RouteChecks` a behaviour walks through the combinations of three tables (kernel,
zebra, bgpd) for one address, with none, one or two endpoints; for a MAC bgpd
may have the best paths of up to two route distinguishers, each along no, one or
several hops in use.
Parsing is left out in both.

## 3. Runs

| Run | Result | What it shows |
|---|---|---|
| `manager_normal` | passes | flags off; a script and an update request; one retry less than allowed attempts |
| `manager_interactive` | passes | a reboot and a VM change with `--run-all-now`, alone and with `--force-run --no-online` |
| `cluster_pair` | passes | two machines that require each other, one with exit code 75 and one with 69, two kills |
| `ceph_hosts` | passes | two hosts, one with two OSDs; two failures, timeouts or kills |
| `update_services` | passes | three services, a channel of the same release, one of the next and a local checkout |
| `update_reboots` | violated | section 4 |
| `nodes_safety` | passes | safety of Slurm, k3s, routers |
| `nodes_return` | passes | liveness of Slurm, k3s, routers, VM |
| `commands_alone` | passes | the seven command families and all checks but one |
| `devhost_together`, `osd_deactivate`, `checks_maintenance` | violated | section 4 |

Properties of the passing runs:

* `RetryLimit`: in normal operation `Activity.run` is called for the first
  `MaxRetries + 1` attempts of a request only. Attempts that were cut short, were
  resumed or whose result `save` lost count like any other; what may come after
  them is `Activity.resume`.
* `RunsInMaintenance`: unless forced, activities run only after the directory
  has the machine out of service and the marker is written, also when an
  earlier run left either of them behind.
* `LifecycleKept`: `ReqManager` implements `RequestLifecycle`.
* `MutualExclusion`, `DueIsSettled`: machines that require each other never
  execute at the same time, and a due request is executed or postponed.
* `TurnsKept`: `CephMaintenance` implements `TakingTurns`: OSDs are flagged only
  by the holder of the lock, and it is released only when none is flagged, also
  after time limits and kills. `DownOnOneHost`: OSDs of only one host are down,
  including those on their way up after the lock was released. `LockReleased`,
  `OsdsReturn`: neither stays.
* `Converges`: the machine ends up with the wanted system and its kernel.
  `ReleaseChangesByReboot`: the services replace a release only by a reboot.
* `NoJobDuringMaintenance`, `NoJobKilled`: no job runs on drained machines during
  maintenance, and none is killed by it, unless the controller or an administrator
  has set a node to ready in between (`overtaken`); `ReadyInTheEnd`: nodes come
  back.
* `OneCordoned`, `UncordonedInTheEnd`: at most one k3s node is away, and not
  forever unless `kubectl uncordon` itself fails (section 4).
* `OneLowered`, `PriorityReturns`: the same for routers' priority; `NotifyRepairs`:
  notify commands and switches that run at once may leave the wrong system or
  state file (section 4), but the next change notified on its own repairs both.
* `Settles`: the VM gets what is wanted, and no request is left.
* `ServesNewest`, `NotLockedOut`: PostgreSQL runs only with the newest data, and
  its markers lock it out only after a failure.
* `DistinctIds`, `Delivers`, `KeepsFresh`: two VMs of a development host run with
  the same id only if one of them was left running without its configuration by
  a `destroy` that was cut short or by a torn file (section 4); when `ensure` reports success the unit has the configured id, and so has
  the image unless another VM answered that has an image of a former id; a VM
  whose unit and files agree and that was deployed lately is not removed.
* `DataKept`, `Removable`: OSD commands keep a complete copy of the data, and
  what they leave can be removed, as long as no failed removal was ignored.
* `Openable`: each encrypted volume can still be opened.
* `Named`: a snapshot is of the release it is named after.
* `Synced`, `Installed`: users and keys are what the directory's answer said, the
  keys after a run that no other one overlapped. What runs of several monitors do
  to each other at the same time is modelled, but nothing is promised of it.
* `NeverBetter`, `Alarmed`: as long as a check looks at the same things and none
  is better than it was, its code does not fall; and it is not OK when one of
  them is at its worst, or when the kernel forwards where FRR does not.
* `TypeOK` of each module.

Bounds, all named in the cfg files or the MC modules:

* `manager_*`: two requests, because merging, order and "continuous" scheduling
  are about pairs; `MaxTime = 2`, so that a start time can be unknown, now, in
  the future or missed (`RunnableFor = 0`); `MaxAttempts = 2` with `MaxRetries =
  0`, so that the limit is reached, exceeded, and an overdue request is over it.
  Nothing else is bounded. About one million states each.
* `cluster_pair`: constraints are pairwise, so two machines; `MaxCrashes = 2`.
* `ceph_hosts`: two hosts compete for one lock; two OSDs on one of them, so that
  flags are removed in two steps; `UNLOCK_MAX_RETRIES = 2` and `MaxFailures = 2`,
  so that unlocking is repeated and given up.
* `update_services`: one change of the wish or the configuration after the
  first wish, one failing command and one power failure anywhere. What each of
  them can do is done by one; the safety property is proved for any number.
* `nodes_*`: two nodes, the smallest number that can exclude each other, one
  dependency and the controller (one node where liveness is checked: nodes come
  back independently); requests, kills, failures and administrators' commands as
  in the sets `SlurmSafety` ... `VmSafety`, a set of combinations rather than
  their maximum, so that each meets the others. The safety properties are proved
  for any number of each.
* `commands_alone`: `...Faults`, `...Interrupts`, `...Kills`: enough commands to
  make, break, repeat and undo something (three to five; four for OSDs, with two
  interruptions or removals that fail), one or two faults elsewhere; two
  versions, VMs, OSDs, disks, volumes, hosts, users, monitors; three releases and
  three keys, so that one is neither the old nor the new one. The safety
  properties are proved for any number of each, except those of the monitoring
  checks, whose facts and values are the finite ladders that TLC goes through
  completely.

Deadlock is checked except in `commands_*`, `devhost_together`, `osd_deactivate`
and `checks_maintenance` (cfgs `Commands_*`): there a behaviour ends when the
bounded commands are used up or all facts are at their worst.

### Fairness
Safety needs none. In all modules with liveness properties: the timer starts the
agent again and again, and a run takes its next step because every wait in it
has a timeout (weak fairness of a machine's `Step`); kills, failures and
timeouts are bounded, not fair: a machine that is killed in every run promises
nothing.

* `MaintenanceCluster`, `CephMaintenance`: the clock advances (`Pass`,
  `BecomeLate`), the directory schedules (`Schedule`), an OSD that may start
  starts (`Boot`). No fairness is assumed of which answer a command gives:
  `DueIsSettled` holds because the start time is missed at some time.
* `SystemUpdate`: strong fairness of each service's step, because a step that
  takes a lock waits until it is free, which it is again and again; the
  directory makes the pending requests due at some time, also all of them in one
  run (`SF` of `Run(Pending)`); a requested reboot happens.
* `SlurmMaintenance`, `KubernetesMaintenance`, `RouterMaintenance`: a request
  that could not be executed for long is postponed, a wait for nodes that do not
  get ready times out (strong fairness of `Timeout` and `Postpone`: another
  machine's steps may interrupt what enables them); jobs end.
* `VmProperties`: the agent runs, hosts write their files, requests become due.

## 4. Findings

Each is a run with one property that quotes what the repository says, and a
trace in which the code does otherwise.

1. `update_reboots` (`maintenance/activity/reboot.py:17`): a reboot request is
   executed although the machine has booted since it was made; lines 3-4 say it
   does nothing then.
2. `devhost_together` (`src/nixos/roles/devhost/fc.devhost/src/fc/devhost/manager.py:192`):
   the lock is taken through a file object that nothing keeps, so it is given up
   at once; two commands choose the same free id.
3. `osd_deactivate` (`ceph/osd/nautilus.py:183`): threads read the variable of
   the loop that starts them; success is reported for an OSD that still runs.
4. `checks_maintenance` (`maintenance/reqmanager.py:1422`): `timedelta.seconds`
   drops whole days, so a machine that is stuck in maintenance is OK again after
   24 hours.

### Known behaviours
Met while modelling, each shown by the models' behaviours or by reading, and not
made a run of its own because the run would ask nothing else of the system.

Request manager:
* An enter command's postponement turns requests that are still *running* from
  an interrupted attempt into fresh ones; scripts and reboots are run again
  (`reqmanager.py:944`; compare `activity/__init__.py:85-86`). In the same
  situation the marker is removed while the request is saved as running
  (`reqmanager.py:946`), which `check` calls a ReqManager bug (1260-1261).
* A due request that the directory moves into the future stays due
  (`request.py:404`; compare 373-374).
* A request that asked to be postponed runs again without a new time when the
  run ends in a reboot or is killed (`reqmanager.py:984`; `cli.py:176-177`).
* What is merged into a finished request, after a reboot and before `archive`, is
  archived without being executed, until the next agent run requests it again
  (`reqmanager.py:414`; `cli.py:282`). So `Settles` holds all the same.
* With three machines that list each other, two can be out of service while one
  of them only checks (`reqmanager.py:564`;
  `src/doc/src/platform/maintenance.md:51-54`).
* `last_run.json` is written in place and read without the lock
  (`reqmanager.py:864`), and `requested_reboots` may hold `None` (977).

Drains and Ceph:
* `fc-ceph maintenance enter` run again sees its own flags and asks to postpone
  (`ceph/maintenance/nautilus.py:268`; `src/nixos/platform/agent.nix:198-199`).
* When the noup workaround fails, the next `leave` skips it and unlocks
  (`ceph/maintenance/nautilus.py:303`).
* A Slurm node that somebody has drained by hand gets the agent's reason when
  maintenance sets it DOWN (`util/slurm.py:353`), so that the controller sets it
  to ready afterwards; `src/doc/src/components/slurm.md:195-199` says it does not.
* A cordoned k3s node counts as drained (`util/kubernetes.py:117-126`): after a
  drain that timed out the next run starts maintenance with pods still on the
  node, and its waiting for "a previous run which ran into a timeout" (163-171)
  is never reached; `src/doc/src/components/kubernetes.md:73` says that nodes are
  drained before.
* The result of `kubectl uncordon` is not looked at (`util/kubernetes.py:293`): when
  it fails the label is removed all the same, the node is reported in service, and
  no later run takes it for one it has to uncordon. This is the exception that
  `UncordonedInTheEnd` names (`UncordonFailed`).
* keepalived does not wait for an earlier `fc-keepalived notify`
  (`manage/keepalived.py:169-176`), and fc-agent's switch reads the specialisation
  it keeps before it waits for the lock (`util/channel.py:168`, 208). A command for
  "backup" that gets the lock after the one for "master", or an agent that had read
  "primary" before, leaves a router with the wrong system until its state changes
  again: later agent runs keep what they find. `NotifyRepairs` says no more.
* In unexpected states `util/slurm.py:629` subscripts a node object.

System and VM:
* An update activity sets the channel first (`maintenance/activity/update.py:274`).
  When its build fails, the next run of fc-agent builds from the new channel and,
  within a release, switches to it outside of a maintenance window;
  `src/doc/src/platform/maintenance.md:7-9` names updates as what is done in one.
* A lazy switch compares only with the running system (`util/nixos.py:613`), not
  with what the boot loader starts.
* The update activity decides how to activate when it registers. If somebody
  switches to a new release and activates it by hand before the activity goes
  on, the activity switches back without a reboot. It takes three changes; this
  is why `ReleaseChangesByReboot` is about machines that nobody has switched by
  hand (`by_hand`).
* A change that is undone in the directory leaves its request: the VM is powered
  off needlessly.
* Two VMs whose `destroy` was cut short after their JSON files were removed keep
  their images, one perhaps its unit. `ensure` may then make one of them anew with
  the other's id, keep the image it finds, and report success because the other
  one answers at this address
  (`src/nixos/roles/devhost/fc.devhost/src/fc/devhost/manager.py:218`, 303, 343).
* A `destroy` that is cut after it has removed the JSON file leaves the VM running
  while its id counts as free (`manager.py:220`, 303): the next new VM gets the id,
  and with it the address, of one that runs. This is the exception that
  `DistinctIds` names (`Leftover`).
* `fc-ceph osd destroy` ignores failures of `lvremove` and `vgremove`
  (`ceph/lvm.py:405`, 419) and goes on to the log's volume: what is left of the OSD
  then has no type, and a second `destroy` does not find it unless it is told the
  type (`--force-objectstore-type`, which is not modelled). This is the exception
  that `Removable` names (`ignored`).
* An external log without its backup is taken for an internal one
  (`ceph/osd/nautilus.py:408`): a second `destroy` then removes the volume group of
  the journal disk, with the logs of other OSDs that are stopped. `DataKept` holds
  all the same, because the safety check counts no copy of an OSD that is stopped.
* A run of `mon-update-client-keys` may delete keys that another monitor's run has
  just added for a new node (`ceph/keys/nautilus.py:293`), until the next run.
* When the disk is full `enc.json` is rewritten in place (`util/enc.py:137-149`). Cut
  there, it is empty for the next run, which then has no directory password and
  does not ask the directory for a better one (228-238).
* A kill between creating and protecting a snapshot leaves it unprotected
  (`ceph/maintenance/images_nautilus.py:262`).

Checks (`src/pkgs/fc/` unless named): `check_find_failed` warns of excluded units
(`agent/src/fc/util/systemd_units.py:96`); megaraid's predictive failures use the context
"error_count" (`sensuplugins/fc/sensuplugins/megaraid_cache.py:139`) and only the first battery is read; the
evpn check ends with a Python error, exit code 1, when bgpd has no MAC in the VNI
(`check-rib-integrity/check_rib_integrity.py:141`) and with several hops (381); of several route
distinguishers only the last one's path to a MAC counts (131-136), and another machine's path
without a hop in use counts as an own one (145); interfaces missing
from `/proc/net/dev` are skipped (`sensuplugins/fc/sensuplugins/interfaces.py:83`), so that an
interface that is down and then gone ends its alarm; blocked requests in Ceph's log
(`ceph/src/fc/ceph/check/check_ceph.py:202`) and overflows of the neighbour table
(`neighbour-cache-monitor/neighbour-cache-monitor.py:88`) are reported by one call only; one error
is tolerated with `-c 1` by the LVM check; a failing closure size hides the manage check's
low-disk error. The models have these as they are.

## 5. Proofs

The proofs hold for every value of the constants that satisfies the assumptions
named in the modules. These say what kind of thing a constant is (finite users
of a development host and S3, finitely many PostgreSQL versions, which are
numbers from 1 on, endpoints that are no ports, a check that exists); bounds
may be any sets of any numbers. Three things are premises of theorems instead,
because the code's own behaviour beyond them is known to be different: commands
of a development host run one after the other (`Together = 1`, finding 2),
one passphrase is mistyped at most (`OneTypo`), and fc-maintenance's check is not
asked (`NoMaintenance`, finding 4). Each inductive invariant was
first checked with TLC on the instances above.

* **`ReqManagerProofs`**: `TypeCorrect`, `RunsInMaintenanceHolds`,
  `RetryLimitHolds`, `LifecycleKeptHolds`, `PlannedIsQueued`. `TypeOK` is not
  inductive by itself: `finish_attempt` takes one off the unfinished attempts, so
  the invariant adds that the attempt being made is counted (`AttemptOpen`).
  `RunsInMaintenance` needs what holds while maintenance is being entered
  (`Entering`). `RetryLimit` needs that `update_states` has been over a request before it
  is picked, that those picked keep a retry until their turn comes unless they
  are resumed (`Retriable`), and that `--run-all-now` is never on (`NeverAll`).
  `LifecycleKept` is the refinement: every action is mapped to an action of
  `RequestLifecycle` or a stutter, from what memory, disk, archive and the
  directory's plan have to do with each other at each step of the process.
  `PlannedIsQueued` carries a theorem of the abstract specification over.
* **`RequestLifecycleProofs`**: consequences of the abstract specification:
  the directory plans only queued requests; archived requests stay archived.
* **`MaintenanceClusterProofs`**: `MutualExclusionHolds`, `TypeCorrect`, for any
  number of machines and lists of required machines. The invariant is that of two
  machines that require each other not both can have seen the other one in
  service: the one that asked first was already marked.
* **`CephMaintenanceProofs`**: `NoupUnderLockHolds`, `DownOnOneHostHolds`,
  `TypeCorrect`, `TurnsKeptHolds`, for any number of hosts and failures. The invariant: a host
  checks and flags under the lock, its OSDs are unflagged when it unlocks,
  `leave`'s list is complete and has only its own OSDs (`ListComplete`, `ListOwn`),
  and no OSD is down when a host is about to flag or to take down, which it does
  after it has flagged (`CheckedHealthy`, `FlaggedFirst`).
  With it each action is a step of `TakingTurns` or a stutter (`TurnsKeptHolds`):
  who unlocks has removed all flags there are (`ReleaseIsLast`), and flags are
  set in one's turn (`FlagsInTurn`). `TurnsSuffice` is about `TakingTurns` alone:
  the OSDs held or down are those of one host.
* **`SystemUpdateProofs`**: `TypeCorrectness`, `ReleaseChangesByRebootHolds`, for
  any channels, releases and number of changes and faults. Only the holder of
  `fc-agent.lock` switches; from the comparison of releases on, its choice stays
  right (`Switches`), because without a command by hand nobody else replaces the
  running system but the activity, whose choice stays right for the same reason
  (`Runs`). `by_hand` is a premise of the invariant.
* **`SlurmMaintenanceProofs`**: the inductive invariant of a Slurm cluster, for
  the module by itself. A machine is out of service from before it asks until it
  leaves; what it has seen drained stays drained, because the ready commands set
  only nodes to ready that were chosen when the machine was in service, and
  machines that were marked too late, or one of whose nodes somebody set to ready
  by hand, are the `overtaken` ones (`Local`, `Seen`).
* **`NodeMaintenanceProofs`**: `TypeCorrect`, `NoJobDuringMaintenanceHolds`,
  `NoJobKilledHolds`, `OneCordonedHolds`, `OneLoweredHolds`, `NotifyRepairsHolds`.
  k3s: a node with the label is out of service from before it asks until it is
  uncordoned, and of two that are past the constraints one has asked after the
  other was marked. A failing `kubectl uncordon` whose label is removed is then
  an administrator's node. Routers: the same argument with the marker; and for
  `NotifyRepairs`, what the one notify command that runs has done so far, and
  that a switch of the agent which started alone switches to what is there.
* **`CommandsProofs`**: one inductive invariant for each command, and with it
  every safety property of the commands; `TypeCorrect` for them and the checks.
    * PostgreSQL (`ServesNewestHolds`, `NotLockedOutHolds`). `PgInv` says that
      at most one directory looks like the one to be served and has the newest
      data (`PgOne`), what each marker says of its directory and of the other one
      (`PgLinks`, `PgMarkers`), which version the role may name (`PgRole`), and what the
      command by hand, the unit, and both at once have done at each step
      (`PgManual`, `PgAuto`, `PgAlone`, `PgJobs`). It holds through failures and
      repairs. For `NotLockedOut` there is a second one (`PgCalm`) for the time
      in which nothing has failed: half an upgrade is there only while its job is.
    * OSDs (`DataKeptHolds`, `RemovableHolds`): from the safety check to the end of
      the purge there is another full copy than that of the OSD (`OsdCopy`); the
      write-ahead log is made before and removed after the data, as long as no
      failed removal was ignored (`OsdOrder`, `OsdLogs`).
    * LUKS (`OpenableHolds`): what a command knows at each step of the volume, the
      key file and what was typed (`LuksAt`), and that as long as nothing was
      mistyped, or the mistyped passphrase only stands in for the key that is
      being replaced, every administrative slot is right (`LuksTypo`).
    * Base images (`NamedHolds`), client keys (`InstalledHolds`), S3 users
      (`SyncedHolds`): what a run knows at each step, and that it stays true,
      because the lock is held (images), because no other run overlaps (keys), or
      because the rest of the loop has still to be gone through (users).
    * Development host (`DistinctIdsHolds`, `DeliversHolds`, `KeepsFreshHolds`):
      no two configurations have the same id (`DevhostIds`), so that two units with
      the same one are not both configured with it; a torn file says
      nothing (`DevhostTorn`), and what the running command has done so far nobody
      has undone (`DevhostDone`).
    * Routes (`RoutesAlarm`): the check is a case analysis over any set of
      endpoints and any paths that bgpd has.
    * Checks (`AlarmedHolds`, `NeverBetterHolds`): two findings of the same facts
      are compared, of which the second is nowhere better (`ChecksClimb`); each
      check gives the second no lower code, and says something of the first when a
      fact that it watches is at its worst (`ChecksPromise`, one lemma per check,
      from lemmas that the ways to combine results are monotone: `ChecksHighest`,
      `ChecksFold`, `ChecksGuarded`). `NeverBetter` compares the two states of a step
      that are such findings (`ChecksNever`). The premise `NoMaintenance` leaves out
      fc-maintenance's check, for which both are false (finding 4).
    * Types: those of LUKS and the development host hold also without the two
      premises, so that they have invariants of their own (`LuksKinds`,
      `DevhostKinds`); each check's exit code is in 0..3 whatever the values of
      its facts are (`ChecksExit`).

Only model-checked:

* Liveness, which is out of the prover's reach: `DueIsSettled`, `Converges`,
  `LockReleased`, `OsdsReturn`, `ReadyInTheEnd`, `UncordonedInTheEnd`,
  `PriorityReturns`, `Settles`.
* What is violated: `RebootsOnce`, `Deactivated`, `NeverBetter` of fc-maintenance's
  check, `DistinctIds` of commands that run together (section 4).

What the proofs taught about the models:

* `Openable` is true only with one mistyped passphrase. An administrator who
  mistypes the same way again, when the other slot is replaced, and is then
  interrupted, has a volume that no known key opens.
* That a successful `ensure` leaves an image with the configured id is not true
  when two commands that destroy different VMs were cut short before; see below.
* That nothing changes a VM that was deployed lately needs that its unit agrees
  with its files: after several cuts a VM may run with an id that its Nix file
  does not have, and the next `ensure` or switch puts that right.

## 6. Not modelled

* Wording, estimates' arithmetic, output, the log and `last_run.json`.
* A directory that marks a machine in service by itself when the timeout of
  `mark_node_service_status` is over.
* More than one request per machine outside of `ReqManager`: the constraints
  command and the drains do not look at requests.
* The unit changes of update activities when they are merged.
* How the checks' metrics are counted; HAProxy's, the journal's and the DNS
  checks; pressure stall information (compared as strings, not deployed).
* ENC data, and the generators of zones, DHCP, monitoring and backup
  configuration: one-shot translations whose only state are their files.
* Ceph monitors, managers, pools and backups: one-shot sequences of commands.
* Disk tools, installer, NixOS modules, release tooling, packages.

## 7. What is left of the plan

1. An abstract specification of a drain (taken over, working, given back) that
   `SlurmMaintenance`, `KubernetesMaintenance` and `RouterMaintenance` implement,
   with the refinement proved from their invariants.
2. The loop of the noup workaround with the changes of OSDs it waits for, as a
   refinement of `CephMaintenance!Workaround`; what an unlocked cluster with
   stuck placement groups means for the next host.
3. Several requests per machine in `SlurmMaintenance`: `ReqManager` composed with
   a drain instead of its abstract enter command.
