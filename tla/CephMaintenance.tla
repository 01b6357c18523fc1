--------------------------- MODULE CephMaintenance ---------------------------
(***************************************************************************)
(* Maintenance of Ceph storage hosts: the enter and leave commands of      *)
(* fc.ceph.maintenance.nautilus, called by each host's agent. A host locks *)
(* the image rbd/.maintenance, checks the cluster's health and flags its   *)
(* OSDs noup, so that they stay down. Leaving removes the flags one by     *)
(* one, waits for stuck placement groups and unlocks the image.            *)
(*                                                                         *)
(* Ceph and rbd-locktool are external: a locked image can be unlocked only *)
(* by its holder, and whether the holder may lock it once more is open.    *)
(***************************************************************************)
EXTENDS Naturals

CONSTANTS
  Host,
  Osd,
  HostOf,              \* the host in whose crush buckets an OSD is
  None,                \* no host
  UNLOCK_MAX_RETRIES,
  MaxFailures          \* bound: how many commands fail or time out

ASSUME CephAssumption ==
  /\ HostOf \in [Osd -> Host]
  /\ None \notin Host
  /\ UNLOCK_MAX_RETRIES \in Nat \ {0}
  /\ MaxFailures \in Nat

VARIABLES
  lock,      \* the holder of rbd/.maintenance
  volume,    \* the image exists
  noup,      \* OSDs flagged noup
  down,      \* OSDs that are down
  stuck,     \* placement groups are stuck in peering
  pc,        \* what the host's agent does next
  work,      \* whether the host has a runnable request
  exit,      \* how enter exits after its call of leave; "none" in leave itself
  flagged,   \* leave's noup_osds
  tries,     \* unlock attempts that timed out
  failures

cluster == <<lock, volume, noup, down, stuck>>
command == <<exit, flagged, tries>>
vars == <<cluster, pc, work, command, failures>>

Phase ==
  {"idle", "ensure", "create", "lock", "health", "noup", "down", "entered",
   "leave", "unset", "workaround", "release", "recreate", "unlock"}
Releasing == {"workaround", "release", "recreate", "unlock"}

OsdsOf(h) == {o \in Osd : HostOf[o] = h}

Init ==
  /\ lock = None
  /\ volume = FALSE
  /\ noup = {}
  /\ down = {}
  /\ stuck = FALSE
  /\ pc = [h \in Host |-> "idle"]
  /\ work = [h \in Host |-> "none"]
  /\ exit = [h \in Host |-> "none"]
  /\ flagged = [h \in Host |-> {}]
  /\ tries = [h \in Host |-> 0]
  /\ failures = 0

Goto(h, from, to) ==
  /\ pc[h] = from
  /\ pc' = [pc EXCEPT ![h] = to]

\* self.leave() within enter, and the agent's leave command.
CallLeave(h, code) ==
  /\ pc' = [pc EXCEPT ![h] = "leave"]
  /\ exit' = [exit EXCEPT ![h] = code]

\* The process ends, and its variables with it.
End(h) ==
  /\ pc' = [pc EXCEPT ![h] = "idle"]
  /\ exit' = [exit EXCEPT ![h] = "none"]
  /\ flagged' = [flagged EXCEPT ![h] = {}]
  /\ tries' = [tries EXCEPT ![h] = 0]

FailOnce ==
  /\ failures < MaxFailures
  /\ failures' = failures + 1

---------------------------------------------------------------------------
(***************************************************************************)
(* The agent (see ReqManager): a run with a runnable request enters        *)
(* maintenance, any other run leaves it. A request becomes due and, when   *)
(* it is not executed in time, is postponed by the next run.               *)
(***************************************************************************)
BecomeDue(h) ==
  /\ pc[h] = "idle"
  /\ work[h] = "none"
  /\ work' = [work EXCEPT ![h] = "due"]
  /\ UNCHANGED <<cluster, pc, command, failures>>

BecomeLate(h) ==
  /\ work[h] = "due"
  /\ work' = [work EXCEPT ![h] = "late"]
  /\ UNCHANGED <<cluster, pc, command, failures>>

\* A slip: without anything to run the agent leaves maintenance alone.
Run_no_leave(h) ==
  /\ pc[h] = "idle"
  /\ work[h] = "due"
  /\ Goto(h, "idle", "ensure")
  /\ UNCHANGED <<cluster, work, command, failures>>

Run(h) ==
  /\ pc[h] = "idle"
  /\ UNCHANGED <<cluster, flagged, tries, failures>>
  /\ \/ /\ work[h] = "due"
        /\ Goto(h, "idle", "ensure")
        /\ UNCHANGED <<work, exit>>
     \/ /\ work[h] # "due"
        /\ work' = [work EXCEPT ![h] = "none"]
        /\ CallLeave(h, "none")

\* The rest of a run after enter has succeeded: another enter command fails
\* temporarily, the host reboots, or the run goes on and leaves maintenance.
Maintain(h) ==
  /\ pc[h] = "entered"
  /\ UNCHANGED <<cluster, flagged, tries, failures>>
  /\ work' \in {work, [work EXCEPT ![h] = "none"]}
  /\ \/ Goto(h, "entered", "idle") /\ UNCHANGED exit
     \/ CallLeave(h, "none")

---------------------------------------------------------------------------
(***************************************************************************)
(* enter                                                                   *)
(***************************************************************************)
\* _ensure_maintenance_volume, in enter and in leave.
EnsureVolume(h) ==
  /\ \/ volume /\ (Goto(h, "ensure", "lock") \/ Goto(h, "release", "unlock"))
     \/ ~volume /\ (Goto(h, "ensure", "create") \/ Goto(h, "release", "recreate"))
  /\ UNCHANGED <<cluster, work, command, failures>>

\* When another host was faster, rbd create fails: enter exits with
\* EXIT_TEMPFAIL, leave raises.
CreateVolume(h) ==
  /\ volume' = TRUE
  /\ UNCHANGED <<lock, noup, down, stuck, work, failures>>
  /\ \/ /\ ~volume
        /\ Goto(h, "create", "lock") \/ Goto(h, "recreate", "unlock")
        /\ UNCHANGED command
     \/ /\ volume
        /\ pc[h] \in {"create", "recreate"}
        /\ End(h)

Lock(h) ==
  /\ lock \in {None, h}
  /\ lock' = h
  /\ Goto(h, "lock", "health")
  /\ UNCHANGED <<volume, noup, down, stuck, work, command, failures>>

\* Already locked: enter exits with EXIT_TEMPFAIL.
LockRefused(h) ==
  /\ lock # None
  /\ Goto(h, "lock", "idle")
  /\ UNCHANGED <<cluster, work, command, failures>>

\* A slip: only the lock is given back.
LockTimesOut_unlock_only(h) ==
  /\ FailOnce
  /\ Goto(h, "lock", "release")
  /\ exit' = [exit EXCEPT ![h] = "TEMPFAIL"]
  /\ UNCHANGED <<cluster, work, flagged, tries>>

\* TimeoutExpired: the lock may have been taken.
LockTimesOut(h) ==
  /\ FailOnce
  /\ \/ pc[h] = "ensure" /\ UNCHANGED lock
     \/ pc[h] = "lock" /\ (UNCHANGED lock \/ (lock = None /\ lock' = h))
  /\ CallLeave(h, "TEMPFAIL")
  /\ UNCHANGED <<volume, noup, down, stuck, work, flagged, tries>>

\* check_cluster_maintenance: flags, down OSDs and stuck placement groups are
\* warnings that are not ignored.
Healthy == noup = {} /\ down = {} /\ ~stuck

\* A slip: a cluster with OSDs that are on their way up is good enough.
CheckHealth_flags_only(h) ==
  /\ UNCHANGED <<cluster, work, flagged, tries, failures>>
  /\ \/ noup = {} /\ ~stuck /\ Goto(h, "health", "noup") /\ UNCHANGED exit
     \/ noup # {} /\ pc[h] = "health" /\ CallLeave(h, "POSTPONE")

CheckHealth(h) ==
  /\ UNCHANGED <<cluster, work, flagged, tries, failures>>
  /\ \/ Healthy /\ Goto(h, "health", "noup") /\ UNCHANGED exit
     \/ ~Healthy /\ pc[h] = "health" /\ CallLeave(h, "POSTPONE")

SetNoup(h) ==
  /\ Goto(h, "noup", "down")
  /\ noup' = noup \cup OsdsOf(h)
  /\ UNCHANGED <<lock, volume, down, stuck, work, command, failures>>

OsdDown(h) ==
  /\ Goto(h, "down", "entered")
  /\ down' = down \cup OsdsOf(h)
  /\ UNCHANGED <<lock, volume, noup, stuck, work, command, failures>>

\* One of the two commands fails, with or without effect, or osd tree does.
SetNoupFails(h) ==
  /\ FailOnce
  /\ \/ pc[h] = "noup" /\ noup' \in {noup, noup \cup OsdsOf(h)} /\ UNCHANGED down
     \/ pc[h] = "down" /\ down' \in {down, down \cup OsdsOf(h)} /\ UNCHANGED noup
  /\ CallLeave(h, "TEMPFAIL")
  /\ UNCHANGED <<lock, volume, stuck, work, flagged, tries>>

---------------------------------------------------------------------------
(***************************************************************************)
(* leave                                                                   *)
(***************************************************************************)
\* A slip: only OSDs that are still down are looked at.
FindFlagged_none(h) ==
  /\ Goto(h, "leave", "unset")
  /\ flagged' = [flagged EXCEPT ![h] = {}]
  /\ UNCHANGED <<cluster, work, exit, tries, failures>>

FindFlagged(h) ==
  /\ Goto(h, "leave", "unset")
  /\ flagged' = [flagged EXCEPT ![h] = noup \cap OsdsOf(h)]
  /\ UNCHANGED <<cluster, work, exit, tries, failures>>

Unset(h, o) ==
  /\ pc[h] = "unset"
  /\ o \in flagged[h] \cap noup
  /\ noup' = noup \ {o}
  /\ UNCHANGED <<lock, volume, down, stuck, pc, work, command, failures>>

AllUnset(h) ==
  /\ flagged[h] \cap noup = {}
  /\ Goto(h, "unset", IF flagged[h] = {} THEN "release" ELSE "workaround")
  /\ flagged' = [flagged EXCEPT ![h] = {}]
  /\ UNCHANGED <<cluster, work, exit, tries, failures>>

\* noup_workaround.run() returns 0 when nothing has been peering for a while.
Workaround(h) ==
  /\ Goto(h, "workaround", "release")
  /\ stuck' = FALSE
  /\ UNCHANGED <<lock, volume, noup, down, work, command, failures>>

Unlocked(h) == IF lock = h THEN None ELSE lock

\* The end of leave. After EXIT_POSTPONE the agent calls leave itself.
Unlock(h) ==
  /\ lock' = Unlocked(h)
  /\ pc[h] = "unlock"
  /\ UNCHANGED <<volume, noup, down, stuck, failures>>
  /\ \/ /\ exit[h] = "POSTPONE"
        /\ CallLeave(h, "none")
        /\ work' = [work EXCEPT ![h] = "none"]
        /\ tries' = [tries EXCEPT ![h] = 0]
        /\ UNCHANGED flagged
     \/ /\ exit[h] # "POSTPONE"
        /\ End(h)
        /\ UNCHANGED work

\* A slip: one attempt too many.
UnlockTimesOut_more(h) ==
  /\ FailOnce
  /\ \/ pc[h] = "release" /\ UNCHANGED lock
     \/ pc[h] = "unlock" /\ lock' \in {lock, Unlocked(h)}
  /\ tries' = [tries EXCEPT ![h] = @ + 1]
  /\ pc' = [pc EXCEPT ![h] = "release"]
  /\ UNCHANGED <<volume, noup, down, stuck, work, exit, flagged>>

\* The image may have been unlocked. After the last attempt leave raises.
UnlockTimesOut(h) ==
  /\ FailOnce
  /\ \/ pc[h] = "release" /\ UNCHANGED lock
     \/ pc[h] = "unlock" /\ lock' \in {lock, Unlocked(h)}
  /\ \/ /\ tries[h] + 1 < UNLOCK_MAX_RETRIES
        /\ tries' = [tries EXCEPT ![h] = @ + 1]
        /\ pc' = [pc EXCEPT ![h] = "release"]
        /\ UNCHANGED <<exit, flagged>>
     \/ /\ tries[h] + 1 = UNLOCK_MAX_RETRIES
        /\ End(h)
  /\ UNCHANGED <<volume, noup, down, stuck, work>>

---------------------------------------------------------------------------
\* A command fails and the exception is not caught (also when the workaround
\* gives up), or the agent is killed: the next run starts over.
Crash(h) ==
  /\ FailOnce
  /\ pc[h] # "idle"
  /\ End(h)
  /\ UNCHANGED <<cluster, work>>

\* An OSD without the flag comes up; placement groups may get stuck in peering.
Boot(o) ==
  /\ o \in down \ noup
  /\ down' = down \ {o}
  /\ stuck' \in {stuck, TRUE}
  /\ UNCHANGED <<lock, volume, noup, pc, work, command, failures>>

Step(h) ==
  \/ Run(h) \/ Maintain(h)
  \/ EnsureVolume(h) \/ CreateVolume(h) \/ Lock(h) \/ LockRefused(h)
  \/ CheckHealth(h) \/ SetNoup(h) \/ OsdDown(h)
  \/ FindFlagged(h) \/ AllUnset(h) \/ Workaround(h) \/ Unlock(h)
  \/ \E o \in Osd : Unset(h, o)

Failure(h) ==
  LockTimesOut(h) \/ SetNoupFails(h) \/ UnlockTimesOut(h) \/ Crash(h)

Next ==
  \/ \E h \in Host : BecomeDue(h) \/ BecomeLate(h) \/ Step(h) \/ Failure(h)
  \/ \E o \in Osd : Boot(o)

Spec == Init /\ [][Next]_vars

(***************************************************************************)
(* The timer starts the agents again and again, commands end, requests     *)
(* become overdue, and OSDs that may start do so.                          *)
(***************************************************************************)
Fairness ==
  /\ \A h \in Host : WF_vars(Step(h)) /\ WF_vars(BecomeLate(h))
  /\ \A o \in Osd : WF_vars(Boot(o))

FairSpec == Spec /\ Fairness

---------------------------------------------------------------------------
\* Every variable has its type; unlocking is attempted a limited number of times.
TypeOK ==
  /\ lock \in Host \cup {None}
  /\ volume \in BOOLEAN
  /\ noup \subseteq Osd
  /\ down \subseteq Osd
  /\ stuck \in BOOLEAN
  /\ pc \in [Host -> Phase]
  /\ work \in [Host -> {"none", "due", "late"}]
  /\ exit \in [Host -> {"none", "TEMPFAIL", "POSTPONE"}]
  /\ flagged \in [Host -> SUBSET Osd]
  /\ tries \in [Host -> 0 .. UNLOCK_MAX_RETRIES - 1]
  /\ failures \in 0..MaxFailures

\* Only the holder of the lock has OSDs that are flagged, also after locking
\* or unlocking has timed out and after the agent was killed between two steps.
NoupUnderLock == \A o \in noup : lock = HostOf[o]

\* Maintenance never takes down OSDs of two hosts at a time: neither those
\* flagged noup nor those on their way up after the lock was released.
DownOnOneHost == \A o, p \in down : HostOf[o] = HostOf[p]

(***************************************************************************)
(* The hosts keep the promises of TakingTurns: the lock is the turn, and   *)
(* the flag noup keeps an OSD from starting.                               *)
(***************************************************************************)
Turns == INSTANCE TakingTurns WITH turn <- lock, held <- noup

\* A host flags and takes down OSDs, its own, only while it holds the lock and
\* all are up, and the lock is free again only when none is flagged.
TurnsKept == Turns!Spec

\* The cluster does not stay locked, whatever failed in between.
LockReleased == \A h \in Host : lock = h ~> lock # h

\* OSDs that were taken down for maintenance come back.
OsdsReturn == \A o \in Osd : o \in down ~> o \notin down

=============================================================================
