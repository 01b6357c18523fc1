----------------------------- MODULE ReqManager -----------------------------
(***************************************************************************)
(* The maintenance request manager of one machine (fc.maintenance): the    *)
(* fc-maintenance subcommands schedule, run, delete and request ..., as    *)
(* processes that take the spool directory's lock, load the requests, work *)
(* on them in memory and save them one by one, and that may be killed at   *)
(* any step. What survives a kill or a reboot is the spool directory: the  *)
(* requests, the archive and the in_maintenance marker.                    *)
(***************************************************************************)
EXTENDS MaintenanceRequest, FiniteSets

CONSTANTS
  Req,          \* request IDs; each is used for at most one request
  Kind,         \* the activity class of each request
  None,         \* no request
  Flags,        \* the flag combinations fc-maintenance run is called with
  MaxTime,      \* bound: the clock stops here
  MaxAttempts   \* bound: no run is started after that many attempts

(***************************************************************************)
(* ShellScriptActivity, RebootActivity, UpdateActivity, VMChangeActivity.  *)
(***************************************************************************)
Activity == {"script", "reboot", "update", "vm_change"}
Option == [all : BOOLEAN, force : BOOLEAN, online : BOOLEAN]

ASSUME ReqManagerAssumption ==
  /\ Kind \in [Req -> Activity]
  /\ None \notin Req
  /\ Flags \subseteq Option
  /\ MaxTime \in Nat \ {0}
  /\ MaxAttempts \in Nat

VARIABLES
  now,          \* utcnow()
  disk,         \* requests/: what request.yaml holds, per request
  archived,     \* archive/: the state in which a request was moved there
  marker,       \* spooldir/in_maintenance exists
  in_service,   \* the directory's flag for this machine
  known,        \* requests with an open maintenance in the directory
  pc,           \* what the holder of the lock does next; "idle": nobody holds it
  mem,          \* ReqManager.requests of the holder
  opts,         \* its run flags
  todo,         \* the rest of the loop it is in
  cur,          \* the request it works on, or None
  due_dt,       \* update_states' due_dt
  reboot        \* whether an activity that succeeded asked for a reboot

spool   == <<disk, archived>>
service == <<marker, in_service>>
local   == <<opts, cur, due_dt, reboot>>
vars    == <<now, spool, service, known, pc, mem, todo, local>>

Phase ==
  {"idle", "schedule", "times", "significant", "add", "save", "delete",
   "update", "enter", "mark", "commands", "execute", "run", "resume", "record",
   "leave", "unmark", "postpone", "postponing", "archive", "archiving"}

Defaults == [all |-> FALSE, force |-> FALSE, online |-> TRUE]
Nothing == [r \in Req |-> NoRequest]

\* r comes first in sorted(todo)
First(r) ==
  /\ r \in todo
  /\ \A s \in todo : ~Before(mem[s], mem[r])

Keep(r, req) == mem' = [mem EXCEPT ![r] = req]
Store(r, req) == Keep(r, req) /\ disk' = [disk EXCEPT ![r] = req]

Init ==
  /\ now = 1
  /\ disk = Nothing
  /\ archived = [r \in Req |-> "absent"]
  /\ marker = FALSE
  /\ in_service = TRUE
  /\ known = {}
  /\ pc = "idle"
  /\ mem = Nothing
  /\ opts = Defaults
  /\ todo = {}
  /\ cur = None
  /\ due_dt = NoTime
  /\ reboot = FALSE

---------------------------------------------------------------------------
(***************************************************************************)
(* Taking and releasing the lock.                                          *)
(***************************************************************************)

\* __enter__ and scan: directories that cannot be loaded go to the archive.
Scan ==
  LET broken(r) == disk[r] = HalfWritten
  IN  /\ mem' = [r \in Req |-> IF broken(r) THEN NoRequest ELSE disk[r]]
      /\ disk' = mem'
      /\ archived' = [r \in Req |-> IF broken(r) THEN "empty" ELSE archived[r]]

\* The end of the process, whether it returns, raises or is killed.
Exit ==
  /\ pc' = "idle"
  /\ mem' = Nothing
  /\ todo' = {}
  /\ cur' = None
  /\ due_dt' = NoTime
  /\ reboot' = FALSE
  /\ opts' = Defaults

Enter(phase) ==
  /\ pc = "idle"
  /\ Scan
  /\ pc' = phase
  /\ UNCHANGED <<now, service, known, cur, reboot>>

StartSchedule == Enter("schedule") /\ UNCHANGED <<opts, todo, due_dt>>

StartAdd == Enter("add") /\ UNCHANGED <<opts, todo, due_dt>>

StartDelete == Enter("delete") /\ UNCHANGED <<opts, todo, due_dt>>

StartRun(flags) ==
  /\ \A r \in Req : disk[r].attempts < MaxAttempts
  /\ Enter("update")
  /\ opts' = flags
  /\ todo' = {r \in Req : Exists(disk[r])}
  /\ due_dt' = now

(***************************************************************************)
(* The process is killed, the machine crashes, or a call the code does not *)
(* guard raises: the directory is unreachable, a leave command fails, the  *)
(* reboot command fails.                                                   *)
(***************************************************************************)
Crash ==
  /\ pc # "idle"
  /\ Exit
  /\ UNCHANGED <<now, spool, service, known>>

Tick ==
  /\ now < MaxTime
  /\ now' = now + 1
  /\ UNCHANGED <<spool, service, known, pc, mem, todo, local>>

---------------------------------------------------------------------------
(***************************************************************************)
(* schedule: pending requests are sent to the directory, whose answer      *)
(* names the requests it (still) plans, each with a start time or None.    *)
(***************************************************************************)
ScheduleCall ==
  /\ pc = "schedule"
  /\ known' = known \cup {r \in Req : mem[r].state = "pending"}
  /\ todo' \in SUBSET known'
  /\ pc' = "times"
  /\ UNCHANGED <<now, spool, service, mem, local>>

ScheduleResult(r, time) ==
  LET req == update_due(mem[r], time, now)
  IN  /\ pc = "times"
      /\ r \in todo
      /\ Exists(mem[r])
      /\ IF time # mem[r].next_due
         THEN Store(r, req)
         ELSE Keep(r, req) /\ UNCHANGED disk
      /\ todo' = todo \ {r}
      /\ UNCHANGED <<now, archived, service, known, pc, local>>

\* Requests in the answer that are not in the queue have disappeared.
ScheduleEnd ==
  /\ pc = "times"
  /\ \A r \in todo : ~Exists(mem[r])
  /\ known' = known \ todo
  /\ UNCHANGED <<now, spool, service>>
  /\ \/ /\ cur = None
        /\ Exit
     \/ /\ cur # None
        /\ pc' = "significant"
        /\ todo' = {}
        /\ UNCHANGED <<mem, local>>

---------------------------------------------------------------------------
(***************************************************************************)
(* add: the new activity is merged into one of the existing requests,      *)
(* whatever their state, or becomes a request of its own.                  *)
(***************************************************************************)
Mergeable(r) == Exists(mem[r]) /\ Kind[r] # "script"
MayCancelOut(r) == Mergeable(r) /\ Kind[r] \in {"update", "vm_change"}

MergeUpdate(r) ==
  /\ pc = "add"
  /\ Mergeable(r)
  /\ disk' = [disk EXCEPT ![r] = mem[r]]
  /\ pc' = "schedule"
  /\ UNCHANGED <<now, archived, service, known, mem, todo, local>>

MergeSignificantUpdate(r) ==
  /\ pc = "add"
  /\ MayCancelOut(r)
  /\ disk' = [disk EXCEPT ![r] = mem[r]]
  /\ pc' = "schedule"
  /\ cur' = r
  /\ UNCHANGED <<now, archived, service, known, mem, todo, opts, due_dt, reboot>>

\* After the schedule call: the directory is asked to postpone the request.
PostponeSignificant ==
  /\ pc = "significant"
  /\ disk' = [disk EXCEPT ![cur] = mem[cur]]
  /\ Exit
  /\ UNCHANGED <<now, archived, service, known>>

MergeRemove(r) ==
  /\ pc = "add"
  /\ MayCancelOut(r)
  /\ disk' = [disk EXCEPT ![r] = [mem[r] EXCEPT !.state = "deleted"]]
  /\ Exit
  /\ UNCHANGED <<now, archived, service, known>>

\* The activity is not effective, or there is none.
AddNothing ==
  /\ pc = "add"
  /\ Exit
  /\ UNCHANGED <<now, spool, service, known>>

\* _add_request, up to the mkdir in Request.save, and the rest of save.
AddRequest(r) ==
  /\ pc = "add"
  /\ disk[r] = NoRequest
  /\ archived[r] = "absent"
  /\ \A s \in Req : Mergeable(s) => Kind[s] # Kind[r]
  /\ mem' = [mem EXCEPT ![r] = NewRequest]
  /\ disk' = [disk EXCEPT ![r] = HalfWritten]
  /\ cur' = r
  /\ pc' = "save"
  /\ UNCHANGED <<now, archived, service, known, todo, opts, due_dt, reboot>>

SaveRequest ==
  /\ pc = "save"
  /\ disk' = [disk EXCEPT ![cur] = mem[cur]]
  /\ Exit
  /\ UNCHANGED <<now, archived, service, known>>

---------------------------------------------------------------------------
\* delete, with or without --no-archive.
Delete(r) ==
  /\ pc = "delete"
  /\ Exists(mem[r])
  /\ Store(r, [mem[r] EXCEPT !.state = "deleted"])
  /\ pc' = "archive"
  /\ UNCHANGED <<now, archived, service, known, todo, local>>

DeleteNoArchive(r) ==
  /\ pc = "delete"
  /\ Exists(mem[r])
  /\ disk' = [disk EXCEPT ![r].state = "deleted"]
  /\ Exit
  /\ UNCHANGED <<now, archived, service, known>>

\* No request has the given ID.
DeleteSkip ==
  /\ pc = "delete"
  /\ pc' = "archive"
  /\ UNCHANGED <<now, spool, service, known, mem, todo, local>>

---------------------------------------------------------------------------
(***************************************************************************)
(* run, first part: update_states, then execute.                           *)
(***************************************************************************)
UpdateState(r) ==
  LET req == update_state(mem[r], due_dt, now)
  IN  /\ pc = "update"
      /\ First(r)
      /\ Store(r, req)
      /\ todo' = todo \ {r}
      /\ due_dt' = CASE req.state = "due" /\ req.next_due # NoTime ->
                          LaterOf(now, req.next_due + Duration)
                     [] OTHER -> due_dt
      /\ UNCHANGED <<now, archived, service, known, pc, opts, cur, reboot>>

_runnable ==
  {r \in Req : \/ mem[r].state \in {"due", "running"}
               \/ opts.all /\ mem[r].state = "pending"
               \/ opts.all /\ opts.force /\ Exists(mem[r])}

Execute ==
  /\ pc = "update"
  /\ todo = {}
  /\ todo' = _runnable
  /\ pc' = IF _runnable = {} THEN "leave" ELSE "enter"
  /\ UNCHANGED <<now, spool, service, known, mem, local>>

(***************************************************************************)
(* _enter_maintenance: first the directory is told, then the marker is     *)
(* written, then the enter commands are run, all of them.                  *)
(***************************************************************************)
\* A slip: a machine whose marker is there is taken to be out of service.
MarkOutOfService_if_unmarked ==
  /\ pc = "enter"
  /\ in_service' = (in_service /\ (marker \/ ~opts.online))
  /\ pc' = "mark"
  /\ UNCHANGED <<now, spool, marker, known, mem, todo, local>>

MarkOutOfService ==
  /\ pc = "enter"
  /\ in_service' = (in_service /\ ~opts.online)
  /\ pc' = "mark"
  /\ UNCHANGED <<now, spool, marker, known, mem, todo, local>>

WriteMarker ==
  /\ pc = "mark"
  /\ marker' = TRUE
  /\ pc' = "commands"
  /\ UNCHANGED <<now, spool, in_service, known, mem, todo, local>>

EnterSucceeds ==
  /\ pc = "commands"
  /\ pc' = "execute"
  /\ UNCHANGED <<now, spool, service, known, mem, todo, local>>

\* A command exits with EXIT_POSTPONE: _handle_enter_postpone.
EnterPostpone ==
  /\ pc = "commands"
  /\ UNCHANGED <<now, spool, service, known, local>>
  /\ \/ /\ opts.force
        /\ pc' = "execute"
        /\ UNCHANGED <<mem, todo>>
     \/ /\ ~opts.force
        /\ pc' = "leave"
        /\ todo' = {}
        /\ mem' = [r \in Req |-> IF r \in todo /\ ~opts.all
                                 THEN [mem[r] EXCEPT !.state = "postpone"]
                                 ELSE mem[r]]

\* A slip: --run-all-now, too, goes on after a failure.
EnterTempfail_ignored ==
  /\ pc \in {"enter", "commands"}
  /\ pc' = IF opts.force \/ opts.all THEN "execute" ELSE "postpone"
  /\ todo' = IF opts.force \/ opts.all THEN todo ELSE {}
  /\ UNCHANGED <<now, spool, service, known, mem, local>>

\* A command fails, or one exits with EXIT_TEMPFAIL and none with
\* EXIT_POSTPONE, or the call of the directory raises, whether or not the
\* directory has carried it out: _handle_enter_tempfail.
EnterTempfail ==
  /\ \/ pc = "enter" /\ opts.online /\ in_service' \in {in_service, FALSE}
     \/ pc = "commands" /\ UNCHANGED in_service
  /\ pc' = IF opts.force THEN "execute" ELSE "postpone"
  /\ todo' = IF opts.force THEN todo ELSE {}
  /\ UNCHANGED <<now, spool, marker, known, mem, local>>

---------------------------------------------------------------------------
(***************************************************************************)
(* Request.execute for one request after the other.                        *)
(***************************************************************************)
StartAttempt(r) ==
  /\ pc = "execute"
  /\ First(r)
  /\ pc' = IF mem[r].state = "running" THEN "resume" ELSE "run"
  /\ Store(r, start_attempt(mem[r]))
  /\ cur' = r
  /\ todo' = todo \ {r}
  /\ UNCHANGED <<now, archived, service, known, opts, due_dt, reboot>>

\* What Activity.run, or Activity.resume, may return for each class; any of
\* them may raise, too.
run_results(kind) ==
  CASE kind = "script" -> {"SUCCESS", "POSTPONE", "TEMPFAIL", "FAILURE"}
    [] kind = "update" -> {"SUCCESS", "TEMPFAIL", "FAILURE"}
    [] kind \in {"reboot", "vm_change"} -> {"SUCCESS", "FAILURE"}

resume_results(kind) ==
  IF kind \in {"update", "vm_change"} THEN run_results(kind) ELSE {"INTERRUPTED"}

reboot_needed(kind) ==
  CASE kind = "script" -> {FALSE}
    [] kind \in {"update", "vm_change"} -> BOOLEAN
    [] kind = "reboot" -> {TRUE}

FinishAttempt(returncode) ==
  /\ \/ pc = "run" /\ returncode \in run_results(Kind[cur])
     \/ pc = "resume" /\ returncode \in resume_results(Kind[cur])
  /\ Keep(cur, finish_attempt(mem[cur], returncode))
  /\ pc' = "record"
  /\ \/ returncode # "SUCCESS" /\ UNCHANGED reboot
     \/ returncode = "SUCCESS" /\ \E needed \in reboot_needed(Kind[cur]) :
                                    reboot' = (reboot \/ needed)
  /\ UNCHANGED <<now, spool, service, known, todo, opts, cur, due_dt>>

\* The result is saved. When that fails, execute carries on.
Record ==
  /\ pc = "record"
  /\ \/ disk' = [disk EXCEPT ![cur] = mem[cur]]
     \/ UNCHANGED disk
  /\ cur' = None
  /\ pc' = "execute"
  /\ UNCHANGED <<now, archived, service, known, mem, todo, opts, due_dt, reboot>>

\* _reboot_and_exit: postpone and archive are left to the next run.
Reboot ==
  /\ pc = "execute"
  /\ todo = {}
  /\ reboot
  /\ Exit
  /\ UNCHANGED <<now, spool, service, known>>

NoReboot ==
  /\ pc = "execute"
  /\ todo = {}
  /\ ~reboot
  /\ pc' = "leave"
  /\ UNCHANGED <<now, spool, service, known, mem, todo, local>>

---------------------------------------------------------------------------
(***************************************************************************)
(* _leave_maintenance, then postpone and archive.                          *)
(***************************************************************************)
LeaveMaintenance ==
  /\ pc = "leave"
  /\ in_service' = (in_service \/ opts.online)
  /\ pc' = "unmark"
  /\ UNCHANGED <<now, spool, marker, known, mem, todo, local>>

RemoveMarker ==
  /\ pc = "unmark"
  /\ marker' = FALSE
  /\ pc' = "postpone"
  /\ UNCHANGED <<now, spool, in_service, known, mem, todo, local>>

Postpone ==
  LET postponed == {r \in Req : mem[r].state = "postpone"}
  IN  /\ pc = "postpone"
      /\ todo' = postponed
      /\ pc' = IF postponed = {} THEN "archive" ELSE "postponing"
      /\ UNCHANGED <<now, spool, service, known, mem, local>>

ResetDue(r) ==
  /\ pc = "postponing"
  /\ r \in todo
  /\ Store(r, update_due(mem[r], NoTime, now))
  /\ todo' = todo \ {r}
  /\ pc' = IF todo' = {} THEN "archive" ELSE pc
  /\ UNCHANGED <<now, archived, service, known, local>>

\* A slip: the directory is not told.
Archive_untold ==
  LET finished == {r \in Req : Finished(mem[r])}
  IN  /\ pc = "archive"
      /\ UNCHANGED <<now, spool, service, known>>
      /\ IF finished = {} THEN Exit
         ELSE /\ todo' = finished
              /\ pc' = "archiving"
              /\ UNCHANGED <<mem, local>>

Archive ==
  LET finished == {r \in Req : Finished(mem[r])}
  IN  /\ pc = "archive"
      /\ UNCHANGED <<now, spool, service>>
      /\ \/ /\ finished = {}
            /\ Exit
            /\ UNCHANGED known
         \/ /\ finished # {}
            /\ todo' = finished
            /\ known' = IF opts.online THEN known \ finished ELSE known
            /\ pc' = "archiving"
            /\ UNCHANGED <<mem, local>>

\* The rename, and the save that follows it. A kill between the two leaves
\* the last saved version in the archive.
ArchiveRequest(r) ==
  /\ pc = "archiving"
  /\ r \in todo
  /\ archived' = [archived EXCEPT ![r] = mem[r].state]
  /\ disk' = [disk EXCEPT ![r] = NoRequest]
  /\ UNCHANGED <<now, service, known>>
  /\ \/ /\ todo = {r}
        /\ Exit
     \/ /\ todo # {r}
        /\ todo' = todo \ {r}
        /\ UNCHANGED <<pc, mem, local>>

---------------------------------------------------------------------------
Schedule ==
  \/ StartSchedule \/ ScheduleCall \/ ScheduleEnd
  \/ \E r \in Req, time \in {NoTime} \cup 1..MaxTime : ScheduleResult(r, time)

Add ==
  \/ StartAdd \/ AddNothing \/ PostponeSignificant \/ SaveRequest
  \/ \E r \in Req : \/ MergeUpdate(r) \/ MergeSignificantUpdate(r)
                    \/ MergeRemove(r) \/ AddRequest(r)

DeleteCommand ==
  \/ StartDelete \/ DeleteSkip
  \/ \E r \in Req : Delete(r) \/ DeleteNoArchive(r)

Run ==
  \/ \E flags \in Flags : StartRun(flags)
  \/ \E r \in Req : UpdateState(r) \/ StartAttempt(r) \/ ResetDue(r) \/ ArchiveRequest(r)
  \/ \E returncode \in ReturnCode : FinishAttempt(returncode)
  \/ Execute \/ MarkOutOfService \/ WriteMarker
  \/ EnterSucceeds \/ EnterPostpone \/ EnterTempfail
  \/ Record \/ Reboot \/ NoReboot
  \/ LeaveMaintenance \/ RemoveMarker \/ Postpone \/ Archive

Next == Schedule \/ Add \/ DeleteCommand \/ Run \/ Crash \/ Tick

Spec == Init /\ [][Next]_vars

---------------------------------------------------------------------------
(***************************************************************************)
(* Properties                                                              *)
(***************************************************************************)

\* Every variable has its type; the requests in memory are the lock holder's.
TypeOK ==
  /\ now \in 1..MaxTime
  /\ disk \in [Req -> Request]
  /\ archived \in [Req -> State \cup {"absent", "empty"}]
  /\ marker \in BOOLEAN
  /\ in_service \in BOOLEAN
  /\ known \subseteq Req
  /\ pc \in Phase
  /\ mem \in [Req -> Request]
  /\ opts \in Option
  /\ todo \subseteq Req
  /\ cur \in Req \cup {None}
  /\ pc \in {"save", "significant", "run", "resume", "record"} => cur # None
  /\ due_dt \in Nat
  /\ reboot \in BOOLEAN

\* In normal operation Activity.run is called only for the first MaxRetries + 1
\* attempts of a request, where attempts that were cut short, were resumed or
\* whose result `save` lost count like any other: whatever is killed and
\* whichever save fails, all that can come after them is Activity.resume.
RetryLimit ==
  (\A flags \in Flags : ~flags.all) =>
    (pc = "run" => disk[cur].attempts <= MaxRetries + 1)

\* Unless it is forced, an activity runs only between _enter_maintenance and
\* _leave_maintenance: the marker is there and, online, the directory has the
\* machine out of service, whatever earlier runs left behind.
RunsInMaintenance ==
  /\ pc \in {"execute", "run", "resume", "record"}
  /\ ~opts.force
  => marker /\ (opts.online => ~in_service)

(***************************************************************************)
(* The spool directory keeps the promises of RequestLifecycle.             *)
(***************************************************************************)
life == [r \in Req |->
  CASE archived[r] = "empty"        -> "lost"
    [] archived[r] \in State        -> "archived"
    [] disk[r] = HalfWritten        -> "making"
    [] disk[r].state = "running"    -> "running"
    [] Finished(disk[r])            -> "finished"
    [] disk[r].state \in {"pending", "due", "postpone"} -> "waiting"
    [] OTHER                        -> "none"]

Lifecycle == INSTANCE RequestLifecycle WITH
  open    <- known,
  Forced  <- \E flags \in Flags : flags.all /\ flags.force,
  Offline <- \E flags \in Flags : ~flags.online

\* A request that was added stays queued until it is finished and archived;
\* finished ones are not run again unless forced; the directory is told first.
LifecycleKept == Lifecycle!Spec
=============================================================================
