--------------------------- MODULE ReqManagerProofs ---------------------------
(***************************************************************************)
(* Theorems about ReqManager for any set of requests, any retry limit, any *)
(* flags and any bounds.                                                   *)
(***************************************************************************)
EXTENDS ReqManager, TLAPS

---------------------------------------------------------------------------
(***************************************************************************)
(* Lemmas about the operators on requests.                                 *)
(***************************************************************************)

\* Before its first save a request is a request; so is the lack of one.
LEMMA RequestConstants ==
  /\ NoRequest \in Request
  /\ HalfWritten \in Request
  /\ NewRequest \in Request
  BY DEF NoRequest, HalfWritten, NewRequest, Request, State, NoTime

\* update_state changes nothing but the state, neither starts nor stops an
\* attempt, leaves finished requests alone and respects the retry limit.
LEMMA UpdateStateFacts ==
  ASSUME NEW req \in Request, NEW due_dt_ \in Nat, NEW utcnow \in Nat
  PROVE  LET new == update_state(req, due_dt_, utcnow) IN
         /\ new \in Request
         /\ new.next_due = req.next_due
         /\ new.attempts = req.attempts
         /\ new.unfinished = req.unfinished
         /\ new.state = "running" <=> req.state = "running"
         /\ req.state \in ARCHIVE \cup {"absent", "empty"} => new = req
         /\ Exists(new) <=> Exists(req)
         /\ new.state \in ARCHIVE => req.state \in ARCHIVE \cup {"pending", "due", "postpone"}
         /\ new.state = "due" => req.attempts <= MaxRetries
  BY RequestAssumption
  DEF update_state, Request, State, ARCHIVE, NoTime, overdue, Exists

\* update_due sets the start time and leaves the attempts alone, too.
LEMMA UpdateDueFacts ==
  ASSUME NEW req \in Request, NEW due \in Nat, NEW utcnow \in Nat
  PROVE  LET new == update_due(req, due, utcnow) IN
         /\ new \in Request
         /\ new.next_due = due
         /\ new.attempts = req.attempts
         /\ new.unfinished = req.unfinished
         /\ new.state = "running" <=> req.state = "running"
         /\ req.state \in ARCHIVE \cup {"absent", "empty"} => new.state = req.state
         /\ Exists(new) <=> Exists(req)
         /\ new.state \in ARCHIVE => req.state \in ARCHIVE \cup {"pending", "due", "postpone"}
         /\ new.state = "due" => req.attempts <= MaxRetries
<1> DEFINE moved == [req EXCEPT !.next_due = due]
<1>1. /\ moved \in Request
      /\ moved.next_due = due
      /\ moved.state = req.state
      /\ moved.attempts = req.attempts
      /\ moved.unfinished = req.unfinished
  BY DEF Request
<1>2. Exists(moved) <=> Exists(req)
  BY <1>1 DEF Exists
<1>3. update_due(req, due, utcnow) = update_state(moved, utcnow, utcnow)
  BY DEF update_due
<1> HIDE DEF moved
<1> QED
  BY <1>1, <1>2, <1>3, UpdateStateFacts, SMTT(30)

\* An attempt is counted when it starts and gets its returncode when it ends.
LEMMA AttemptFacts ==
  ASSUME NEW req \in Request, NEW returncode \in ReturnCode
  PROVE  /\ LET new == start_attempt(req) IN
            /\ new \in Request
            /\ new.state = "running"
            /\ new.attempts = req.attempts + 1
            /\ new.unfinished = req.unfinished + 1
         /\ req.unfinished > 0 =>
            LET new == finish_attempt(req, returncode) IN
            /\ new \in Request
            /\ new.state \in {"success", "due", "postpone", "error"}
            /\ new.attempts = req.attempts
            /\ new.unfinished = req.unfinished - 1
<1> DEFINE result == evaluate_state(returncode)
           a == req.attempts + 1
           u == req.unfinished + 1
           v == req.unfinished - 1
<1>1. result \in {"success", "due", "postpone", "error"}
  BY DEF ReturnCode, evaluate_state
<1>2. result \in State /\ "running" \in State
  BY <1>1 DEF State
<1>3. /\ a \in Nat /\ u \in Nat
      /\ req.unfinished > 0 => v \in Nat
  BY DEF Request
<1>4. /\ start_attempt(req) = [req EXCEPT !.state = "running", !.attempts = a, !.unfinished = u]
      /\ finish_attempt(req, returncode) = [req EXCEPT !.state = result, !.unfinished = v]
  BY DEF start_attempt, finish_attempt
<1>5. a = req.attempts + 1 /\ u = req.unfinished + 1 /\ v = req.unfinished - 1
  OBVIOUS
<1> HIDE DEF result, a, u, v
<1>6. LET new == [req EXCEPT !.state = "running", !.attempts = a, !.unfinished = u] IN
      /\ new \in Request
      /\ new.state = "running" /\ new.attempts = a /\ new.unfinished = u
  BY <1>2, <1>3 DEF Request
<1>7. /\ start_attempt(req) \in Request
      /\ start_attempt(req).state = "running"
      /\ start_attempt(req).attempts = a
      /\ start_attempt(req).unfinished = u
  BY <1>4, <1>6
<1>8. ASSUME req.unfinished > 0
      PROVE  /\ finish_attempt(req, returncode) \in Request
             /\ finish_attempt(req, returncode).state = result
             /\ finish_attempt(req, returncode).attempts = req.attempts
             /\ finish_attempt(req, returncode).unfinished = v
  <2>1. LET new == [req EXCEPT !.state = result, !.unfinished = v] IN
        /\ new \in Request
        /\ new.state = result /\ new.attempts = req.attempts /\ new.unfinished = v
    BY <1>2, <1>3, <1>8 DEF Request
  <2> QED
    BY <1>4, <2>1
<1> QED
  BY <1>1, <1>5, <1>7, <1>8

---------------------------------------------------------------------------
(***************************************************************************)
(* Types.                                                                  *)
(***************************************************************************)

\* While an activity runs, its request is in state running, and the attempt
\* has no returncode yet.
AttemptOpen ==
  pc \in {"run", "resume"} => mem[cur].state = "running" /\ mem[cur].unfinished > 0

TypeInv == TypeOK /\ AttemptOpen

\* The spool directory of a new machine, without any request, is type correct.
LEMMA TypeInit == Init => TypeInv
<1> SUFFICES ASSUME Init PROVE TypeInv
  OBVIOUS
<1>1. /\ Nothing \in [Req -> Request]
      /\ Defaults \in Option
  BY RequestConstants DEF Nothing, Defaults, Option
<1>2. /\ disk \in [Req -> Request]
      /\ mem \in [Req -> Request]
      /\ opts \in Option
      /\ archived \in [Req -> State \cup {"absent", "empty"}]
      /\ now \in 1..MaxTime
  BY <1>1, ReqManagerAssumption DEF Init
<1>3. /\ marker \in BOOLEAN /\ in_service \in BOOLEAN /\ reboot \in BOOLEAN
      /\ known \subseteq Req /\ todo \subseteq Req
      /\ cur \in Req \cup {None}
      /\ pc = "idle" /\ pc \in Phase
      /\ due_dt \in Nat
  BY DEF Init, Phase, NoTime
<1> QED
  BY <1>2, <1>3 DEF TypeInv, TypeOK, AttemptOpen

\* Saving or keeping a request in memory keeps the types.
LEMMA StoreFacts ==
  ASSUME NEW r \in Req, NEW req \in Request,
         disk \in [Req -> Request], mem \in [Req -> Request]
  PROVE  /\ Keep(r, req) => /\ mem' \in [Req -> Request]
                            /\ mem'[r] = req
                            /\ \A s \in Req \ {r} : mem'[s] = mem[s]
         /\ Store(r, req) => /\ mem' \in [Req -> Request]
                             /\ disk' \in [Req -> Request]
                             /\ mem'[r] = req
                             /\ disk'[r] = req
                             /\ \A s \in Req \ {r} : mem'[s] = mem[s] /\ disk'[s] = disk[s]
  BY DEF Keep, Store

\* A process that has ended holds nothing.
LEMMA ExitFacts ==
  Exit => /\ pc' = "idle"
          /\ mem' = Nothing
          /\ mem' \in [Req -> Request]
          /\ todo' = {}
          /\ cur' = None
          /\ due_dt' \in Nat
          /\ reboot' = FALSE
          /\ opts' = Defaults
          /\ opts' \in Option
  BY RequestConstants DEF Exit, Nothing, Defaults, Option, NoTime

\* Taking the lock loads what is on disk, except what cannot be loaded.
LEMMA ScanFacts ==
  ASSUME TypeOK, Scan
  PROVE  /\ mem' \in [Req -> Request]
         /\ disk' = mem'
         /\ archived' \in [Req -> State \cup {"absent", "empty"}]
         /\ \A r \in Req : mem'[r] = IF disk[r] = HalfWritten THEN NoRequest ELSE disk[r]
  BY RequestConstants DEF TypeOK, Scan

\* Changing nothing but its state leaves a request a request.
LEMMA RecordFacts ==
  ASSUME NEW req \in Request, NEW state \in State
  PROVE  /\ [req EXCEPT !.state = state] \in Request
         /\ [req EXCEPT !.state = state].state = state
         /\ [req EXCEPT !.state = state].next_due = req.next_due
         /\ [req EXCEPT !.state = state].attempts = req.attempts
         /\ [req EXCEPT !.state = state].unfinished = req.unfinished
  BY DEF Request

\* Scheduling keeps the types: the directory may move or leave out any request.
LEMMA TypeSchedule == TypeInv /\ Schedule => TypeInv'
<1> SUFFICES ASSUME TypeInv, Schedule PROVE TypeInv'
  OBVIOUS
<1> USE DEF TypeInv, TypeOK, AttemptOpen, service, spool, local
<1>1. CASE StartSchedule
  BY <1>1, ScanFacts DEF StartSchedule, Enter, Phase
<1>2. CASE ScheduleCall
  BY <1>2 DEF ScheduleCall, Phase
<1>3. CASE ScheduleEnd
  BY <1>3, ExitFacts DEF ScheduleEnd, Phase
<1>4. ASSUME NEW r \in Req, NEW time \in {NoTime} \cup 1..MaxTime, ScheduleResult(r, time)
      PROVE  TypeInv'
  <2>1. update_due(mem[r], time, now) \in Request
    BY ReqManagerAssumption, UpdateDueFacts DEF NoTime
  <2>2. mem' \in [Req -> Request] /\ disk' \in [Req -> Request]
    BY <1>4, <2>1, StoreFacts DEF ScheduleResult
  <2> QED
    BY <1>4, <2>2 DEF ScheduleResult, Phase
<1> QED
  BY <1>1, <1>2, <1>3, <1>4 DEF Schedule

\* Adding and merging requests keep the types, also where two requests become one.
LEMMA TypeAdd == TypeInv /\ Add => TypeInv'
<1> SUFFICES ASSUME TypeInv, Add PROVE TypeInv'
  OBVIOUS
<1> USE DEF TypeInv, TypeOK, AttemptOpen, service, spool, local
<1>1. CASE StartAdd
  BY <1>1, ScanFacts DEF StartAdd, Enter, Phase
<1>2. CASE AddNothing
  BY <1>2, ExitFacts DEF AddNothing, Phase
<1>3. CASE PostponeSignificant
  BY <1>3, ExitFacts DEF PostponeSignificant, Phase
<1>4. CASE SaveRequest
  BY <1>4, ExitFacts DEF SaveRequest, Phase
<1>5. ASSUME NEW r \in Req, MergeUpdate(r) PROVE TypeInv'
  BY <1>5 DEF MergeUpdate, Phase
<1>6. ASSUME NEW r \in Req, MergeSignificantUpdate(r) PROVE TypeInv'
  BY <1>6 DEF MergeSignificantUpdate, Phase
<1>7. ASSUME NEW r \in Req, MergeRemove(r) PROVE TypeInv'
  <2>1. [mem[r] EXCEPT !.state = "deleted"] \in Request
    BY RecordFacts DEF State
  <2> QED
    BY <1>7, <2>1, ExitFacts DEF MergeRemove, Phase
<1>8. ASSUME NEW r \in Req, AddRequest(r) PROVE TypeInv'
  BY <1>8, RequestConstants, ReqManagerAssumption DEF AddRequest, Phase
<1> QED
  BY <1>1, <1>2, <1>3, <1>4, <1>5, <1>6, <1>7, <1>8 DEF Add

\* Deleting requests keeps the types.
LEMMA TypeDelete == TypeInv /\ DeleteCommand => TypeInv'
<1> SUFFICES ASSUME TypeInv, DeleteCommand PROVE TypeInv'
  OBVIOUS
<1> USE DEF TypeInv, TypeOK, AttemptOpen, service, spool, local
<1>1. CASE StartDelete
  BY <1>1, ScanFacts DEF StartDelete, Enter, Phase
<1>2. CASE DeleteSkip
  BY <1>2 DEF DeleteSkip, Phase
<1>3. ASSUME NEW r \in Req, Delete(r) PROVE TypeInv'
  <2>1. [mem[r] EXCEPT !.state = "deleted"] \in Request
    BY RecordFacts DEF State
  <2>2. mem' \in [Req -> Request] /\ disk' \in [Req -> Request]
    BY <1>3, <2>1, StoreFacts DEF Delete
  <2> QED
    BY <1>3, <2>2 DEF Delete, Phase
<1>4. ASSUME NEW r \in Req, DeleteNoArchive(r) PROVE TypeInv'
  <2>1. [disk[r] EXCEPT !.state = "deleted"] \in Request
    BY RecordFacts DEF State
  <2>2. disk' = [disk EXCEPT ![r] = [disk[r] EXCEPT !.state = "deleted"]]
    BY <1>4 DEF DeleteNoArchive
  <2> QED
    BY <1>4, <2>1, <2>2, ExitFacts DEF DeleteNoArchive, Phase
<1> QED
  BY <1>1, <1>2, <1>3, <1>4 DEF DeleteCommand

\* A run, from updating states to archiving, keeps the types.
LEMMA TypeRun == TypeInv /\ Run => TypeInv'
<1> SUFFICES ASSUME TypeInv, Run PROVE TypeInv'
  OBVIOUS
<1> USE DEF TypeInv, TypeOK, AttemptOpen, service, spool, local
<1>1. ASSUME NEW flags \in Flags, StartRun(flags) PROVE TypeInv'
  <2>1. flags \in Option
    BY ReqManagerAssumption
  <2> QED
    BY <1>1, <2>1, ScanFacts DEF StartRun, Enter, Phase
<1>2. ASSUME NEW r \in Req, UpdateState(r) PROVE TypeInv'
  <2> DEFINE req == update_state(mem[r], due_dt, now)
  <2>1. req \in Request
    BY UpdateStateFacts
  <2>2. mem' \in [Req -> Request] /\ disk' \in [Req -> Request]
    BY <1>2, <2>1, StoreFacts DEF UpdateState
  <2>3. due_dt' \in Nat
    <3>1. /\ due_dt' = CASE req.state = "due" /\ req.next_due # NoTime ->
                              LaterOf(now, req.next_due + Duration)
                         [] OTHER -> due_dt
          /\ req.next_due \in Nat
      BY <1>2, <2>1 DEF UpdateState, Request
    <3> HIDE DEF req
    <3> QED
      BY <3>1, RequestAssumption DEF LaterOf
  <2> QED
    BY <1>2, <2>2, <2>3 DEF UpdateState, Phase
<1>3. ASSUME NEW r \in Req, StartAttempt(r) PROVE TypeInv'
  <2>1. /\ start_attempt(mem[r]) \in Request
        /\ start_attempt(mem[r]).state = "running"
        /\ start_attempt(mem[r]).unfinished = mem[r].unfinished + 1
        /\ mem[r].unfinished \in Nat
    BY AttemptFacts DEF ReturnCode, Request
  <2>2. /\ mem' \in [Req -> Request] /\ disk' \in [Req -> Request]
        /\ mem'[r] = start_attempt(mem[r])
    BY <1>3, <2>1, StoreFacts DEF StartAttempt
  <2>3. AttemptOpen' /\ pc' \in Phase /\ cur' = r /\ todo' \subseteq Req
    BY <1>3, <2>1, <2>2 DEF StartAttempt, Phase
  <2> QED
    BY <1>3, ReqManagerAssumption, <2>2, <2>3 DEF StartAttempt
<1>4. ASSUME NEW r \in Req, ResetDue(r) PROVE TypeInv'
  <2>1. update_due(mem[r], NoTime, now) \in Request
    BY UpdateDueFacts DEF NoTime
  <2>2. mem' \in [Req -> Request] /\ disk' \in [Req -> Request]
    BY <1>4, <2>1, StoreFacts DEF ResetDue
  <2> QED
    BY <1>4, <2>2 DEF ResetDue, Phase
<1>5. ASSUME NEW r \in Req, ArchiveRequest(r) PROVE TypeInv'
  <2>1. disk' \in [Req -> Request] /\ archived' \in [Req -> State \cup {"absent", "empty"}]
    BY <1>5, RequestConstants DEF ArchiveRequest, Request
  <2> QED
    BY <1>5, <2>1, ExitFacts DEF ArchiveRequest, Phase
<1>6. ASSUME NEW returncode \in ReturnCode, FinishAttempt(returncode) PROVE TypeInv'
  <2>1. /\ pc \in {"run", "resume"}
        /\ cur \in Req
    BY <1>6 DEF FinishAttempt
  <2>2. finish_attempt(mem[cur], returncode) \in Request
    BY <2>1, AttemptFacts
  <2>3. mem' \in [Req -> Request]
    BY <1>6, <2>1, <2>2, StoreFacts DEF FinishAttempt
  <2>4. reboot' \in BOOLEAN
    BY <1>6 DEF FinishAttempt
  <2> QED
    BY <1>6, <2>1, <2>3, <2>4 DEF FinishAttempt, Phase
<1>7. CASE Execute
  BY <1>7 DEF Execute, _runnable, Phase
<1>8. CASE MarkOutOfService \/ LeaveMaintenance
  BY <1>8 DEF MarkOutOfService, LeaveMaintenance, Phase
<1>9. CASE WriteMarker \/ RemoveMarker
  BY <1>9 DEF WriteMarker, RemoveMarker, Phase
<1>10. CASE EnterSucceeds
  BY <1>10 DEF EnterSucceeds, Phase
<1>11. CASE EnterPostpone
  <2>1. \A r \in Req : [mem[r] EXCEPT !.state = "postpone"] \in Request
    BY RecordFacts DEF State
  <2>2. mem' \in [Req -> Request]
    BY <1>11, <2>1 DEF EnterPostpone
  <2> QED
    BY <1>11, <2>2 DEF EnterPostpone, Phase
<1>12. CASE EnterTempfail
  BY <1>12 DEF EnterTempfail, Phase
<1>13. CASE Record
  BY <1>13 DEF Record, Phase
<1>14. CASE Reboot
  BY <1>14, ExitFacts DEF Reboot, Phase
<1>15. CASE NoReboot
  BY <1>15 DEF NoReboot, Phase
<1>16. CASE Postpone
  BY <1>16 DEF Postpone, Phase
<1>17. CASE Archive
  BY <1>17, ExitFacts DEF Archive, Phase
<1> QED
  BY <1>1, <1>2, <1>3, <1>4, <1>5, <1>6, <1>7, <1>8, <1>9, <1>10, <1>11, <1>12, <1>13,
     <1>14, <1>15, <1>16, <1>17 DEF Run

\* Every step, also a kill and the clock, keeps the types.
LEMMA TypeStep == TypeInv /\ [Next]_vars => TypeInv'
<1> SUFFICES ASSUME TypeInv, [Next]_vars PROVE TypeInv'
  OBVIOUS
<1>1. CASE Crash
  BY <1>1, ExitFacts
  DEF Crash, TypeInv, TypeOK, AttemptOpen, service, spool, local, Phase
<1>2. CASE Tick
  BY <1>2, ReqManagerAssumption DEF Tick, TypeInv, TypeOK, AttemptOpen, service, spool, local
<1>3. CASE UNCHANGED vars
  BY <1>3 DEF vars, TypeInv, TypeOK, AttemptOpen, service, spool, local
<1> QED
  BY <1>1, <1>2, <1>3, TypeSchedule, TypeAdd, TypeDelete, TypeRun DEF Next

\* Whatever the requests and the flags are, and wherever the process is killed,
\* every variable keeps its type; in particular an activity's result always
\* goes to an attempt that is still without one.
THEOREM TypeCorrect == Spec => []TypeOK
<1>1. Spec => []TypeInv
  BY TypeInit, TypeStep, PTL DEF Spec
<1>2. TypeInv => TypeOK
  BY DEF TypeInv
<1> QED
  BY <1>1, <1>2, PTL

---------------------------------------------------------------------------
(***************************************************************************)
(* Activities run in maintenance mode.                                     *)
(***************************************************************************)

\* What _enter_maintenance has achieved so far: once the directory has been
\* told, the machine is out of service; before the commands run, the marker
\* is there.
Entering ==
  /\ pc \in {"mark", "commands"} /\ opts.online => ~in_service
  /\ pc = "commands" => marker

EnteredInv == Entering /\ RunsInMaintenance

\* No step runs an activity, nor gets to where one is run, outside of maintenance.
LEMMA EnteredStep == EnteredInv /\ [Next]_vars => EnteredInv'
<1> SUFFICES ASSUME EnteredInv, [Next]_vars PROVE EnteredInv'
  OBVIOUS
<1> USE DEF EnteredInv, Entering, RunsInMaintenance, service, spool, local
<1>1. CASE Schedule
  BY <1>1, ExitFacts
  DEF Schedule, StartSchedule, Enter, ScheduleCall, ScheduleEnd, ScheduleResult
<1>2. CASE Add
  BY <1>2, ExitFacts
  DEF Add, StartAdd, Enter, AddNothing, PostponeSignificant, SaveRequest, MergeUpdate,
      MergeSignificantUpdate, MergeRemove, AddRequest
<1>3. CASE DeleteCommand
  BY <1>3, ExitFacts
  DEF DeleteCommand, StartDelete, Enter, DeleteSkip, Delete, DeleteNoArchive
<1>4. CASE Run
  <2>1. CASE \E flags \in Flags : StartRun(flags)
    BY <2>1 DEF StartRun, Enter
  <2>2. CASE \E r \in Req : UpdateState(r) \/ ResetDue(r) \/ ArchiveRequest(r)
    BY <2>2, ExitFacts DEF UpdateState, ResetDue, ArchiveRequest
  <2>3. CASE Execute \/ WriteMarker \/ EnterSucceeds
    BY <2>3 DEF Execute, WriteMarker, EnterSucceeds
  <2>9. CASE MarkOutOfService
    <3>1. opts' = opts /\ pc' = "mark"
      BY <2>9 DEF MarkOutOfService
    <3>2. opts.online => ~in_service'
      BY <2>9, Zenon DEF MarkOutOfService
    <3> QED
      BY <3>1, <3>2
  <2>4. CASE EnterPostpone \/ EnterTempfail
    \* Only a forced run goes on to execute.
    BY <2>4 DEF EnterPostpone, EnterTempfail
  <2>5. CASE \E r \in Req : StartAttempt(r)
    BY <2>5 DEF StartAttempt
  <2>6. CASE \E returncode \in ReturnCode : FinishAttempt(returncode)
    BY <2>6 DEF FinishAttempt
  <2>7. CASE Record \/ Reboot \/ NoReboot
    BY <2>7, ExitFacts DEF Record, Reboot, NoReboot
  <2>8. CASE LeaveMaintenance \/ RemoveMarker \/ Postpone \/ Archive
    BY <2>8, ExitFacts DEF LeaveMaintenance, RemoveMarker, Postpone, Archive
  <2> QED
    BY <1>4, <2>1, <2>2, <2>3, <2>4, <2>5, <2>6, <2>7, <2>8, <2>9 DEF Run
<1>5. CASE Crash
  BY <1>5, ExitFacts DEF Crash
<1>6. CASE Tick
  BY <1>6 DEF Tick
<1>7. CASE UNCHANGED vars
  BY <1>7 DEF vars
<1> QED
  BY <1>1, <1>2, <1>3, <1>4, <1>5, <1>6, <1>7 DEF Next

\* No activity runs, unless --force is given, before the directory has the
\* machine out of service and the marker is written: neither a kill in the
\* middle of entering nor a marker or a service state left behind by an
\* earlier process opens a way around it.
THEOREM RunsInMaintenanceHolds == Spec => []RunsInMaintenance
<1>1. Init => EnteredInv
  BY DEF Init, EnteredInv, Entering, RunsInMaintenance
<1>2. Spec => []EnteredInv
  BY <1>1, EnteredStep, PTL DEF Spec
<1>3. EnteredInv => RunsInMaintenance
  BY DEF EnteredInv
<1> QED
  BY <1>2, <1>3, PTL

---------------------------------------------------------------------------
(***************************************************************************)
(* The retry limit.                                                        *)
(***************************************************************************)
NeverAll == \A flags \in Flags : ~flags.all

\* update_states has stopped every request that used up its retries before the
\* runnable ones are picked; those picked are resumed, or have a retry left
\* when their turn comes.
Retriable(req) == req.state = "running" \/ req.attempts <= MaxRetries

RetryInv ==
  /\ ~opts.all
  /\ pc = "update" =>
       \A r \in Req \ todo : mem[r].state = "due" => mem[r].attempts <= MaxRetries
  /\ pc \in {"enter", "mark", "commands", "execute", "run", "resume", "record"} =>
       \A r \in todo : Retriable(mem[r])
  /\ pc \in {"run", "resume", "record"} => cur \notin todo
  /\ pc = "run" => disk[cur].attempts <= MaxRetries + 1

\* Nothing is asked of a spool directory nobody works on.
LEMMA RetryExit == Exit => RetryInv'
  BY ExitFacts DEF RetryInv, Defaults

\* Starting an attempt: only the request started changes, in memory and on disk.
LEMMA RetryStart ==
  ASSUME TypeInv, RetryInv, NEW r \in Req, StartAttempt(r)
  PROVE  RetryInv'
<1> DEFINE req == start_attempt(mem[r])
<1>1. /\ disk \in [Req -> Request] /\ mem \in [Req -> Request] /\ todo \subseteq Req
      /\ mem[r].attempts \in Nat
  BY DEF TypeInv, TypeOK, Request
<1>2. req \in Request /\ req.attempts = mem[r].attempts + 1
  BY <1>1, AttemptFacts DEF ReturnCode
<1>3. Store(r, req) /\ r \in todo
  BY DEF StartAttempt, First
<1> HIDE DEF req
<1>4. /\ disk'[r] = req
      /\ \A s \in Req \ {r} : mem'[s] = mem[s]
  BY <1>1, <1>2, <1>3, StoreFacts
<1>5. Retriable(mem[r])
  BY <1>3 DEF StartAttempt, RetryInv
<1>6. pc' = "run" => disk'[cur'].attempts <= MaxRetries + 1
  BY <1>1, <1>2, <1>4, <1>5, RequestAssumption DEF StartAttempt, Retriable
<1>7. \A s \in todo' : Retriable(mem'[s])
  BY <1>1, <1>4 DEF StartAttempt, RetryInv
<1> QED
  BY <1>6, <1>7 DEF StartAttempt, RetryInv

\* The run command keeps the retry limit.
LEMMA RetryRun == NeverAll /\ TypeInv /\ RetryInv /\ Run => RetryInv'
<1> SUFFICES ASSUME NeverAll, TypeInv, RetryInv, Run PROVE RetryInv'
  OBVIOUS
<1> USE DEF local, spool
<1>0. /\ disk \in [Req -> Request] /\ mem \in [Req -> Request]
      /\ todo \subseteq Req
  BY DEF TypeInv, TypeOK
<1>1. ASSUME NEW flags \in Flags, StartRun(flags) PROVE RetryInv'
  <2>1. ~opts'.all
    BY <1>1 DEF StartRun, NeverAll
  <2>2. \A r \in Req : mem'[r] = IF disk[r] = HalfWritten THEN NoRequest ELSE disk[r]
    BY <1>1, ScanFacts DEF StartRun, Enter, TypeInv
  <2>3. \A r \in Req \ todo' : mem'[r].state # "due"
    BY <1>0, <1>1, <2>2 DEF StartRun, Exists, State, NoRequest, HalfWritten
  <2> QED
    BY <1>1, <2>1, <2>3 DEF StartRun, Enter, RetryInv
<1>2. ASSUME NEW r \in Req, UpdateState(r) PROVE RetryInv'
  <2> DEFINE req == update_state(mem[r], due_dt, now)
  <2>1. /\ req \in Request
        /\ req.attempts = mem[r].attempts
        /\ req.state = "due" => mem[r].attempts <= MaxRetries
    BY UpdateStateFacts, ReqManagerAssumption DEF TypeInv, TypeOK
  <2>2. Store(r, req)
    BY <1>2 DEF UpdateState
  <2> HIDE DEF req
  <2>3. \A s \in Req : mem'[s] = IF s = r THEN req ELSE mem[s]
    BY <1>0, <2>1, <2>2, StoreFacts
  <2>4. \A s \in Req \ todo' : mem'[s].state = "due" => mem'[s].attempts <= MaxRetries
    BY <1>2, <2>1, <2>3 DEF UpdateState, RetryInv
  <2> QED
    BY <1>2, <2>4 DEF UpdateState, RetryInv
<1>3. ASSUME NEW r \in Req, StartAttempt(r) PROVE RetryInv'
  BY <1>3, RetryStart
<1>4. ASSUME NEW r \in Req, ResetDue(r) PROVE RetryInv'
  BY <1>4 DEF ResetDue, RetryInv
<1>5. ASSUME NEW r \in Req, ArchiveRequest(r) PROVE RetryInv'
  BY <1>5, RetryExit DEF ArchiveRequest, RetryInv
<1>6. ASSUME NEW returncode \in ReturnCode, FinishAttempt(returncode) PROVE RetryInv'
  <2>1. \A s \in Req \ {cur} : mem'[s] = mem[s]
    BY <1>0, <1>6 DEF FinishAttempt, Keep
  <2>2. \A s \in todo' : Retriable(mem'[s])
    BY <1>0, <1>6, <2>1 DEF FinishAttempt, RetryInv
  <2> QED
    BY <1>6, <2>2 DEF FinishAttempt, RetryInv
<1>7. CASE Execute
  <2>1. \A r \in _runnable : Retriable(mem[r])
    BY <1>7 DEF _runnable, Execute, RetryInv, Retriable
  <2> QED
    BY <1>7, <2>1 DEF Execute, RetryInv
<1>8. CASE MarkOutOfService \/ WriteMarker \/ EnterSucceeds \/ EnterTempfail
  BY <1>8 DEF MarkOutOfService, WriteMarker, EnterSucceeds, EnterTempfail, RetryInv
<1>9. CASE EnterPostpone
  BY <1>9 DEF EnterPostpone, RetryInv
<1>10. CASE Record
  BY <1>10 DEF Record, RetryInv
<1>11. CASE Reboot
  BY <1>11, RetryExit DEF Reboot
<1>12. CASE NoReboot \/ LeaveMaintenance \/ RemoveMarker \/ Postpone
  BY <1>12 DEF NoReboot, LeaveMaintenance, RemoveMarker, Postpone, RetryInv
<1>13. CASE Archive
  BY <1>13, RetryExit DEF Archive, RetryInv
<1> QED
  BY <1>1, <1>2, <1>3, <1>4, <1>5, <1>6, <1>7, <1>8, <1>9, <1>10, <1>11, <1>12, <1>13 DEF Run

\* The other commands run no activity.
LEMMA RetryOthers ==
  TypeInv /\ RetryInv /\ (Schedule \/ Add \/ DeleteCommand \/ Crash \/ Tick) => RetryInv'
<1> SUFFICES ASSUME TypeInv, RetryInv,
                    Schedule \/ Add \/ DeleteCommand \/ Crash \/ Tick
             PROVE  RetryInv'
  OBVIOUS
<1> USE DEF local, spool
<1>1. CASE Schedule
  BY <1>1, RetryExit
  DEF Schedule, StartSchedule, Enter, ScheduleCall, ScheduleResult, ScheduleEnd, RetryInv
<1>2. CASE Add
  BY <1>2, RetryExit
  DEF Add, StartAdd, Enter, AddNothing, PostponeSignificant, SaveRequest, MergeUpdate,
      MergeSignificantUpdate, MergeRemove, AddRequest, RetryInv
<1>3. CASE DeleteCommand
  BY <1>3, RetryExit
  DEF DeleteCommand, StartDelete, Enter, DeleteSkip, Delete, DeleteNoArchive, RetryInv
<1>4. CASE Crash
  BY <1>4, RetryExit DEF Crash
<1>5. CASE Tick
  BY <1>5 DEF Tick, RetryInv
<1> QED
  BY <1>1, <1>2, <1>3, <1>4, <1>5

\* Activity.run is called for the first MaxRetries + 1 attempts only: update_states
\* makes a request due only while its list of attempts leaves it a retry, and an
\* attempt is in that list, on disk, before its activity is called.
THEOREM RetryLimitHolds == Spec => []RetryLimit
<1>1. NeverAll /\ TypeInv /\ RetryInv /\ [Next]_vars => RetryInv'
  <2> SUFFICES ASSUME NeverAll, TypeInv, RetryInv, [Next]_vars PROVE RetryInv'
    OBVIOUS
  <2>1. CASE UNCHANGED vars
    BY <2>1 DEF vars, spool, local, RetryInv, Retriable
  <2> QED
    BY <2>1, RetryOthers, RetryRun DEF Next
<1>2. Init => RetryInv
  BY DEF Init, RetryInv, Defaults
<1>3. RetryInv => RetryLimit
  BY DEF RetryInv, RetryLimit
<1>4. ~NeverAll => RetryLimit
  BY DEF NeverAll, RetryLimit
<1>5. CASE NeverAll
  <2>1. TypeInv /\ RetryInv /\ [Next]_vars => RetryInv'
    BY <1>1, <1>5
  <2> QED
    BY <1>2, <1>3, <2>1, TypeInit, TypeStep, PTL DEF Spec
<1>6. CASE ~NeverAll
  <2>1. RetryLimit
    BY <1>4, <1>6
  <2> QED
    BY <2>1, PTL
<1> QED
  BY <1>5, <1>6

---------------------------------------------------------------------------
(***************************************************************************)
(* The spool directory keeps the promises of RequestLifecycle.             *)
(***************************************************************************)
Forced == \E flags \in Flags : flags.all /\ flags.force
Waiting(req) == req.state \in {"pending", "due", "postpone"}

\* What is archived has left the queue.
Placed == \A r \in Req : archived[r] # "absent" => disk[r] = NoRequest

\* The directory was told only of requests that are queued or archived.
Announced ==
  \A r \in known : \/ archived[r] \in State
                   \/ archived[r] = "absent" /\ Exists(disk[r])

\* At most one directory is without a request.yaml: that of the request which
\* is being saved, or was when its process was killed.
Half ==
  /\ \A r, s \in Req : disk[r] = HalfWritten /\ disk[s] = HalfWritten => r = s
  /\ pc \notin {"idle", "save"} => \A r \in Req : disk[r] # HalfWritten
  /\ pc = "save" => mem[cur] = NewRequest /\ disk[cur] = HalfWritten

\* How a request in memory may differ from the saved one: after the directory's
\* answer, and once the enter commands have run.
Moved(r) == Waiting(disk[r]) /\ (Waiting(mem[r]) \/ Finished(mem[r]))
Unsaved(r) ==
  \/ Waiting(disk[r]) /\ Waiting(mem[r])
  \/ disk[r].state = "running" /\ (Waiting(mem[r]) \/ Finished(mem[r]))

Working ==
  /\ pc \in {"schedule", "add", "delete", "update", "enter", "mark", "commands"} => mem = disk
  /\ pc \in {"times", "significant"} => \A r \in Req : mem[r] = disk[r] \/ Moved(r)
  /\ pc \in {"execute", "run", "resume", "record", "leave", "unmark", "postpone",
             "postponing", "archive"} =>
       \A r \in Req : mem[r] = disk[r] \/ Unsaved(r)

\* What the loops have still to do.
Loop ==
  /\ opts \in Flags \cup {Defaults}
  /\ pc = "times" => todo \subseteq known
  /\ pc \in {"enter", "mark", "commands", "execute", "run", "resume", "record"} =>
       todo \subseteq _runnable
  /\ pc \in {"execute", "run", "resume", "record"} => \A r \in todo : mem[r] = disk[r]
  /\ pc \in {"run", "resume", "record"} => cur \notin todo
  /\ pc \in {"run", "resume"} => mem[cur] = disk[cur]
  /\ pc = "postponing" => \A r \in todo : mem[r].state = "postpone"
  /\ pc = "archiving" => \A r \in todo : /\ mem[r] = disk[r] \/ Unsaved(r)
                                         /\ Finished(mem[r])
                                         /\ opts.online => r \notin known

LifeInv == Placed /\ Announced /\ Half /\ Working /\ Loop

LifeOf(a, d) ==
  CASE a = "empty"        -> "lost"
    [] a \in State        -> "archived"
    [] d = HalfWritten    -> "making"
    [] d.state = "running" -> "running"
    [] Finished(d)        -> "finished"
    [] Waiting(d)         -> "waiting"
    [] OTHER              -> "none"

\* How far a request has got can be told from its directories.
LEMMA LifeFacts ==
  /\ life = [r \in Req |-> LifeOf(archived[r], disk[r])]
  /\ LifeOf("empty", NoRequest) = "lost"
  /\ \A state \in State : LifeOf(state, NoRequest) = "archived"
  /\ LifeOf("absent", NoRequest) = "none"
  /\ LifeOf("absent", HalfWritten) = "making"
  /\ LifeOf("absent", NewRequest) = "waiting"
  /\ \A d \in Request :
       /\ Waiting(d) => LifeOf("absent", d) = "waiting"
       /\ d.state = "running" => LifeOf("absent", d) = "running"
       /\ Finished(d) => LifeOf("absent", d) = "finished"
<1>1. life = [r \in Req |-> LifeOf(archived[r], disk[r])]
  BY DEF life, LifeOf, Waiting
<1>2. /\ "absent" \notin State /\ "empty" \notin State /\ "absent" # "empty"
      /\ NoRequest.state = "absent" /\ HalfWritten.state = "empty" /\ NewRequest.state = "pending"
      /\ NoRequest # HalfWritten /\ NewRequest # HalfWritten
  BY DEF State, NoRequest, HalfWritten, NewRequest
<1>3. \A d \in Request : Waiting(d) \/ d.state = "running" \/ Finished(d) => d # HalfWritten
  BY <1>2 DEF Waiting, Finished, ARCHIVE
<1> QED
  BY <1>1, <1>2, <1>3, Zenon DEF LifeOf, Waiting, Finished, ARCHIVE

Leads(req, new) ==
  \/ Waiting(req) /\ (Waiting(new) \/ new.state = "running" \/ Finished(new))
  \/ req.state = "running" /\ Exists(new)
  \/ Finished(req) /\ (Finished(new) \/ (Forced /\ new.state = "running"))

\* A request that exists waits, is running or is finished.
LEMMA StateCases ==
  \A req : Exists(req) <=> Waiting(req) \/ req.state = "running" \/ Finished(req)
  BY DEF Exists, Waiting, Finished, State, ARCHIVE

\* Where neither the spool directory nor the directory changes, nothing happens
\* to any request.
LEMMA Quiet ==
  ASSUME UNCHANGED <<disk, archived, known>>
  PROVE  [Lifecycle!Next]_Lifecycle!vars
  BY DEF life, Lifecycle!vars

\* What a change of one request's directories does to its life.
LEMMA OneChange ==
  ASSUME TypeInv, NEW r \in Req, NEW a, NEW d,
         archived' = [archived EXCEPT ![r] = a], disk' = [disk EXCEPT ![r] = d]
  PROVE  life' = [life EXCEPT ![r] = LifeOf(a, d)]
<1>1. /\ life = [s \in Req |-> LifeOf(archived[s], disk[s])]
      /\ life' = [s \in Req |-> LifeOf(archived'[s], disk'[s])]
  BY LifeFacts DEF life, LifeOf, Waiting
<1>2. \A s \in Req : LifeOf(archived'[s], disk'[s]) =
                       IF s = r THEN LifeOf(a, d) ELSE LifeOf(archived[s], disk[s])
  BY DEF TypeInv, TypeOK
<1> QED
  BY <1>1, <1>2

\* Saving a queued request in a state that its last one leads to is a step, or
\* no step at all, of its life; the request stays where it is.
LEMMA SaveKeeps ==
  ASSUME TypeInv, LifeInv, NEW r \in Req, NEW d \in Request, Leads(disk[r], d),
         disk' = [disk EXCEPT ![r] = d], UNCHANGED <<archived, known>>
  PROVE  /\ [Lifecycle!Next]_Lifecycle!vars
         /\ Placed' /\ Announced'
         /\ \A s \in Req : disk'[s] = HalfWritten <=> disk[s] = HalfWritten
<1>0. disk \in [Req -> Request] /\ archived \in [Req -> State \cup {"absent", "empty"}]
  BY DEF TypeInv, TypeOK
<1>1. Exists(disk[r]) /\ Exists(d)
  BY StateCases DEF Leads
<1>2. ~Exists(NoRequest) /\ ~Exists(HalfWritten)
  BY DEF Exists, NoRequest, HalfWritten, State
<1>3. archived[r] = "absent"
  BY <1>1, <1>2 DEF LifeInv, Placed
<1>4. life' = [life EXCEPT ![r] = LifeOf("absent", d)]
  <2>1. archived' = [archived EXCEPT ![r] = "absent"]
    BY <1>0, <1>3
  <2> QED
    BY <2>1, OneChange
<1>5. life[r] = LifeOf("absent", disk[r]) /\ life = [life EXCEPT ![r] = life[r]]
  BY <1>3, LifeFacts
<1>6. [Lifecycle!Next]_Lifecycle!vars
  <2>1. CASE Waiting(disk[r]) /\ Waiting(d)
    <3>1. life[r] = "waiting" /\ LifeOf("absent", d) = "waiting"
      BY <1>0, <1>5, <2>1, LifeFacts
    <3> QED
      BY <1>4, <1>5, <3>1 DEF Lifecycle!vars
  <2>2. CASE Waiting(disk[r]) /\ d.state = "running"
    <3>1. Lifecycle!Run(r)
      BY <1>0, <1>4, <1>5, <2>2, LifeFacts DEF Lifecycle!Run, Lifecycle!Become
    <3> QED
      BY <3>1 DEF Lifecycle!Next
  <2>3. CASE ~Finished(disk[r]) /\ Finished(d)
    <3>1. Lifecycle!Finish(r)
      BY <1>0, <1>4, <1>5, <2>3, LifeFacts DEF Leads, Lifecycle!Finish, Lifecycle!Become
    <3> QED
      BY <3>1 DEF Lifecycle!Next
  <2>4. CASE disk[r].state = "running" /\ Waiting(d)
    <3>1. Lifecycle!Wait(r)
      BY <1>0, <1>4, <1>5, <2>4, LifeFacts DEF Lifecycle!Wait, Lifecycle!Become
    <3> QED
      BY <3>1 DEF Lifecycle!Next
  <2>5. CASE \/ disk[r].state = "running" /\ d.state = "running"
             \/ Finished(disk[r]) /\ Finished(d)
    <3>1. life[r] = LifeOf("absent", d)
      BY <1>0, <1>5, <2>5, LifeFacts
    <3> QED
      BY <1>4, <1>5, <3>1 DEF Lifecycle!vars
  <2>6. CASE Finished(disk[r]) /\ Forced /\ d.state = "running"
    <3>1. Lifecycle!RunAgain(r)
      BY <1>0, <1>4, <1>5, <2>6, LifeFacts DEF Forced, Lifecycle!RunAgain, Lifecycle!Become
    <3> QED
      BY <3>1 DEF Lifecycle!Next
  <2> QED
    BY <1>1, <2>1, <2>2, <2>3, <2>4, <2>5, <2>6, StateCases DEF Leads
<1>7. Placed' /\ Announced'
  BY <1>0, <1>1, <1>3 DEF LifeInv, Placed, Announced
<1>8. \A s \in Req : disk'[s] = HalfWritten <=> disk[s] = HalfWritten
  BY <1>0, <1>1, <1>2
<1> QED
  BY <1>6, <1>7, <1>8

\* The end of a process leaves behind what is on disk, and nothing else.
LEMMA LifeExit ==
  ASSUME Exit, Placed', Announced',
         \A r, s \in Req : disk'[r] = HalfWritten /\ disk'[s] = HalfWritten => r = s
  PROVE  LifeInv'
<1>1. pc' = "idle" /\ opts' = Defaults
  BY DEF Exit
<1>2. Half' /\ Working' /\ Loop'
  BY <1>1 DEF Half, Working, Loop
<1> QED
  BY <1>2 DEF LifeInv

\* A process that ends without a last change of the spool directory.
LEMMA LifeQuit ==
  ASSUME LifeInv, Exit, UNCHANGED <<disk, archived, known>>
  PROVE  LifeInv' /\ [Lifecycle!Next]_Lifecycle!vars
<1>1. /\ Placed' /\ Announced'
      /\ \A r, s \in Req : disk'[r] = HalfWritten /\ disk'[s] = HalfWritten => r = s
  BY DEF LifeInv, Placed, Announced, Half
<1> QED
  BY <1>1, LifeExit, Quiet

\* A process that ends with saving a request.
LEMMA LifeSaveQuit ==
  ASSUME TypeInv, LifeInv, Exit, NEW r \in Req, NEW d \in Request, Leads(disk[r], d),
         disk' = [disk EXCEPT ![r] = d], UNCHANGED <<archived, known>>
  PROVE  LifeInv' /\ [Lifecycle!Next]_Lifecycle!vars
<1>1. /\ [Lifecycle!Next]_Lifecycle!vars
      /\ Placed' /\ Announced'
      /\ \A s \in Req : disk'[s] = HalfWritten <=> disk[s] = HalfWritten
  BY SaveKeeps
<1>2. \A s, t \in Req : disk'[s] = HalfWritten /\ disk'[t] = HalfWritten => s = t
  BY <1>1 DEF LifeInv, Half
<1> QED
  BY <1>1, <1>2, LifeExit

\* Taking the lock loses the request whose directory cannot be loaded, if any.
LEMMA LifeEnter ==
  ASSUME TypeInv, LifeInv, NEW phase \in Phase \ {"idle", "save"}, Enter(phase)
  PROVE  /\ Placed' /\ Announced' /\ Half'
         /\ mem' = disk'
         /\ [Lifecycle!Next]_Lifecycle!vars
<1>0. /\ disk \in [Req -> Request] /\ mem' \in [Req -> Request]
      /\ archived \in [Req -> State \cup {"absent", "empty"}]
      /\ disk' = mem' /\ known' = known /\ pc' = phase
      /\ \A r \in Req : disk'[r] = IF disk[r] = HalfWritten THEN NoRequest ELSE disk[r]
      /\ \A r \in Req : archived'[r] = IF disk[r] = HalfWritten THEN "empty" ELSE archived[r]
  BY ScanFacts DEF Enter, Scan, TypeInv, TypeOK
<1>1. NoRequest # HalfWritten /\ ~Exists(HalfWritten)
  BY DEF NoRequest, HalfWritten, Exists, State
<1>2. \A r \in Req : disk[r] = HalfWritten => archived[r] = "absent"
  BY <1>1 DEF LifeInv, Placed
<1>3. Placed' /\ Half'
  BY <1>0, <1>1 DEF LifeInv, Placed, Half
<1>4. Announced'
  <2>1. known \subseteq Req
    BY DEF TypeInv, TypeOK
  <2> QED
    BY <1>0, <1>1, <1>2, <2>1 DEF LifeInv, Announced, State
<1>5. [Lifecycle!Next]_Lifecycle!vars
  <2>1. CASE \E r \in Req : disk[r] = HalfWritten
    <3>1. PICK r \in Req : disk[r] = HalfWritten
      BY <2>1
    <3>2. \A s \in Req : disk[s] = HalfWritten <=> s = r
      BY <3>1 DEF LifeInv, Half
    <3>3. /\ disk' = [disk EXCEPT ![r] = NoRequest]
          /\ archived' = [archived EXCEPT ![r] = "empty"]
      BY <1>0, <3>2 DEF Enter, Scan
    <3>4. life' = [life EXCEPT ![r] = "lost"]
      <4>1. life' = [life EXCEPT ![r] = LifeOf("empty", NoRequest)]
        BY <3>3, OneChange
      <4> QED
        BY <4>1, LifeFacts, Zenon
    <3>5. life[r] = "making"
      BY <1>2, <3>1, LifeFacts
    <3>6. Lifecycle!Lose(r)
      BY <1>0, <3>4, <3>5 DEF Lifecycle!Lose, Lifecycle!Become
    <3> QED
      BY <3>6 DEF Lifecycle!Next
  <2>2. CASE \A r \in Req : disk[r] # HalfWritten
    <3>1. disk' = disk /\ archived' = archived
      BY <1>0, <2>2 DEF Enter, Scan
    <3> QED
      BY <1>0, <3>1, Quiet
  <2> QED
    BY <2>1, <2>2
<1> QED
  BY <1>0, <1>3, <1>4, <1>5

\* A new start time leaves running and finished requests as they are; one that
\* waits goes on waiting, or has used up its retries.
LEMMA UpdatesLead ==
  ASSUME NEW req \in Request, NEW due \in Nat, NEW utcnow \in Nat, Exists(req),
         NEW new \in {update_state(req, due, utcnow), update_due(req, due, utcnow)}
  PROVE  /\ new \in Request
         /\ Leads(req, new)
         /\ Waiting(req) => Waiting(new) \/ Finished(new)
         /\ ~Waiting(req) => new.state = req.state
         /\ ~Waiting(req) /\ new.next_due = req.next_due => new = req
<1>1. /\ new \in Request
      /\ new.state = "running" <=> req.state = "running"
      /\ req.state \in ARCHIVE \cup {"absent", "empty"} => new.state = req.state
      /\ Exists(new)
      /\ new.attempts = req.attempts /\ new.unfinished = req.unfinished
  <2>1. CASE new = update_state(req, due, utcnow)
    BY <2>1, UpdateStateFacts
  <2>2. CASE new = update_due(req, due, utcnow)
    BY <2>2, UpdateDueFacts
  <2> QED
    BY <2>1, <2>2
<1>2. ~Waiting(req) => new.state = req.state
  BY <1>1 DEF Exists, State, Waiting, ARCHIVE
<1>3. new.state = req.state /\ new.next_due = req.next_due => new = req
  BY <1>1 DEF Request
<1>4. /\ Waiting(req) => Waiting(new) \/ Finished(new)
      /\ req.state = "running" => Exists(new)
      /\ Finished(req) => Finished(new)
      /\ Waiting(req) \/ req.state = "running" \/ Finished(req)
  BY <1>1 DEF Exists, State, Finished, Waiting, ARCHIVE
<1>5. Leads(req, new)
  BY <1>4 DEF Leads
<1> QED
  BY <1>1, <1>2, <1>3, <1>4, <1>5

\* Scheduling: the directory is told of requests that wait, and those it still
\* has although they left the queue are closed.
LEMMA LifeSchedule ==
  TypeInv /\ LifeInv /\ Schedule => LifeInv' /\ [Lifecycle!Next]_Lifecycle!vars
<1> SUFFICES ASSUME TypeInv, LifeInv, Schedule
             PROVE  LifeInv' /\ [Lifecycle!Next]_Lifecycle!vars
  OBVIOUS
<1> USE DEF spool, local
<1>0. /\ disk \in [Req -> Request] /\ mem \in [Req -> Request]
      /\ archived \in [Req -> State \cup {"absent", "empty"}]
      /\ todo \subseteq Req /\ known \subseteq Req /\ cur \in Req \cup {None}
  BY DEF TypeInv, TypeOK
<1>1. CASE StartSchedule
  <2>1. /\ Placed' /\ Announced' /\ Half' /\ mem' = disk'
        /\ [Lifecycle!Next]_Lifecycle!vars
    BY <1>1, LifeEnter DEF StartSchedule, Phase
  <2>2. Working' /\ Loop'
    BY <1>1, <2>1 DEF StartSchedule, Enter, Working, Loop, LifeInv
  <2> QED
    BY <2>1, <2>2 DEF LifeInv
<1>2. CASE ScheduleCall
  <2> DEFINE R == {r \in Req : mem[r].state = "pending"}
  <2>1. /\ pc = "schedule" /\ pc' = "times" /\ mem = disk
        /\ UNCHANGED <<disk, archived, mem, opts, cur>>
        /\ known' = known \cup R /\ todo' \subseteq known'
    BY <1>2 DEF ScheduleCall, LifeInv, Working
  <2>2. \A r \in R : Waiting(disk[r]) /\ Exists(disk[r]) /\ archived[r] = "absent"
    BY <2>1 DEF Waiting, Exists, State, LifeInv, Placed, NoRequest
  <2>3. \A r \in R : life[r] = "waiting"
    BY <1>0, <2>2, LifeFacts
  <2>4. R \in SUBSET Req
    OBVIOUS
  <2> HIDE DEF R
  <2>5. Lifecycle!Announce(R)
    <3>1. life' = life
      BY <2>1 DEF life
    <3> QED
      BY <2>1, <2>3, <2>4, <3>1 DEF Lifecycle!Announce
  <2>6. [Lifecycle!Next]_Lifecycle!vars
    BY <2>4, <2>5 DEF Lifecycle!Next
  <2>7. Placed' /\ Announced' /\ Half' /\ Working' /\ Loop'
    BY <2>1, <2>2 DEF LifeInv, Placed, Announced, Half, Working, Loop
  <2> QED
    BY <2>6, <2>7 DEF LifeInv
<1>3. CASE ScheduleEnd
  <2>1. /\ pc = "times" /\ \A r \in todo : ~Exists(mem[r])
        /\ known' = known \ todo
        /\ UNCHANGED <<disk, archived>>
    BY <1>3 DEF ScheduleEnd
  <2>2. \A r \in todo : archived[r] \in State
    <3> SUFFICES ASSUME NEW r \in todo PROVE archived[r] \in State
      OBVIOUS
    <3>1. ~Exists(disk[r])
      BY <1>0, <2>1, StateCases DEF LifeInv, Working, Moved
    <3> QED
      BY <2>1, <3>1 DEF LifeInv, Announced, Loop
  <2>3. \A r \in todo : life[r] = "archived"
    <3>1. \A r \in todo : disk[r] = NoRequest
      BY <1>0, <2>2 DEF LifeInv, Placed, State
    <3> QED
      BY <1>0, <2>2, <3>1, LifeFacts
  <2>4. Lifecycle!Close(todo)
    <3>1. life' = life
      BY <2>1 DEF life
    <3> QED
      BY <1>0, <2>1, <2>3, <3>1 DEF Lifecycle!Close
  <2>5. [Lifecycle!Next]_Lifecycle!vars
    BY <1>0, <2>4 DEF Lifecycle!Next
  <2>6. /\ Placed' /\ Announced'
        /\ \A r, s \in Req : disk'[r] = HalfWritten /\ disk'[s] = HalfWritten => r = s
    BY <2>1 DEF LifeInv, Placed, Announced, Half
  <2>7. CASE Exit
    BY <2>5, <2>6, <2>7, LifeExit
  <2>8. CASE pc' = "significant" /\ UNCHANGED <<mem, local>>
    <3>1. Half' /\ Working' /\ Loop'
      BY <2>1, <2>8 DEF LifeInv, Half, Working, Loop, Moved
    <3> QED
      BY <2>5, <2>6, <3>1 DEF LifeInv
  <2> QED
    BY <1>3, <2>7, <2>8 DEF ScheduleEnd
<1>4. ASSUME NEW r \in Req, NEW time \in {NoTime} \cup 1..MaxTime, ScheduleResult(r, time)
      PROVE  LifeInv' /\ [Lifecycle!Next]_Lifecycle!vars
  <2> DEFINE req == update_due(mem[r], time, now)
  <2>1. time \in Nat /\ now \in Nat /\ mem[r] \in Request /\ disk[r] \in Request
    BY <1>0, ReqManagerAssumption DEF TypeInv, TypeOK, NoTime
  <2>2. /\ pc = "times" /\ pc' = "times" /\ Exists(mem[r]) /\ r \in todo
        /\ UNCHANGED <<archived, known, opts, cur>>
        /\ todo' = todo \ {r}
        /\ \/ Store(r, req)
           \/ Keep(r, req) /\ UNCHANGED disk /\ time = mem[r].next_due
    BY <1>4 DEF ScheduleResult
  <2>3. /\ req \in Request /\ Leads(mem[r], req) /\ req.next_due = time
        /\ Waiting(mem[r]) => Waiting(req) \/ Finished(req)
        /\ ~Waiting(mem[r]) => req.state = mem[r].state
        /\ ~Waiting(mem[r]) /\ time = mem[r].next_due => req = mem[r]
    <3>1. req.next_due = time
      BY <2>1, UpdateDueFacts
    <3> QED
      BY <2>1, <2>2, <3>1, UpdatesLead
  <2>4. mem[r] = disk[r] \/ Moved(r)
    BY <2>2 DEF LifeInv, Working
  <2> HIDE DEF req
  <2>5. Leads(disk[r], req)
    <3>1. CASE mem[r] = disk[r]
      BY <2>3, <3>1
    <3>2. CASE Moved(r)
      <4>1. Waiting(req) \/ Finished(req)
        BY <2>3, <3>2 DEF Moved, Waiting, Finished, ARCHIVE
      <4> QED
        BY <3>2, <4>1 DEF Leads, Moved
    <3> QED
      BY <2>4, <3>1, <3>2
  <2>6. \A s \in Req : mem'[s] = IF s = r THEN req ELSE mem[s]
    BY <1>0, <2>2, <2>3, StoreFacts
  <2>7. CASE Store(r, req)
    <3>1. disk' = [disk EXCEPT ![r] = req]
      BY <2>7 DEF Store
    <3>2. /\ [Lifecycle!Next]_Lifecycle!vars
          /\ Placed' /\ Announced'
          /\ \A s \in Req : disk'[s] = HalfWritten <=> disk[s] = HalfWritten
      BY <2>2, <2>3, <2>5, <3>1, SaveKeeps
    <3>3. \A s \in Req : mem'[s] = disk'[s] \/ Moved(s)'
      BY <1>0, <2>2, <2>6, <3>1 DEF LifeInv, Working, Moved
    <3>4. Half' /\ Working' /\ Loop'
      BY <2>2, <3>2, <3>3 DEF LifeInv, Half, Working, Loop
    <3> QED
      BY <3>2, <3>4 DEF LifeInv
  <2>8. CASE UNCHANGED disk /\ Keep(r, req) /\ time = mem[r].next_due
    <3>1. \A s \in Req : mem'[s] = disk'[s] \/ Moved(s)'
      BY <1>0, <2>2, <2>3, <2>4, <2>6, <2>8 DEF LifeInv, Working, Moved
    <3> QED
      BY <2>2, <2>8, <3>1, Quiet
      DEF LifeInv, Placed, Announced, Half, Working, Loop
  <2> QED
    BY <2>2, <2>7, <2>8
<1> QED
  BY <1>1, <1>2, <1>3, <1>4 DEF Schedule

\* Adding: a new request is made in two steps; merging changes a queued one.
LEMMA LifeAdd == TypeInv /\ LifeInv /\ Add => LifeInv' /\ [Lifecycle!Next]_Lifecycle!vars
<1> SUFFICES ASSUME TypeInv, LifeInv, Add
             PROVE  LifeInv' /\ [Lifecycle!Next]_Lifecycle!vars
  OBVIOUS
<1> USE DEF spool, local
<1>0. /\ disk \in [Req -> Request] /\ mem \in [Req -> Request]
      /\ archived \in [Req -> State \cup {"absent", "empty"}]
      /\ pc \in {"save", "significant"} => cur \in Req
  BY DEF TypeInv, TypeOK
<1>1. CASE StartAdd
  <2>1. /\ Placed' /\ Announced' /\ Half' /\ mem' = disk'
        /\ [Lifecycle!Next]_Lifecycle!vars
    BY <1>1, LifeEnter DEF StartAdd, Phase
  <2>2. Working' /\ Loop'
    BY <1>1, <2>1 DEF StartAdd, Enter, Working, Loop, LifeInv
  <2> QED
    BY <2>1, <2>2 DEF LifeInv
<1>2. CASE AddNothing
  BY <1>2, LifeQuit DEF AddNothing
<1>3. CASE PostponeSignificant
  <2>1. /\ cur \in Req /\ mem[cur] \in Request
        /\ disk' = [disk EXCEPT ![cur] = mem[cur]]
        /\ Exit /\ UNCHANGED <<archived, known>>
        /\ mem[cur] = disk[cur] \/ Moved(cur)
    BY <1>0, <1>3 DEF PostponeSignificant, LifeInv, Working
  <2>2. CASE mem[cur] = disk[cur]
    <3>1. disk' = disk
      BY <1>0, <2>1, <2>2
    <3> QED
      BY <2>1, <3>1, LifeQuit
  <2>3. CASE Moved(cur)
    <3>1. Leads(disk[cur], mem[cur])
      BY <2>3 DEF Moved, Leads
    <3> QED
      BY <2>1, <3>1, LifeSaveQuit
  <2> QED
    BY <2>1, <2>2, <2>3
<1>4. CASE SaveRequest
  <2>1. /\ cur \in Req /\ disk[cur] = HalfWritten
        /\ disk' = [disk EXCEPT ![cur] = NewRequest]
        /\ Exit /\ UNCHANGED <<archived, known>>
    BY <1>0, <1>4 DEF SaveRequest, LifeInv, Half
  <2>2. archived[cur] = "absent" /\ archived' = [archived EXCEPT ![cur] = "absent"]
    BY <1>0, <2>1 DEF LifeInv, Placed, NoRequest, HalfWritten
  <2>3. life[cur] = "making" /\ LifeOf("absent", NewRequest) = "waiting"
    BY <1>0, <2>1, <2>2, LifeFacts
  <2>4. life' = [life EXCEPT ![cur] = LifeOf("absent", NewRequest)]
    BY <2>1, <2>2, OneChange
  <2>5. Lifecycle!Made(cur)
    BY <2>1, <2>3, <2>4 DEF Lifecycle!Made, Lifecycle!Become
  <2>6. /\ Placed' /\ Announced'
        /\ \A r, s \in Req : disk'[r] = HalfWritten /\ disk'[s] = HalfWritten => r = s
    BY <1>0, <2>1, <2>2
    DEF LifeInv, Placed, Announced, Half, Exists, State, NewRequest, HalfWritten, NoRequest
  <2> QED
    BY <2>1, <2>5, <2>6, LifeExit DEF Lifecycle!Next
<1>5. ASSUME NEW r \in Req, MergeUpdate(r) \/ MergeSignificantUpdate(r)
      PROVE  LifeInv' /\ [Lifecycle!Next]_Lifecycle!vars
  <2>1. /\ pc = "add" /\ pc' = "schedule" /\ mem = disk /\ disk' = disk
        /\ UNCHANGED <<archived, known, mem, opts>>
    BY <1>0, <1>5 DEF MergeUpdate, MergeSignificantUpdate, LifeInv, Working
  <2>2. LifeInv'
    BY <2>1 DEF LifeInv, Placed, Announced, Half, Working, Loop
  <2> QED
    BY <2>1, <2>2, Quiet
<1>6. ASSUME NEW r \in Req, MergeRemove(r)
      PROVE  LifeInv' /\ [Lifecycle!Next]_Lifecycle!vars
  <2> DEFINE d == [mem[r] EXCEPT !.state = "deleted"]
  <2>1. /\ mem = disk /\ Exists(disk[r]) /\ Exit /\ UNCHANGED <<archived, known>>
        /\ disk' = [disk EXCEPT ![r] = d]
    BY <1>0, <1>6 DEF MergeRemove, MayCancelOut, Mergeable, LifeInv, Working
  <2>2. d \in Request /\ d.state = "deleted"
    BY <1>0, RecordFacts DEF State
  <2> HIDE DEF d
  <2>3. Leads(disk[r], d)
    BY <2>1, <2>2, StateCases DEF Leads, Finished, ARCHIVE, Exists, State
  <2> QED
    BY <2>1, <2>2, <2>3, LifeSaveQuit
<1>7. ASSUME NEW r \in Req, AddRequest(r)
      PROVE  LifeInv' /\ [Lifecycle!Next]_Lifecycle!vars
  <2>1. /\ pc = "add" /\ pc' = "save" /\ disk[r] = NoRequest /\ archived[r] = "absent"
        /\ mem' = [mem EXCEPT ![r] = NewRequest]
        /\ disk' = [disk EXCEPT ![r] = HalfWritten]
        /\ cur' = r /\ opts' = opts
        /\ UNCHANGED <<archived, known>>
    BY <1>7 DEF AddRequest
  <2>2. archived' = [archived EXCEPT ![r] = "absent"]
    BY <1>0, <2>1
  <2>3. life[r] = "none" /\ LifeOf("absent", HalfWritten) = "making"
    BY <1>0, <2>1, LifeFacts
  <2>4. life' = [life EXCEPT ![r] = LifeOf("absent", HalfWritten)]
    BY <2>1, <2>2, OneChange
  <2>5. Lifecycle!Make(r)
    BY <2>1, <2>3, <2>4 DEF Lifecycle!Make, Lifecycle!Become
  <2>6. ~Exists(NoRequest) /\ "absent" \notin State
    BY DEF Exists, NoRequest, State
  <2>7. Placed' /\ Announced'
    BY <1>0, <2>1, <2>6 DEF LifeInv, Placed, Announced
  <2>8. Half' /\ Working' /\ Loop'
    BY <1>0, <2>1 DEF LifeInv, Half, Working, Loop
  <2> QED
    BY <2>5, <2>7, <2>8 DEF Lifecycle!Next, LifeInv
<1> QED
  BY <1>1, <1>2, <1>3, <1>4, <1>5, <1>6, <1>7 DEF Add

\* Deleting finishes a request; without --no-archive its archiving follows.
LEMMA LifeDelete ==
  TypeInv /\ LifeInv /\ DeleteCommand => LifeInv' /\ [Lifecycle!Next]_Lifecycle!vars
<1> SUFFICES ASSUME TypeInv, LifeInv, DeleteCommand
             PROVE  LifeInv' /\ [Lifecycle!Next]_Lifecycle!vars
  OBVIOUS
<1> USE DEF spool, local
<1>0. disk \in [Req -> Request] /\ mem \in [Req -> Request]
  BY DEF TypeInv, TypeOK
<1>1. CASE StartDelete
  <2>1. /\ Placed' /\ Announced' /\ Half' /\ mem' = disk'
        /\ [Lifecycle!Next]_Lifecycle!vars
    BY <1>1, LifeEnter DEF StartDelete, Phase
  <2>2. Working' /\ Loop'
    BY <1>1, <2>1 DEF StartDelete, Enter, Working, Loop, LifeInv
  <2> QED
    BY <2>1, <2>2 DEF LifeInv
<1>2. CASE DeleteSkip
  BY <1>2, Quiet
  DEF DeleteSkip, LifeInv, Placed, Announced, Half, Working, Loop
<1>3. ASSUME NEW r \in Req, Delete(r) \/ DeleteNoArchive(r)
      PROVE  LifeInv' /\ [Lifecycle!Next]_Lifecycle!vars
  <2> DEFINE d == [disk[r] EXCEPT !.state = "deleted"]
  <2>1. /\ mem = disk /\ Exists(disk[r]) /\ UNCHANGED <<archived, known>>
        /\ disk' = [disk EXCEPT ![r] = d]
    BY <1>0, <1>3 DEF Delete, Store, DeleteNoArchive, LifeInv, Working
  <2>2. d \in Request /\ d.state = "deleted"
    BY <1>0, RecordFacts DEF State
  <2> HIDE DEF d
  <2>3. Leads(disk[r], d)
    BY <2>1, <2>2, StateCases DEF Leads, Finished, ARCHIVE, Exists, State
  <2>4. CASE DeleteNoArchive(r)
    BY <2>1, <2>2, <2>3, <2>4, LifeSaveQuit DEF DeleteNoArchive
  <2>5. CASE Delete(r)
    <3>1. /\ [Lifecycle!Next]_Lifecycle!vars
          /\ Placed' /\ Announced'
          /\ \A s \in Req : disk'[s] = HalfWritten <=> disk[s] = HalfWritten
      BY <2>1, <2>2, <2>3, SaveKeeps
    <3>2. mem' = disk' /\ pc = "delete" /\ pc' = "archive" /\ opts' = opts
      BY <1>0, <2>1, <2>5 DEF Delete, Store, Keep
    <3>3. Half' /\ Working' /\ Loop'
      BY <3>1, <3>2 DEF LifeInv, Half, Working, Loop
    <3> QED
      BY <3>1, <3>3 DEF LifeInv
  <2> QED
    BY <1>3, <2>4, <2>5
<1> QED
  BY <1>1, <1>2, <1>3 DEF DeleteCommand

\* Executing, up to the result of an activity: a request that has been finished
\* is picked for another run only by force.
LEMMA LifeExecute ==
  ASSUME TypeInv, LifeInv,
         \/ \E flags \in Flags : StartRun(flags)
         \/ \E r \in Req : UpdateState(r) \/ StartAttempt(r)
         \/ \E returncode \in ReturnCode : FinishAttempt(returncode)
         \/ Execute \/ Record
  PROVE  LifeInv' /\ [Lifecycle!Next]_Lifecycle!vars
<1> USE DEF spool, local
<1>0. /\ disk \in [Req -> Request] /\ mem \in [Req -> Request]
      /\ todo \subseteq Req
      /\ pc \in {"run", "resume", "record"} => cur \in Req
  BY DEF TypeInv, TypeOK
<1>1. ASSUME NEW flags \in Flags, StartRun(flags)
      PROVE  LifeInv' /\ [Lifecycle!Next]_Lifecycle!vars
  <2>1. /\ Placed' /\ Announced' /\ Half' /\ mem' = disk'
        /\ [Lifecycle!Next]_Lifecycle!vars
    BY <1>1, LifeEnter DEF StartRun, Phase
  <2>2. Working' /\ Loop'
    BY <1>1, <2>1 DEF StartRun, Enter, Working, Loop
  <2> QED
    BY <2>1, <2>2 DEF LifeInv
<1>2. ASSUME NEW r \in Req, UpdateState(r)
      PROVE  LifeInv' /\ [Lifecycle!Next]_Lifecycle!vars
  <2> DEFINE req == update_state(mem[r], due_dt, now)
  <2>1. due_dt \in Nat /\ now \in Nat
    BY ReqManagerAssumption DEF TypeInv, TypeOK
  <2>2. /\ pc = "update" /\ pc' = "update" /\ mem = disk
        /\ UNCHANGED <<archived, known, opts>>
        /\ Store(r, req)
    BY <1>2 DEF UpdateState, LifeInv, Working
  <2>3. req \in Request /\ (~Exists(mem[r]) => req = mem[r])
    <3>1. ~Exists(mem[r]) => mem[r].state \in {"absent", "empty"}
      BY <1>0 DEF Exists, Request
    <3> QED
      BY <1>0, <2>1, <3>1, UpdateStateFacts
  <2>4. Exists(mem[r]) => Leads(mem[r], req)
    BY <1>0, <2>1, UpdatesLead
  <2> HIDE DEF req
  <2>5. disk' = [disk EXCEPT ![r] = req] /\ mem' = disk'
    BY <2>2 DEF Store, Keep
  <2>6. Half' /\ Working' /\ Loop' <=> Half'
    BY <2>2, <2>5 DEF LifeInv, Working, Loop
  <2>7. CASE Exists(mem[r])
    <3>1. /\ [Lifecycle!Next]_Lifecycle!vars
          /\ Placed' /\ Announced'
          /\ \A s \in Req : disk'[s] = HalfWritten <=> disk[s] = HalfWritten
      BY <2>2, <2>3, <2>4, <2>5, <2>7, SaveKeeps
    <3>2. Half'
      BY <2>2, <3>1 DEF LifeInv, Half
    <3> QED
      BY <2>6, <3>1, <3>2 DEF LifeInv
  <2>8. CASE ~Exists(mem[r])
    <3>1. disk' = disk
      BY <1>0, <2>2, <2>3, <2>5, <2>8
    <3> QED
      BY <2>2, <2>6, <3>1, Quiet DEF LifeInv, Placed, Announced, Half
  <2> QED
    BY <2>7, <2>8
<1>3. ASSUME NEW r \in Req, StartAttempt(r)
      PROVE  LifeInv' /\ [Lifecycle!Next]_Lifecycle!vars
  <2> DEFINE req == start_attempt(mem[r])
  <2>1. /\ pc = "execute" /\ pc' \in {"run", "resume"}
        /\ r \in todo /\ mem[r] = disk[r] /\ r \in _runnable
        /\ UNCHANGED <<archived, known, opts>>
        /\ todo' = todo \ {r} /\ cur' = r
        /\ Store(r, req)
    BY <1>3 DEF StartAttempt, First, LifeInv, Loop
  <2>2. req \in Request /\ req.state = "running"
    BY <1>0, AttemptFacts DEF ReturnCode
  <2> HIDE DEF req
  <2>3. Exists(disk[r]) /\ (Finished(disk[r]) => Forced)
    BY <2>1 DEF _runnable, LifeInv, Loop, Forced, Defaults, Exists, State, Finished, ARCHIVE
  <2>4. Leads(disk[r], req)
    BY <2>2, <2>3, StateCases DEF Leads, Exists, State
  <2>5. /\ disk' = [disk EXCEPT ![r] = req]
        /\ \A s \in Req : mem'[s] = IF s = r THEN req ELSE mem[s]
        /\ \A s \in Req : disk'[s] = IF s = r THEN req ELSE disk[s]
    BY <1>0, <2>1, <2>2, StoreFacts DEF Store
  <2>6. /\ [Lifecycle!Next]_Lifecycle!vars
        /\ Placed' /\ Announced'
        /\ \A s \in Req : disk'[s] = HalfWritten <=> disk[s] = HalfWritten
    BY <2>1, <2>2, <2>4, <2>5, SaveKeeps
  <2>7. Half' /\ Working'
    BY <2>1, <2>5, <2>6 DEF LifeInv, Half, Working, Unsaved
  <2>8. Loop'
    <3>1. todo' \subseteq _runnable'
      BY <1>0, <2>1, <2>5 DEF LifeInv, Loop, _runnable
    <3> QED
      BY <1>0, <2>1, <2>5, <3>1 DEF LifeInv, Loop
  <2> QED
    BY <2>6, <2>7, <2>8 DEF LifeInv
<1>4. ASSUME NEW returncode \in ReturnCode, FinishAttempt(returncode)
      PROVE  LifeInv' /\ [Lifecycle!Next]_Lifecycle!vars
  <2> DEFINE req == finish_attempt(mem[cur], returncode)
  <2>1. /\ pc \in {"run", "resume"} /\ pc' = "record"
        /\ cur \in Req /\ cur \notin todo /\ cur' = cur /\ todo' = todo
        /\ mem[cur] = disk[cur] /\ mem[cur].state = "running" /\ mem[cur].unfinished > 0
        /\ UNCHANGED <<disk, archived, known, opts>>
        /\ Keep(cur, req)
    BY <1>0, <1>4 DEF FinishAttempt, LifeInv, Loop, TypeInv, AttemptOpen
  <2>2. req \in Request /\ req.state \in {"success", "due", "postpone", "error"}
    BY <1>0, <2>1, AttemptFacts
  <2> HIDE DEF req
  <2>3. \A s \in Req : mem'[s] = IF s = cur THEN req ELSE mem[s]
    BY <1>0, <2>1, <2>2, StoreFacts
  <2>4. Waiting(req) \/ Finished(req)
    BY <2>2 DEF Waiting, Finished, ARCHIVE
  <2>5. Working'
    BY <1>0, <2>1, <2>3, <2>4 DEF LifeInv, Working, Unsaved
  <2>6. Loop'
    <3>1. todo' \subseteq _runnable'
      BY <1>0, <2>1, <2>3 DEF LifeInv, Loop, _runnable
    <3> QED
      BY <1>0, <2>1, <2>3, <3>1 DEF LifeInv, Loop
  <2>7. Placed' /\ Announced' /\ Half'
    BY <2>1 DEF LifeInv, Placed, Announced, Half
  <2> QED
    BY <2>1, <2>5, <2>6, <2>7, Quiet DEF LifeInv
<1>5. CASE Execute
  <2>1. LifeInv'
    BY <1>5 DEF Execute, LifeInv, Placed, Announced, Half, Working, Loop, _runnable
  <2> QED
    BY <1>5, <2>1, Quiet DEF Execute
<1>6. CASE Record
  <2>1. /\ pc = "record" /\ pc' = "execute" /\ cur \in Req /\ cur \notin todo
        /\ UNCHANGED <<archived, known, mem, todo, opts>>
        /\ mem[cur] = disk[cur] \/ Unsaved(cur)
        /\ \A s \in todo : mem[s] = disk[s]
        /\ todo \subseteq _runnable
        /\ mem[cur] \in Request
    BY <1>0, <1>6 DEF Record, LifeInv, Working, Loop
  <2>2. _runnable' = _runnable
    BY <2>1 DEF _runnable
  <2>3. CASE disk' = disk
    <3>1. LifeInv'
      BY <2>1, <2>2, <2>3 DEF LifeInv, Placed, Announced, Half, Working, Loop, Unsaved
    <3> QED
      BY <2>1, <2>3, <3>1, Quiet
  <2>4. CASE disk' = [disk EXCEPT ![cur] = mem[cur]] /\ Unsaved(cur)
    <3>1. Leads(disk[cur], mem[cur])
      BY <2>4, StateCases DEF Leads, Unsaved
    <3>2. /\ [Lifecycle!Next]_Lifecycle!vars
          /\ Placed' /\ Announced'
          /\ \A s \in Req : disk'[s] = HalfWritten <=> disk[s] = HalfWritten
      BY <2>1, <2>4, <3>1, SaveKeeps
    <3>3. \A s \in Req : disk'[s] = IF s = cur THEN mem[cur] ELSE disk[s]
      BY <1>0, <2>4
    <3>4. Half' /\ Working' /\ Loop'
      BY <1>0, <2>1, <2>2, <3>2, <3>3 DEF LifeInv, Half, Working, Loop, Unsaved
    <3> QED
      BY <3>2, <3>4 DEF LifeInv
  <2>5. mem[cur] = disk[cur] => disk = [disk EXCEPT ![cur] = mem[cur]]
    BY <1>0, <2>1
  <2> QED
    BY <1>6, <2>1, <2>3, <2>4, <2>5 DEF Record
<1> QED
  BY <1>1, <1>2, <1>3, <1>4, <1>5, <1>6

\* Entering and leaving maintenance changes no saved request; where an enter
\* command asks to postpone, the change is in memory.
LEMMA LifeMaintain ==
  ASSUME TypeInv, LifeInv,
         \/ MarkOutOfService \/ WriteMarker
         \/ EnterSucceeds \/ EnterPostpone \/ EnterTempfail
         \/ Reboot \/ NoReboot
         \/ LeaveMaintenance \/ RemoveMarker \/ Postpone
  PROVE  LifeInv' /\ [Lifecycle!Next]_Lifecycle!vars
<1> USE DEF spool, local
<1>0. /\ disk \in [Req -> Request] /\ mem \in [Req -> Request]
      /\ todo \subseteq Req
  BY DEF TypeInv, TypeOK
<1>1. CASE Reboot
  BY <1>1, LifeQuit DEF Reboot
<1>2. CASE MarkOutOfService \/ WriteMarker \/ EnterSucceeds \/ EnterTempfail
  <2>1. /\ pc \in {"enter", "mark", "commands"}
        /\ pc' \in {"mark", "commands", "execute", "postpone"}
        /\ pc' # "postpone" => todo' = todo
        /\ UNCHANGED <<disk, archived, known, mem, opts>>
    BY <1>2 DEF MarkOutOfService, WriteMarker, EnterSucceeds, EnterTempfail
  <2>2. _runnable' = _runnable
    BY <2>1 DEF _runnable
  <2>3. LifeInv'
    BY <2>1, <2>2 DEF LifeInv, Placed, Announced, Half, Working, Loop
  <2> QED
    BY <2>1, <2>3, Quiet
<1>3. CASE EnterPostpone
  <2>1. /\ pc = "commands" /\ UNCHANGED <<disk, archived, known, opts>> /\ mem = disk
        /\ todo \subseteq _runnable
    BY <1>3 DEF EnterPostpone, LifeInv, Working, Loop
  <2>2. CASE pc' = "execute" /\ UNCHANGED <<mem, todo>>
    <3>1. _runnable' = _runnable
      BY <2>1, <2>2 DEF _runnable
    <3>2. LifeInv'
      BY <2>1, <2>2, <3>1 DEF LifeInv, Placed, Announced, Half, Working, Loop
    <3> QED
      BY <2>1, <3>2, Quiet
  <2>3. CASE /\ pc' = "leave" /\ todo' = {}
             /\ mem' = [r \in Req |-> IF r \in todo /\ ~opts.all
                                      THEN [mem[r] EXCEPT !.state = "postpone"]
                                      ELSE mem[r]]
    <3>1. ASSUME NEW r \in Req PROVE mem'[r] = disk[r] \/ Unsaved(r)'
      <4>1. CASE r \in todo /\ ~opts.all
        <5>1. disk[r].state \in {"due", "running"}
          BY <2>1, <4>1 DEF _runnable
        <5>2. mem'[r].state = "postpone"
          BY <1>0, <2>3, <4>1, RecordFacts DEF State
        <5> QED
          BY <2>1, <5>1, <5>2 DEF Unsaved, Waiting
      <4>2. CASE ~(r \in todo /\ ~opts.all)
        BY <2>1, <2>3, <4>2
      <4> QED
        BY <4>1, <4>2
    <3>2. LifeInv'
      BY <2>1, <2>3, <3>1 DEF LifeInv, Placed, Announced, Half, Working, Loop
    <3> QED
      BY <2>1, <3>2, Quiet
  <2> QED
    BY <1>3, <2>2, <2>3 DEF EnterPostpone
<1>4. CASE NoReboot \/ LeaveMaintenance \/ RemoveMarker \/ Postpone
  <2>1. /\ pc \in {"execute", "leave", "unmark", "postpone"}
        /\ pc' \in {"leave", "unmark", "postpone", "postponing", "archive"}
        /\ UNCHANGED <<disk, archived, known, mem, opts>>
        /\ pc' = "postponing" => todo' = {r \in Req : mem[r].state = "postpone"}
    BY <1>4 DEF NoReboot, LeaveMaintenance, RemoveMarker, Postpone
  <2>2. LifeInv'
    BY <2>1 DEF LifeInv, Placed, Announced, Half, Working, Loop, Unsaved
  <2> QED
    BY <2>1, <2>2, Quiet
<1> QED
  BY <1>1, <1>2, <1>3, <1>4

\* Archiving: the directory is told first, unless the run is offline; what was
\* told is over, or was left running when its last result could not be saved.
LEMMA LifeArchive ==
  ASSUME TypeInv, LifeInv, Archive \/ \E r \in Req : ResetDue(r) \/ ArchiveRequest(r)
  PROVE  LifeInv' /\ [Lifecycle!Next]_Lifecycle!vars
<1> USE DEF spool, local
<1>0. /\ disk \in [Req -> Request] /\ mem \in [Req -> Request]
      /\ archived \in [Req -> State \cup {"absent", "empty"}]
      /\ todo \subseteq Req /\ known \subseteq Req
  BY DEF TypeInv, TypeOK
<1>1. ASSUME NEW r \in Req, ResetDue(r)
      PROVE  LifeInv' /\ [Lifecycle!Next]_Lifecycle!vars
  <2> DEFINE req == update_due(mem[r], NoTime, now)
  <2>1. /\ pc = "postponing" /\ pc' \in {"postponing", "archive"}
        /\ mem[r].state = "postpone"
        /\ mem[r] = disk[r] \/ Unsaved(r)
        /\ todo' = todo \ {r}
        /\ UNCHANGED <<archived, known, opts>>
        /\ Store(r, req)
    BY <1>1 DEF ResetDue, LifeInv, Working, Loop
  <2>2. req \in Request /\ (Waiting(mem[r]) => Waiting(req) \/ Finished(req))
    <3>1. now \in Nat /\ NoTime \in Nat
      BY ReqManagerAssumption DEF TypeInv, TypeOK, NoTime
    <3>2. Exists(mem[r])
      BY <2>1 DEF Exists, State
    <3> QED
      BY <1>0, <3>1, <3>2, UpdatesLead
  <2> HIDE DEF req
  <2>3. Leads(disk[r], req)
    <3>1. Waiting(mem[r]) /\ (Waiting(disk[r]) \/ disk[r].state = "running")
      BY <2>1 DEF Waiting, Unsaved
    <3> QED
      BY <2>2, <3>1, StateCases DEF Leads
  <2>4. /\ disk' = [disk EXCEPT ![r] = req]
        /\ \A s \in Req : mem'[s] = IF s = r THEN req ELSE mem[s]
        /\ \A s \in Req : disk'[s] = IF s = r THEN req ELSE disk[s]
    BY <1>0, <2>1, <2>2, StoreFacts DEF Store
  <2>5. /\ [Lifecycle!Next]_Lifecycle!vars
        /\ Placed' /\ Announced'
        /\ \A s \in Req : disk'[s] = HalfWritten <=> disk[s] = HalfWritten
    BY <2>1, <2>2, <2>3, <2>4, SaveKeeps
  <2>6. Half' /\ Working' /\ Loop'
    BY <1>0, <2>1, <2>4, <2>5 DEF LifeInv, Half, Working, Loop, Unsaved
  <2> QED
    BY <2>5, <2>6 DEF LifeInv
<1>2. CASE Archive
  <2> DEFINE finished == {r \in Req : Finished(mem[r])}
  <2>1. pc = "archive" /\ UNCHANGED <<disk, archived>>
    BY <1>2 DEF Archive
  <2>2. CASE Exit /\ known' = known
    BY <2>1, <2>2, LifeQuit
  <2>3. CASE /\ pc' = "archiving" /\ todo' = finished
             /\ known' = IF opts.online THEN known \ finished ELSE known
             /\ UNCHANGED <<mem, opts, cur>>
    <3>1. \A r \in finished : mem[r] = disk[r] \/ Unsaved(r)
      BY <2>1 DEF LifeInv, Working
    <3>2. \A r \in finished : /\ Finished(disk[r]) \/ disk[r].state = "running"
                              /\ archived[r] = "absent"
      <4> SUFFICES ASSUME NEW r \in Req, Finished(mem[r])
                   PROVE  /\ Finished(disk[r]) \/ disk[r].state = "running"
                          /\ archived[r] = "absent"
        OBVIOUS
      <4>1. Finished(disk[r]) \/ disk[r].state = "running"
        BY <3>1 DEF Unsaved, Waiting, Finished, ARCHIVE
      <4>2. disk[r] # NoRequest
        BY <4>1 DEF Finished, ARCHIVE, NoRequest
      <4> QED
        BY <4>1, <4>2 DEF LifeInv, Placed
    <3>3. \A r \in finished : life[r] \in {"running", "finished"}
      BY <1>0, <3>2, LifeFacts
    <3>4. finished \in SUBSET Req
      OBVIOUS
    <3>5. life' = life
      BY <2>1 DEF life
    <3>6. Placed' /\ Announced' /\ Half' /\ Working' /\ Loop'
      <4>1. /\ opts.online => known' = known \ finished
            /\ ~opts.online => known' = known
        BY <2>3
      <4>2. \A r \in finished : Finished(mem[r])
        OBVIOUS
      <4> HIDE DEF finished
      <4>3. Placed' /\ Announced' /\ Half' /\ Working'
        BY <2>1, <2>3, <4>1 DEF LifeInv, Placed, Announced, Half, Working
      <4>4. Loop'
        BY <2>1, <2>3, <3>1, <4>1, <4>2 DEF LifeInv, Loop, Unsaved
      <4> QED
        BY <4>3, <4>4
    <3> HIDE DEF finished
    <3>7. CASE opts.online
      <4>1. Lifecycle!Close(finished)
        BY <2>3, <3>3, <3>4, <3>5, <3>7 DEF Lifecycle!Close
      <4> QED
        BY <3>4, <3>6, <4>1 DEF LifeInv, Lifecycle!Next
    <3>8. CASE ~opts.online
      BY <2>1, <2>3, <3>6, <3>8, Quiet DEF LifeInv
    <3> QED
      BY <3>7, <3>8
  <2> QED
    BY <1>2, <2>2, <2>3 DEF Archive
<1>3. ASSUME NEW r \in Req, ArchiveRequest(r)
      PROVE  LifeInv' /\ [Lifecycle!Next]_Lifecycle!vars
  <2>1. /\ pc = "archiving" /\ r \in todo
        /\ mem[r] = disk[r] \/ Unsaved(r)
        /\ Finished(mem[r]) /\ (opts.online => r \notin known)
        /\ opts \in Flags \cup {Defaults}
        /\ archived' = [archived EXCEPT ![r] = mem[r].state]
        /\ disk' = [disk EXCEPT ![r] = NoRequest]
        /\ known' = known
    BY <1>3 DEF ArchiveRequest, LifeInv, Loop
  <2>2. /\ Finished(disk[r]) \/ disk[r].state = "running"
        /\ archived[r] = "absent"
        /\ mem[r].state \in State
    BY <1>0, <2>1
    DEF Unsaved, Waiting, Finished, ARCHIVE, LifeInv, Placed, NoRequest, State
  <2>3. life[r] \in {"running", "finished"}
    BY <1>0, <2>2, LifeFacts
  <2>4. life' = [life EXCEPT ![r] = "archived"]
    <3>1. life' = [life EXCEPT ![r] = LifeOf(mem[r].state, NoRequest)]
      BY <2>1, OneChange
    <3>2. LifeOf(mem[r].state, NoRequest) = "archived"
      BY <2>2, LifeFacts
    <3> QED
      BY <3>1, <3>2
  <2>5. (\E flags \in Flags : ~flags.online) \/ r \notin known
    BY <2>1 DEF Defaults
  <2>6. Lifecycle!Archive(r)
    BY <2>1, <2>3, <2>4, <2>5 DEF Lifecycle!Archive, Lifecycle!Become
  <2>7. \A s \in Req : /\ disk'[s] = IF s = r THEN NoRequest ELSE disk[s]
                       /\ archived'[s] = IF s = r THEN mem[r].state ELSE archived[s]
    BY <1>0, <2>1
  <2>8. Placed' /\ Announced'
    BY <1>0, <2>1, <2>2, <2>7 DEF LifeInv, Placed, Announced
  <2>9. \A s \in Req : disk'[s] # HalfWritten
    BY <2>1, <2>7 DEF LifeInv, Half, NoRequest, HalfWritten
  <2>10. CASE Exit
    BY <2>6, <2>8, <2>9, <2>10, LifeExit DEF Lifecycle!Next
  <2>11. CASE todo' = todo \ {r} /\ UNCHANGED <<pc, mem, local>>
    <3>1. Half' /\ Working' /\ Loop'
      BY <1>0, <2>1, <2>7, <2>9, <2>11 DEF LifeInv, Half, Working, Loop, Unsaved
    <3> QED
      BY <2>6, <2>8, <3>1 DEF Lifecycle!Next, LifeInv
  <2> QED
    BY <1>3, <2>10, <2>11 DEF ArchiveRequest
<1> QED
  BY <1>1, <1>2, <1>3

\* Every step of a process, a kill and the clock are steps of RequestLifecycle,
\* or none.
LEMMA LifeStep ==
  TypeInv /\ LifeInv /\ [Next]_vars => LifeInv' /\ [Lifecycle!Next]_Lifecycle!vars
<1> SUFFICES ASSUME TypeInv, LifeInv, [Next]_vars
             PROVE  LifeInv' /\ [Lifecycle!Next]_Lifecycle!vars
  OBVIOUS
<1>1. CASE Run
  BY <1>1, LifeExecute, LifeMaintain, LifeArchive DEF Run
<1>2. CASE Crash
  BY <1>2, LifeQuit DEF Crash, spool
<1>3. CASE Tick \/ UNCHANGED vars
  <2>1. UNCHANGED <<disk, archived, known, pc, mem, todo, opts, cur>>
    BY <1>3 DEF Tick, vars, spool, local
  <2>2. _runnable' = _runnable
    BY <2>1 DEF _runnable
  <2>3. LifeInv'
    BY <2>1, <2>2 DEF LifeInv, Placed, Announced, Half, Working, Loop, Moved, Unsaved
  <2> QED
    BY <2>1, <2>3, Quiet
<1> QED
  BY <1>1, <1>2, <1>3, LifeSchedule, LifeAdd, LifeDelete DEF Next

\* The spool directory implements RequestLifecycle, whatever the requests, the
\* flags and the retry limit are and wherever processes are killed: no request
\* that was saved is lost before it is finished and archived, a finished one is
\* not run again unless forced, and it is archived only after the directory was
\* told, unless runs are offline.
THEOREM LifecycleKeptHolds == Spec => LifecycleKept
<1>1. Init => LifeInv
  <2> SUFFICES ASSUME Init PROVE LifeInv
    OBVIOUS
  <2>1. \A r \in Req : disk[r] = NoRequest /\ archived[r] = "absent"
    BY DEF Init, Nothing
  <2>2. known = {} /\ pc = "idle" /\ opts = Defaults /\ NoRequest # HalfWritten
    BY DEF Init, NoRequest, HalfWritten
  <2> QED
    BY <2>1, <2>2 DEF LifeInv, Placed, Announced, Half, Working, Loop
<1>2. Init => Lifecycle!Init
  <2>1. Init => \A r \in Req : disk[r] = NoRequest /\ archived[r] = "absent"
    BY DEF Init, Nothing
  <2>2. Init => life = [r \in Req |-> "none"]
    BY <2>1, LifeFacts
  <2> QED
    BY <2>2 DEF Init, Lifecycle!Init
<1> QED
  BY <1>1, <1>2, LifeStep, TypeInit, TypeStep, PTL DEF Spec, LifecycleKept, Lifecycle!Spec

\* What follows from RequestLifecycle holds of the program.
Promises == INSTANCE RequestLifecycleProofs WITH
  open    <- known,
  Forced  <- \E flags \in Flags : flags.all /\ flags.force,
  Offline <- \E flags \in Flags : ~flags.online

\* Unless runs are made offline, the directory has no maintenance on its plan
\* whose request is not in the queue, wherever processes are killed.
THEOREM PlannedIsQueued ==
  Spec => []((\A flags \in Flags : flags.online) => \A r \in known : Exists(disk[r]))
<1>1. Lifecycle!Init => Promises!Init
  BY DEF Lifecycle!Init, Promises!Init
<1>2. [Lifecycle!Next]_Lifecycle!vars => [Promises!Next]_Promises!vars
  BY DEF Lifecycle!Next, Lifecycle!vars, Lifecycle!Become, Lifecycle!Make, Lifecycle!Made,
         Lifecycle!Lose, Lifecycle!Run, Lifecycle!Wait, Lifecycle!Finish, Lifecycle!RunAgain,
         Lifecycle!Archive, Lifecycle!Announce, Lifecycle!Close,
         Promises!Next, Promises!vars, Promises!Become, Promises!Make, Promises!Made,
         Promises!Lose, Promises!Run, Promises!Wait, Promises!Finish, Promises!RunAgain,
         Promises!Archive, Promises!Announce, Promises!Close
<1>3. Spec => []Promises!OpenIsQueued
  BY <1>1, <1>2, LifecycleKeptHolds, Promises!OpenIsQueuedHolds, PTL
  DEF LifecycleKept, Lifecycle!Spec, Promises!Spec
<1>4. TypeOK /\ Promises!OpenIsQueued =>
        ((\A flags \in Flags : flags.online) => \A r \in known : Exists(disk[r]))
  <2> SUFFICES ASSUME TypeOK, Promises!OpenIsQueued, \A flags \in Flags : flags.online,
                      NEW r \in known
               PROVE  Exists(disk[r])
    OBVIOUS
  <2>1. r \in Req /\ life[r] \in {"waiting", "running", "finished"}
    BY DEF TypeOK, Promises!OpenIsQueued, Promises!Queued
  <2>2. life[r] = LifeOf(archived[r], disk[r])
    BY <2>1, LifeFacts
  <2> QED
    BY <2>1, <2>2 DEF LifeOf, Waiting, Finished, Exists, State, ARCHIVE
<1> QED
  BY <1>3, <1>4, TypeCorrect, PTL
=============================================================================
