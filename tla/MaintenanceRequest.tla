------------------------ MODULE MaintenanceRequest ------------------------
(***************************************************************************)
(* A maintenance request as fc.maintenance.request.Request and             *)
(* fc.maintenance.state define it: its states, how a finished attempt      *)
(* turns into a state, how the passing of time and a new start time change *)
(* it, and the order in which requests are run.                            *)
(*                                                                         *)
(* Times are positive numbers of clock ticks, NoTime stands for None.      *)
(***************************************************************************)
EXTENDS Naturals

CONSTANTS
  MaxRetries,   \* Request.MAX_RETRIES
  RunnableFor,  \* request_runnable_for_seconds, in ticks
  Duration      \* _estimated_request_duration of a request plus 60s, in ticks

ASSUME RequestAssumption ==
  /\ MaxRetries \in Nat
  /\ RunnableFor \in Nat
  /\ Duration \in Nat

NoTime == 0

State == {"pending", "due", "running", "success", "error", "deleted", "postpone"}

ARCHIVE == {"success", "error", "deleted"}

(***************************************************************************)
(* The exit codes an activity may finish with. FAILURE is every code that  *)
(* state.py does not name, and an exception raised by the activity.        *)
(***************************************************************************)
ReturnCode == {"SUCCESS", "POSTPONE", "TEMPFAIL", "INTERRUPTED", "FAILURE"}

evaluate_state(returncode) ==
  CASE returncode = "SUCCESS"  -> "success"
    [] returncode = "TEMPFAIL" -> "due"
    [] returncode = "POSTPONE" -> "postpone"
    [] OTHER                   -> "error"

---------------------------------------------------------------------------
(***************************************************************************)
(* What is stored in request.yaml. A directory below requests/ may also be *)
(* missing ("absent") or, when its creation was cut short, hold no         *)
(* request.yaml ("empty"). Of the list of attempts the model keeps its     *)
(* length and the number of attempts that have no returncode: the one      *)
(* being made, and those that never came to an end.                        *)
(***************************************************************************)
Request == [state      : State \cup {"absent", "empty"},
            next_due   : Nat,
            attempts   : Nat,
            unfinished : Nat]

NoRequest == [state |-> "absent", next_due |-> NoTime, attempts |-> 0, unfinished |-> 0]
HalfWritten == [NoRequest EXCEPT !.state = "empty"]
NewRequest == [NoRequest EXCEPT !.state = "pending"]

Exists(req) == req.state \in State
Finished(req) == req.state \in ARCHIVE

LaterOf(t, u) == IF t >= u THEN t ELSE u

overdue(req, utcnow) ==
  /\ req.next_due # NoTime
  /\ utcnow > req.next_due + RunnableFor

\* Slips the runs must notice: one retry too many, and a final state reset.
update_state_retry_more(req, due_dt, utcnow) ==
  LET isDue == /\ req.state \in {"postpone", "pending", "due"}
               /\ req.state = "due" \/ (req.next_due # NoTime /\ due_dt >= req.next_due)
  IN  [req EXCEPT !.state =
         CASE isDue /\ overdue(req, utcnow)            -> "postpone"
           [] isDue /\ ~overdue(req, utcnow)           ->
                IF req.attempts > MaxRetries + 1 THEN "error" ELSE "due"
           [] ~isDue /\ req.state = "postpone"         -> "pending"
           [] ~isDue /\ req.state # "postpone"         -> req.state]

update_state_reset(req, due_dt, utcnow) ==
  [req EXCEPT !.state =
     IF req.next_due # NoTime /\ due_dt >= req.next_due THEN "due" ELSE "pending"]

(***************************************************************************)
(* Request.update_state: postpone falls back to pending, pending becomes   *)
(* due when due_dt has reached the start time, a due request that used up  *)
(* its retries becomes an error, and, whatever the retries say, a due      *)
(* request that is overdue is postponed.                                   *)
(***************************************************************************)
update_state(req, due_dt, utcnow) ==
  LET waiting == IF req.state = "postpone" THEN "pending" ELSE req.state
      reached == /\ waiting = "pending"
                 /\ req.next_due # NoTime
                 /\ due_dt >= req.next_due
      isDue   == reached \/ waiting = "due"
  IN  [req EXCEPT !.state =
         CASE isDue /\ overdue(req, utcnow)       -> "postpone"
           [] isDue /\ ~overdue(req, utcnow)
                    /\ req.attempts > MaxRetries  -> "error"
           [] isDue /\ ~overdue(req, utcnow)
                    /\ req.attempts <= MaxRetries -> "due"
           [] ~isDue                              -> waiting]

\* Request.update_due: due is a time or NoTime.
update_due(req, due, utcnow) ==
  update_state([req EXCEPT !.next_due = due], utcnow, utcnow)

\* A slip: the attempt is appended only once it is over.
start_attempt_unlisted(req) == [req EXCEPT !.state = "running"]

(***************************************************************************)
(* Request.execute up to the call of the activity (a new attempt, state    *)
(* running), and from its return: the attempt gets its returncode.         *)
(***************************************************************************)
start_attempt(req) ==
  [req EXCEPT !.state = "running", !.attempts = @ + 1, !.unfinished = @ + 1]

finish_attempt(req, returncode) ==
  [req EXCEPT !.state = evaluate_state(returncode), !.unfinished = @ - 1]

(***************************************************************************)
(* Request.__lt__ on the start times. Requests without a start time come   *)
(* last; the order among those (when they were added) is left open.        *)
(***************************************************************************)
Before(a, b) ==
  /\ a.next_due # NoTime
  /\ b.next_due = NoTime \/ a.next_due < b.next_due

===========================================================================
