--------------------------- MODULE RequestLifecycle ---------------------------
(***************************************************************************)
(* What the spool directory promises about maintenance requests, whatever  *)
(* process is killed when: a request that was added stays in the queue     *)
(* until it is finished, a finished one is not run again, and it leaves    *)
(* the queue for the archive only after the directory was told.            *)
(***************************************************************************)
CONSTANTS
  Req,
  Forced,   \* run --run-all-now --force-run is used
  Offline   \* run --no-online is used

VARIABLES
  life,     \* how far each request has got
  open      \* the requests that the directory has on its maintenance plan

vars == <<life, open>>

Life == {"none", "making", "waiting", "running", "finished", "archived", "lost"}
Queued == {r \in Req : life[r] \in {"waiting", "running", "finished"}}

Init ==
  /\ life = [r \in Req |-> "none"]
  /\ open = {}

Become(r, from, to) ==
  /\ life[r] \in from
  /\ life' = [life EXCEPT ![r] = to]

Make(r) == Become(r, {"none"}, "making") /\ UNCHANGED open
Made(r) == Become(r, {"making"}, "waiting") /\ UNCHANGED open
Run(r)  == Become(r, {"waiting"}, "running") /\ UNCHANGED open
Wait(r) == Become(r, {"running"}, "waiting") /\ UNCHANGED open
Finish(r) == Become(r, {"waiting", "running"}, "finished") /\ UNCHANGED open

\* Creating the request was cut short.
Lose(r) == Become(r, {"making"}, "lost") /\ UNCHANGED open

RunAgain(r) == Forced /\ Become(r, {"finished"}, "running") /\ UNCHANGED open

\* The result need not have been saved in the queue before.
Archive(r) ==
  /\ Become(r, {"running", "finished"}, "archived")
  /\ Offline \/ r \notin open
  /\ UNCHANGED open

Announce(R) ==
  /\ R \subseteq {r \in Req : life[r] = "waiting"}
  /\ open' = open \cup R
  /\ UNCHANGED life

Close(R) ==
  /\ R \subseteq {r \in Req : life[r] \in {"running", "finished", "archived"}}
  /\ open' = open \ R
  /\ UNCHANGED life

Next ==
  \/ \E r \in Req : \/ Make(r) \/ Made(r) \/ Lose(r)
                    \/ Run(r) \/ Wait(r) \/ Finish(r) \/ RunAgain(r)
                    \/ Archive(r)
  \/ \E R \in SUBSET Req : Announce(R) \/ Close(R)

Spec == Init /\ [][Next]_vars

---------------------------------------------------------------------------
TypeOK == life \in [Req -> Life] /\ open \subseteq Req

\* Unless runs are made offline, the directory plans only what is queued.
OpenIsQueued == ~Offline => open \subseteq Queued
=============================================================================
