------------------------ MODULE RequestLifecycleProofs ------------------------
(***************************************************************************)
(* What follows from the promises of RequestLifecycle alone, for any set   *)
(* of requests.                                                            *)
(***************************************************************************)
EXTENDS RequestLifecycle, TLAPS

Inv == TypeOK /\ OpenIsQueued

\* In the beginning there are no requests to plan.
LEMMA InitInv == Init => Inv
  BY DEF Init, Inv, TypeOK, OpenIsQueued, Life

\* Every step keeps Inv: a request gets on the plan while it waits, and comes
\* off before it leaves the queue.
LEMMA InvStep == Inv /\ [Next]_vars => Inv'
<1> SUFFICES ASSUME Inv, [Next]_vars PROVE Inv'
    OBVIOUS
<1> USE DEF Inv, TypeOK, OpenIsQueued, Queued, Life
<1>1. CASE UNCHANGED vars
  BY <1>1 DEF vars
<1>2. ASSUME NEW r \in Req, Make(r) \/ Made(r) \/ Lose(r) PROVE Inv'
  BY <1>2 DEF Make, Made, Lose, Become
<1>3. ASSUME NEW r \in Req, Run(r) \/ Wait(r) \/ Finish(r) \/ RunAgain(r) PROVE Inv'
  BY <1>3 DEF Run, Wait, Finish, RunAgain, Become
<1>4. ASSUME NEW r \in Req, Archive(r) PROVE Inv'
  BY <1>4 DEF Archive, Become
<1>5. ASSUME NEW R \in SUBSET Req, Announce(R) PROVE Inv'
  BY <1>5 DEF Announce
<1>6. ASSUME NEW R \in SUBSET Req, Close(R) PROVE Inv'
  BY <1>6 DEF Close
<1> QED
  BY <1>1, <1>2, <1>3, <1>4, <1>5, <1>6 DEF Next

\* Without offline runs the directory plans only requests that are queued.
THEOREM OpenIsQueuedHolds == Spec => [](TypeOK /\ OpenIsQueued)
  BY InitInv, InvStep, PTL DEF Spec, Inv

\* An archived request stays archived, whatever happens.
THEOREM ArchivedForGood ==
  ASSUME NEW r \in Req
  PROVE  Spec => [][life[r] = "archived" => life'[r] = "archived"]_vars
<1>1. TypeOK /\ [Next]_vars => [life[r] = "archived" => life'[r] = "archived"]_vars
  BY DEF TypeOK, Next, vars, Make, Made, Lose, Run, Wait, Finish, RunAgain,
         Archive, Become, Announce, Close
<1> QED
  BY <1>1, OpenIsQueuedHolds, PTL DEF Spec
=============================================================================
