------------------------ MODULE CephMaintenanceProofs ------------------------
(***************************************************************************)
(* For any number of hosts, any placement of OSDs and any number of        *)
(* failures, maintenance takes down OSDs of at most one host at a time,    *)
(* and the hosts take turns (TakingTurns).                                 *)
(***************************************************************************)
EXTENDS CephMaintenance, TLAPS

(***************************************************************************)
(* The inductive invariant: a host works under the lock from the moment it *)
(* has it, its OSDs are unflagged before it unlocks, leave's list of OSDs  *)
(* is complete and of its own OSDs only, and no OSD is down when a host is *)
(* about to flag its own, and then to take down those that it has flagged. *)
(***************************************************************************)
HolderChecks == \A h \in Host : pc[h] \in {"health", "noup", "down"} => lock = h

NoneFlagged ==
  \A h \in Host : pc[h] \in Releasing => \A o \in noup : HostOf[o] # h

ListComplete ==
  \A h \in Host : pc[h] = "unset" => \A o \in noup : HostOf[o] = h => o \in flagged[h]

ListOwn == \A h \in Host : flagged[h] \subseteq OsdsOf(h)

CheckedHealthy == \A h \in Host : pc[h] \in {"noup", "down"} => down = {}

FlaggedFirst == \A h \in Host : pc[h] = "down" => OsdsOf(h) \subseteq noup

Inv ==
  /\ TypeOK
  /\ HolderChecks /\ NoupUnderLock
  /\ NoneFlagged /\ ListComplete /\ ListOwn
  /\ CheckedHealthy /\ FlaggedFirst /\ DownOnOneHost

---------------------------------------------------------------------------
\* Every step of every host keeps the types.
LEMMA TypeStep == TypeOK /\ [Next]_vars => TypeOK'
<1> SUFFICES ASSUME TypeOK, [Next]_vars PROVE TypeOK'
    OBVIOUS
<1> USE CephAssumption
    DEF TypeOK, Phase, Goto, CallLeave, End, FailOnce, OsdsOf, cluster, command
<1>1. CASE UNCHANGED vars
  BY <1>1 DEF vars
<1>2. ASSUME NEW h \in Host, BecomeDue(h) \/ BecomeLate(h) PROVE TypeOK'
  BY <1>2 DEF BecomeDue, BecomeLate
<1>3. ASSUME NEW h \in Host, Run(h) \/ Maintain(h) PROVE TypeOK'
  BY <1>3 DEF Run, Maintain
<1>4. ASSUME NEW h \in Host, EnsureVolume(h) \/ CreateVolume(h) PROVE TypeOK'
  <2>1. CASE EnsureVolume(h)
    BY <2>1 DEF EnsureVolume
  <2>2. CASE CreateVolume(h)
    BY <2>2 DEF CreateVolume
  <2> QED
    BY <1>4, <2>1, <2>2
<1>5. ASSUME NEW h \in Host, Lock(h) \/ LockRefused(h) \/ LockTimesOut(h) PROVE TypeOK'
  BY <1>5 DEF Lock, LockRefused, LockTimesOut
<1>6. ASSUME NEW h \in Host, CheckHealth(h) \/ SetNoup(h) \/ OsdDown(h) \/ SetNoupFails(h)
      PROVE  TypeOK'
  <2>1. CASE CheckHealth(h)
    BY <2>1 DEF CheckHealth
  <2>2. CASE SetNoup(h) \/ OsdDown(h)
    BY <2>2 DEF SetNoup, OsdDown
  <2>3. CASE SetNoupFails(h)
    BY <2>3 DEF SetNoupFails
  <2> QED
    BY <1>6, <2>1, <2>2, <2>3
<1>7. ASSUME NEW h \in Host, FindFlagged(h) \/ AllUnset(h) \/ Workaround(h) PROVE TypeOK'
  <2>1. CASE FindFlagged(h)
    BY <2>1 DEF FindFlagged
  <2>2. CASE AllUnset(h)
    BY <2>2 DEF AllUnset
  <2>3. CASE Workaround(h)
    BY <2>3 DEF Workaround
  <2> QED
    BY <1>7, <2>1, <2>2, <2>3
<1>8. ASSUME NEW h \in Host, NEW o \in Osd, Unset(h, o) PROVE TypeOK'
  BY <1>8 DEF Unset
<1>9. ASSUME NEW h \in Host, Unlock(h) PROVE TypeOK'
  BY <1>9 DEF Unlock, Unlocked
<1>10. ASSUME NEW h \in Host, UnlockTimesOut(h) PROVE TypeOK'
  BY <1>10 DEF UnlockTimesOut, Unlocked
<1>11. ASSUME NEW h \in Host, Crash(h) PROVE TypeOK'
  BY <1>11 DEF Crash
<1>12. ASSUME NEW o \in Osd, Boot(o) PROVE TypeOK'
  BY <1>12 DEF Boot
<1> QED
  BY <1>1, <1>2, <1>3, <1>4, <1>5, <1>6, <1>7, <1>8, <1>9, <1>10, <1>11, <1>12
  DEF Next, Step, Failure

\* In the beginning the image is not locked and no OSD is flagged or down.
LEMMA InitInv == Init => Inv
<1> SUFFICES ASSUME Init PROVE Inv
    OBVIOUS
<1>1. TypeOK
  <2>1. 0 \in 0 .. UNLOCK_MAX_RETRIES - 1 /\ 0 \in 0..MaxFailures
    BY CephAssumption
  <2> QED
    BY <2>1 DEF Init, TypeOK, Phase
<1>2. HolderChecks /\ NoneFlagged /\ ListComplete /\ ListOwn /\ CheckedHealthy /\ FlaggedFirst
  BY DEF Init, HolderChecks, NoneFlagged, ListComplete, ListOwn, CheckedHealthy, FlaggedFirst, Releasing
<1>3. NoupUnderLock /\ DownOnOneHost
  BY DEF Init, NoupUnderLock, DownOnOneHost
<1> QED
  BY <1>1, <1>2, <1>3 DEF Inv

(***************************************************************************)
(* A step of host h that neither flags nor takes down an OSD, removes no   *)
(* flag but of its own, does not make the lock change hands unless h may, and puts h into a phase whose  *)
(* part of the invariant holds, keeps the invariant.                       *)
(***************************************************************************)
LEMMA StepOfHost ==
  ASSUME Inv, TypeOK', NEW h \in Host,
         \A g \in Host \ {h} : pc'[g] = pc[g] /\ flagged'[g] = flagged[g],
         noup' \subseteq noup, \A o \in noup \ noup' : HostOf[o] = h,
         flagged'[h] \subseteq OsdsOf(h),
         down' \subseteq down,
         \/ lock' = lock
         \/ lock = None
         \/ lock = h /\ (pc[h] \in Releasing) /\ pc'[h] \notin {"health", "noup"},
         pc'[h] # "down",
         pc'[h] = "health" => lock' = h,
         pc'[h] = "noup" => lock' = h /\ down' = {},
         pc'[h] \in Releasing =>
           pc[h] \in Releasing \/ \A o \in noup' : HostOf[o] # h,
         pc'[h] = "unset" => \A o \in noup' : HostOf[o] = h => o \in flagged'[h]
  PROVE  Inv'
<1> USE CephAssumption DEF Inv, TypeOK
<1>1. HolderChecks'
  BY DEF HolderChecks
<1>2. NoupUnderLock'
  BY DEF NoupUnderLock, NoneFlagged
<1>3. NoneFlagged'
  BY DEF NoneFlagged
<1>4. ListComplete'
  BY DEF ListComplete
<1>5. ListOwn'
  BY DEF ListOwn, OsdsOf
<1>6. CheckedHealthy'
  BY DEF CheckedHealthy
<1>7. FlaggedFirst'
  BY DEF FlaggedFirst, OsdsOf
<1>8. DownOnOneHost'
  BY DEF DownOnOneHost
<1> QED
  BY <1>1, <1>2, <1>3, <1>4, <1>5, <1>6, <1>7, <1>8

\* Flagging OSDs and taking them down: h holds the lock, and no other is down.
LEMMA FlagStep ==
  ASSUME Inv, TypeOK', NEW h \in Host, SetNoup(h) \/ OsdDown(h) \/ SetNoupFails(h)
  PROVE  Inv'
<1> USE CephAssumption
    DEF Inv, TypeOK, SetNoup, OsdDown, SetNoupFails, Goto, CallLeave, FailOnce, OsdsOf, command
<1>1. lock = h /\ lock' = h /\ down = {}
  BY DEF HolderChecks, CheckedHealthy
<1>2. /\ pc[h] \in {"noup", "down"}
      /\ pc'[h] \in {"down", "entered", "leave"} /\ flagged'[h] \in {{}, flagged[h]}
      /\ pc'[h] = "down" => pc[h] = "noup" /\ down' = down
      /\ \A g \in Host \ {h} : pc'[g] = pc[g] /\ flagged'[g] = flagged[g]
  OBVIOUS
<1>3. /\ \A o \in noup' : o \in noup \/ HostOf[o] = h
      /\ \A o \in down' : HostOf[o] = h
  BY <1>1
<1>4. HolderChecks'
  BY <1>1, <1>2 DEF HolderChecks
<1>5. NoupUnderLock'
  BY <1>1, <1>3 DEF NoupUnderLock
<1>6. NoneFlagged'
  BY <1>2, <1>3 DEF NoneFlagged, Releasing
<1>7. ListComplete'
  BY <1>2, <1>3 DEF ListComplete
<1>8. CheckedHealthy'
  BY <1>1, <1>2 DEF CheckedHealthy, HolderChecks
<1>9. DownOnOneHost'
  BY <1>3 DEF DownOnOneHost
<1>10. ListOwn'
  BY <1>2 DEF ListOwn
<1>11. FlaggedFirst'
  <2>1. noup \subseteq noup'
    OBVIOUS
  <2>2. pc'[h] = "down" => noup' = noup \cup OsdsOf(h)
    OBVIOUS
  <2> QED
    BY <1>2, <2>1, <2>2 DEF FlaggedFirst
<1> QED
  BY <1>4, <1>5, <1>6, <1>7, <1>8, <1>9, <1>10, <1>11

\* Every step of every host and every OSD keeps the inductive invariant.
LEMMA InvStep == Inv /\ [Next]_vars => Inv'
<1> SUFFICES ASSUME Inv, [Next]_vars PROVE Inv'
    OBVIOUS
<1>0. TypeOK /\ TypeOK' /\ \A g \in Host : flagged[g] \subseteq OsdsOf(g)
  BY TypeStep DEF Inv, ListOwn
<1> USE CephAssumption DEF TypeOK, Goto, CallLeave, End, FailOnce, cluster, command
<1>1. CASE UNCHANGED vars
  BY <1>0, <1>1 DEF vars, Inv, HolderChecks, NoupUnderLock, NoneFlagged, ListComplete, ListOwn,
                    CheckedHealthy, FlaggedFirst, DownOnOneHost
<1>2. ASSUME NEW h \in Host, BecomeDue(h) \/ BecomeLate(h) PROVE Inv'
  BY <1>0, <1>2 DEF BecomeDue, BecomeLate, Inv, HolderChecks, NoupUnderLock, NoneFlagged,
                    ListComplete, ListOwn, CheckedHealthy, FlaggedFirst, DownOnOneHost
<1>3. ASSUME NEW h \in Host, Run(h) \/ Maintain(h) PROVE Inv'
  BY <1>0, <1>3, StepOfHost DEF Run, Maintain, Releasing
<1>4. ASSUME NEW h \in Host, EnsureVolume(h) \/ CreateVolume(h) PROVE Inv'
  BY <1>0, <1>4, StepOfHost DEF EnsureVolume, CreateVolume, Releasing
<1>5. ASSUME NEW h \in Host, Lock(h) PROVE Inv'
  BY <1>0, <1>5, StepOfHost DEF Lock, Releasing
<1>6. ASSUME NEW h \in Host, LockRefused(h) \/ LockTimesOut(h) PROVE Inv'
  BY <1>0, <1>6, StepOfHost DEF LockRefused, LockTimesOut, Releasing
<1>7. ASSUME NEW h \in Host, CheckHealth(h) PROVE Inv'
  <2>1. lock = h /\ lock' = h
    BY <1>7 DEF CheckHealth, Inv, HolderChecks
  <2> QED
    BY <1>0, <1>7, <2>1, StepOfHost DEF CheckHealth, Healthy, Releasing
<1>8. ASSUME NEW h \in Host, SetNoup(h) \/ OsdDown(h) \/ SetNoupFails(h) PROVE Inv'
  BY <1>0, <1>8, FlagStep
<1>9. ASSUME NEW h \in Host, FindFlagged(h) PROVE Inv'
  BY <1>0, <1>9, StepOfHost DEF FindFlagged, OsdsOf, Releasing
<1>10. ASSUME NEW h \in Host, AllUnset(h) PROVE Inv'
  <2>1. \A o \in noup : HostOf[o] # h
    BY <1>10 DEF AllUnset, Inv, ListComplete
  <2> QED
    BY <1>0, <1>10, <2>1, StepOfHost DEF AllUnset, Releasing
<1>11. ASSUME NEW h \in Host, NEW o \in Osd, Unset(h, o) PROVE Inv'
  <2>1. \A p \in noup' : HostOf[p] = h => p \in flagged'[h]
    BY <1>11 DEF Unset, Inv, ListComplete
  <2>2. HostOf[o] = h
    BY <1>0, <1>11 DEF Unset, OsdsOf
  <2>3. \A p \in noup : HostOf[p] # h => p \in noup'
    BY <1>11, <2>2 DEF Unset
  <2> QED
    BY <1>0, <1>11, <2>1, <2>2, <2>3, StepOfHost DEF Unset, Releasing
<1>12. ASSUME NEW h \in Host, Workaround(h) PROVE Inv'
  BY <1>0, <1>12, StepOfHost DEF Workaround, Releasing
<1>13. ASSUME NEW h \in Host, Unlock(h) PROVE Inv'
  BY <1>0, <1>13, StepOfHost DEF Unlock, Unlocked, Releasing
<1>14. ASSUME NEW h \in Host, UnlockTimesOut(h) PROVE Inv'
  BY <1>0, <1>14, StepOfHost DEF UnlockTimesOut, Unlocked, Releasing
<1>15. ASSUME NEW h \in Host, Crash(h) PROVE Inv'
  BY <1>0, <1>15, StepOfHost DEF Crash, Releasing
<1>16. ASSUME NEW o \in Osd, Boot(o) PROVE Inv'
  BY <1>0, <1>16 DEF Boot, Inv, HolderChecks, NoupUnderLock, NoneFlagged, ListComplete,
                     ListOwn, CheckedHealthy, FlaggedFirst, DownOnOneHost
<1> QED
  BY <1>1, <1>2, <1>3, <1>4, <1>5, <1>6, <1>7, <1>8, <1>9, <1>10, <1>11, <1>12,
     <1>13, <1>14, <1>15, <1>16
  DEF Next, Step, Failure

---------------------------------------------------------------------------
\* The inductive invariant holds in every reachable state.
THEOREM Invariance == Spec => []Inv
  BY InitInv, InvStep, PTL DEF Spec

\* Types are kept, and leave's unlock attempts are limited.
THEOREM TypeCorrect == Spec => []TypeOK
  BY Invariance, PTL DEF Inv

\* Only the holder of rbd/.maintenance has OSDs that are flagged noup.
THEOREM NoupUnderLockHolds == Spec => []NoupUnderLock
  BY Invariance, PTL DEF Inv

\* Maintenance never takes down OSDs of two hosts at a time.
THEOREM DownOnOneHostHolds == Spec => []DownOnOneHost
  BY Invariance, PTL DEF Inv

---------------------------------------------------------------------------
(***************************************************************************)
(* The hosts take turns. A step of a host takes or gives back the lock,    *)
(* flags OSDs, takes them down or removes a flag, or TakingTurns does not  *)
(* see it.                                                                 *)
(***************************************************************************)

\* Whoever releases the lock has removed all flags: there are no others.
LEMMA ReleaseIsLast ==
  ASSUME Inv, NEW h \in Host, pc[h] \in Releasing, UNCHANGED <<noup, down>>,
         lock' \in {lock, Unlocked(h)}
  PROVE  [Turns!Next]_Turns!vars
<1>1. CASE lock' = lock
  BY <1>1 DEF Turns!vars
<1>2. CASE lock = h /\ lock' = None
  <2>1. \A o \in noup : lock = HostOf[o] /\ HostOf[o] # h
    BY DEF Inv, NoupUnderLock, NoneFlagged
  <2>2. Turns!GiveUpTurn
    BY <1>2, <2>1 DEF Turns!GiveUpTurn
  <2> QED
    BY <2>2 DEF Turns!Next
<1> QED
  BY <1>1, <1>2 DEF Unlocked

\* A step that takes the lock only when it is free begins a turn or is not seen.
LEMMA TurnBegins ==
  ASSUME NEW h \in Host, UNCHANGED <<noup, down>>,
         lock' = lock \/ (lock \in {None, h} /\ lock' = h)
  PROVE  [Turns!Next]_Turns!vars
<1>1. CASE lock' = lock
  BY <1>1 DEF Turns!vars
<1>2. CASE lock = None /\ lock' = h
  BY <1>2 DEF Turns!Next, Turns!TakeTurn
<1> QED
  BY <1>1, <1>2

\* A host flags its OSDs and takes them down in its turn, when none is down.
LEMMA FlagsInTurn ==
  ASSUME Inv, NEW h \in Host, SetNoup(h) \/ OsdDown(h) \/ SetNoupFails(h)
  PROVE  [Turns!Next]_Turns!vars
<1> USE DEF Turns!OsdsOf, OsdsOf
<1>1. lock = h /\ lock' = h /\ down = {}
  BY DEF Inv, HolderChecks, CheckedHealthy, SetNoup, OsdDown, SetNoupFails, Goto
<1>2. CASE noup' = noup \cup OsdsOf(h) /\ down' = down
  BY <1>1, <1>2 DEF Turns!Hold, Turns!Next
<1>3. CASE pc[h] = "down" /\ noup' = noup /\ down' = down \cup OsdsOf(h)
  <2>1. Turns!TakeDown(h)
    BY <1>1, <1>3 DEF Inv, FlaggedFirst, Turns!TakeDown
  <2> QED
    BY <2>1 DEF Turns!Next
<1>4. CASE noup' = noup /\ down' = down
  BY <1>1, <1>4 DEF Turns!vars
<1> QED
  BY <1>2, <1>3, <1>4 DEF SetNoup, OsdDown, SetNoupFails, Goto

\* Every step of the hosts and of the OSDs is a step of TakingTurns or a stutter.
LEMMA StepIsTurn == Inv /\ [Next]_vars => [Turns!Next]_Turns!vars
<1> SUFFICES ASSUME Inv, [Next]_vars PROVE [Turns!Next]_Turns!vars
    OBVIOUS
<1> USE DEF Goto, FailOnce, cluster
<1>1. CASE UNCHANGED vars
  BY <1>1 DEF vars, Turns!vars
<1>2. ASSUME NEW h \in Host,
             \/ BecomeDue(h) \/ BecomeLate(h) \/ Run(h) \/ Maintain(h)
             \/ EnsureVolume(h) \/ CreateVolume(h) \/ LockRefused(h) \/ CheckHealth(h)
             \/ FindFlagged(h) \/ AllUnset(h) \/ Workaround(h) \/ Crash(h)
      PROVE  [Turns!Next]_Turns!vars
  <2>1. UNCHANGED <<lock, noup, down>>
    BY <1>2 DEF BecomeDue, BecomeLate, Run, Maintain, EnsureVolume, CreateVolume,
                LockRefused, CheckHealth, FindFlagged, AllUnset, Workaround, Crash
  <2> QED
    BY <2>1 DEF Turns!vars
<1>3. ASSUME NEW h \in Host, Lock(h) \/ LockTimesOut(h) PROVE [Turns!Next]_Turns!vars
  BY <1>3, TurnBegins DEF Lock, LockTimesOut
<1>4. ASSUME NEW h \in Host, SetNoup(h) \/ OsdDown(h) \/ SetNoupFails(h)
      PROVE  [Turns!Next]_Turns!vars
  BY <1>4, FlagsInTurn
<1>5. ASSUME NEW h \in Host, NEW o \in Osd, Unset(h, o) PROVE [Turns!Next]_Turns!vars
  BY <1>5 DEF Unset, Turns!LetGo, Turns!Next
<1>6. ASSUME NEW h \in Host, Unlock(h) \/ UnlockTimesOut(h) PROVE [Turns!Next]_Turns!vars
  BY <1>6, ReleaseIsLast DEF Unlock, UnlockTimesOut, Releasing
<1>7. ASSUME NEW o \in Osd, Boot(o) PROVE [Turns!Next]_Turns!vars
  BY <1>7 DEF Boot, Turns!ComeUp, Turns!Next
<1> QED
  BY <1>1, <1>2, <1>3, <1>4, <1>5, <1>6, <1>7 DEF Next, Step, Failure

\* The maintenance of any hosts, whatever fails, implements taking turns.
THEOREM TurnsKeptHolds == Spec => TurnsKept
<1>1. Init => Turns!Init
  BY DEF Init, Turns!Init
<1> QED
  BY <1>1, StepIsTurn, Invariance, PTL DEF Spec, TurnsKept, Turns!Spec

\* Whatever keeps the promises of TakingTurns keeps OSDs from starting only in
\* the turn of their host, and touches the OSDs of one host at a time.
THEOREM TurnsSuffice ==
  TurnsKept => [](Turns!HeldInTurn /\ Turns!OneHostAtATime)
<1> DEFINE Safe == Turns!HeldInTurn /\ Turns!OneHostAtATime
<1>1. Turns!Init => Safe
  BY DEF Turns!Init, Turns!HeldInTurn, Turns!OneHostAtATime
<1>2. Safe /\ [Turns!Next]_Turns!vars => Safe'
  <2> SUFFICES ASSUME Safe, [Turns!Next]_Turns!vars PROVE Safe'
      OBVIOUS
  <2> USE DEF Turns!HeldInTurn, Turns!OneHostAtATime, Turns!OsdsOf
  <2>1. CASE UNCHANGED Turns!vars
    BY <2>1 DEF Turns!vars
  <2>2. ASSUME NEW h \in Host, Turns!TakeTurn(h) PROVE Safe'
    BY <2>2, CephAssumption DEF Turns!TakeTurn
  <2>3. ASSUME NEW h \in Host, Turns!Hold(h) \/ Turns!TakeDown(h) PROVE Safe'
    BY <2>3 DEF Turns!Hold, Turns!TakeDown
  <2>4. ASSUME NEW o \in Osd, Turns!LetGo(o) \/ Turns!ComeUp(o) PROVE Safe'
    BY <2>4 DEF Turns!LetGo, Turns!ComeUp
  <2>5. CASE Turns!GiveUpTurn
    BY <2>5 DEF Turns!GiveUpTurn
  <2> QED
    BY <2>1, <2>2, <2>3, <2>4, <2>5 DEF Turns!Next
<1> QED
  BY <1>1, <1>2, PTL DEF TurnsKept, Turns!Spec
=============================================================================
