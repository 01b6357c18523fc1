----------------------------- MODULE TakingTurns -----------------------------
(***************************************************************************)
(* What the maintenance of Ceph hosts promises, whatever command times out *)
(* and whatever agent is killed: hosts take turns. Only the host whose     *)
(* turn it is keeps OSDs from starting, and only its own; it begins when   *)
(* all OSDs are up, and gives up its turn, for the next host to take it,   *)
(* only after it has let go of all of them.                                *)
(***************************************************************************)
CONSTANTS
  Host,
  Osd,
  HostOf,   \* the host of an OSD
  None      \* no host

VARIABLES
  turn,     \* the host whose turn it is
  held,     \* OSDs that are kept from starting
  down      \* OSDs that are down

vars == <<turn, held, down>>

OsdsOf(h) == {o \in Osd : HostOf[o] = h}

Init ==
  /\ turn = None
  /\ held = {}
  /\ down = {}

TakeTurn(h) ==
  /\ turn = None
  /\ turn' = h
  /\ UNCHANGED <<held, down>>

Hold(h) ==
  /\ turn = h
  /\ down = {}
  /\ held' = held \cup OsdsOf(h)
  /\ UNCHANGED <<turn, down>>

TakeDown(h) ==
  /\ turn = h
  /\ down = {}
  /\ OsdsOf(h) \subseteq held
  /\ down' = OsdsOf(h)
  /\ UNCHANGED <<turn, held>>

LetGo(o) ==
  /\ o \in held
  /\ held' = held \ {o}
  /\ UNCHANGED <<turn, down>>

GiveUpTurn ==
  /\ held = {}
  /\ turn' = None
  /\ UNCHANGED <<held, down>>

\* Also after the turn of its host.
ComeUp(o) ==
  /\ o \in down \ held
  /\ down' = down \ {o}
  /\ UNCHANGED <<turn, held>>

Next ==
  \/ \E h \in Host : TakeTurn(h) \/ Hold(h) \/ TakeDown(h)
  \/ \E o \in Osd : LetGo(o) \/ ComeUp(o)
  \/ GiveUpTurn

Spec == Init /\ [][Next]_vars

---------------------------------------------------------------------------
\* Only OSDs of the host whose turn it is are kept from starting.
HeldInTurn == \A o \in held : o \in Osd /\ turn = HostOf[o]

\* The OSDs that are down or kept from starting are those of one host.
OneHostAtATime == \A o, p \in held \cup down : HostOf[o] = HostOf[p]
=============================================================================
