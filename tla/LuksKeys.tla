------------------------------- MODULE LuksKeys -------------------------------
(***************************************************************************)
(* The keys of a machine's encrypted volumes: slot 0 is for the key file   *)
(* in the machine's keystore, slot 1 for the passphrase of the location's  *)
(* administrators. fc-luks replaces each with the help of the other, and   *)
(* may be interrupted after each step; administrators mistype.             *)
(***************************************************************************)
EXTENDS Naturals, FiniteSets

CONSTANTS
  Vol,     \* encrypted volumes
  Key,     \* what key files may contain
  Phrase,  \* the passphrases that administrators know
  Bounds   \* bounds: commands, interruptions, typing errors

VARIABLES
  local, admin,  \* what opens each volume by either slot, or None
  formatted,     \* the volumes that there are
  key_file,      \* its content, None without a keystore, Empty if it is not written
  fingerprint,   \* the passphrase whose fingerprint the keystore has, or None
  command,       \* the running command
  left           \* what remains of the bounds

None == "none"
Empty == "empty"
Typo == "typo"
Typed == Phrase \cup {Typo}

LuksAssumption ==
  /\ {None, Empty} \cap Key = {} /\ {None, Typo} \cap Phrase = {}
  /\ Bounds \subseteq [commands : Nat, interrupts : Nat, typos : Nat]

slots == <<local, admin, formatted>>
vars == <<slots, key_file, fingerprint, command, left>>

Idle == [pc |-> "idle", slot |-> "local", todo |-> {}, vol |-> None, typed |-> None]
Phase == {"idle", "key", "prompt", "next", "kill", "add", "format", "ask", "add_admin"}

TypeOK ==
  /\ local \in [Vol -> Key \cup {None}] /\ admin \in [Vol -> Typed \cup {None}]
  /\ formatted \subseteq Vol
  /\ key_file \in Key \cup {None, Empty} /\ fingerprint \in Typed \cup {None}
  /\ command \in [pc : Phase, slot : {"local", "admin"}, todo : SUBSET Vol, vol : Vol \cup {None},
                  typed : Typed \cup {None}]

Init ==
  /\ local = [v \in Vol |-> None] /\ admin = [v \in Vol |-> None] /\ formatted = {}
  /\ key_file = None /\ fingerprint = None
  /\ command = Idle
  /\ left \in Bounds

Use(bound) == left[bound] > 0 /\ left' = [left EXCEPT ![bound] = @ - 1]
At(phase) == command.pc = phase
GoTo(phase) == command' = [command EXCEPT !.pc = phase]
Begin == At("idle") /\ Use("commands")

---------------------------------------------------------------------------
(* admin_key_for_input: a passphrase whose fingerprint is not the stored   *)
(* one is used if the administrator says so, which is then stored. Both    *)
(* happen with a right one and, once in a while, with a wrong one.         *)
Prompt(phase, then) ==
  /\ At(phase) /\ key_file # None
  /\ \E p \in Typed :
       /\ IF p = Typo THEN Use("typos") ELSE UNCHANGED left
       /\ fingerprint' = p
       /\ command' = [command EXCEPT !.pc = then, !.typed = p]
  /\ UNCHANGED <<slots, key_file>>

---------------------------------------------------------------------------
(* keystore create: a volume, then a new key in it.                        *)
CreateKeystore ==
  /\ Begin /\ key_file = None
  /\ key_file' = Empty /\ GoTo("key")
  /\ UNCHANGED <<slots, fingerprint>>

WriteKey ==
  /\ At("key")
  /\ key_file' \in {k \in Key : \A v \in Vol : local[v] # k}
  /\ command' = Idle
  /\ UNCHANGED <<slots, fingerprint, left>>

\* keystore test-open, with the right passphrase: both keys open every volume.
test_open_admin(p) == \A v \in formatted : local[v] = key_file /\ admin[v] # None
test_open(p) == \A v \in formatted : local[v] = key_file /\ admin[v] = p

(* keystore destroy: the administrator has made sure of the passphrase,    *)
(* with test-open if there is a key to test.                               *)
DestroyKeystore ==
  /\ Begin /\ key_file # None
  /\ \E p \in Phrase : test_open(p) \/ (key_file = Empty /\ \A v \in formatted : admin[v] = p)
  /\ key_file' = None /\ fingerprint' = None
  /\ UNCHANGED <<slots, command>>

---------------------------------------------------------------------------
(* A new encrypted volume, and its end.                                    *)
CreateVolume(v) ==
  /\ Begin /\ v \notin formatted /\ key_file \in Key
  /\ command' = [Idle EXCEPT !.pc = "format", !.vol = v]
  /\ UNCHANGED <<slots, key_file, fingerprint>>

LuksFormat ==
  /\ At("format")
  /\ formatted' = formatted \cup {command.vol}
  /\ local' = [local EXCEPT ![command.vol] = key_file]
  /\ admin' = [admin EXCEPT ![command.vol] = None]
  /\ GoTo("ask")
  /\ UNCHANGED <<key_file, fingerprint, left>>

LuksAddAdmin ==
  /\ At("add_admin")
  /\ admin' = [admin EXCEPT ![command.vol] = command.typed]
  /\ command' = Idle
  /\ UNCHANGED <<local, formatted, key_file, fingerprint, left>>

Purge(v) ==
  /\ Begin /\ v \in formatted
  /\ formatted' = formatted \ {v}
  /\ local' = [local EXCEPT ![v] = None] /\ admin' = [admin EXCEPT ![v] = None]
  /\ UNCHANGED <<key_file, fingerprint, command>>

---------------------------------------------------------------------------
(* keystore rekey of all volumes, or of one.                               *)
Rekey(slot, vols) ==
  /\ Begin /\ vols \in {formatted} \cup {{v} : v \in formatted}
  /\ command' = [Idle EXCEPT !.pc = "prompt", !.slot = slot, !.todo = vols]
  /\ UNCHANGED <<slots, key_file, fingerprint>>

NextVolume ==
  /\ At("next")
  /\ \/ \E v \in command.todo :
          command' = [command EXCEPT !.pc = "kill", !.vol = v, !.todo = @ \ {v}]
     \/ command.todo = {} /\ command' = Idle
  /\ UNCHANGED <<slots, key_file, fingerprint, left>>

\* A slip: the slot's own key verifies.
Verified_own(v) == IF command.slot = "local" THEN local[v] = key_file ELSE admin[v] = command.typed

\* The key of the opposite slot verifies.
Verified(v) == IF command.slot = "local" THEN admin[v] = command.typed ELSE local[v] = key_file

LuksKillSlot ==
  /\ At("kill")
  /\ LET v == command.vol
         empty == IF command.slot = "local" THEN local[v] = None ELSE admin[v] = None
     IN \/ empty /\ GoTo("add") /\ UNCHANGED <<local, admin>>
        \/ /\ ~empty /\ Verified(v)
           /\ GoTo("add")
           /\ local' = IF command.slot = "local" THEN [local EXCEPT ![v] = None] ELSE local
           /\ admin' = IF command.slot = "admin" THEN [admin EXCEPT ![v] = None] ELSE admin
        \/ ~empty /\ ~Verified(v) /\ command' = Idle /\ UNCHANGED <<local, admin>>
  /\ UNCHANGED <<formatted, key_file, fingerprint, left>>

LuksAddKey ==
  /\ At("add")
  /\ LET v == command.vol
     IN \/ /\ Verified(v) /\ (command.slot = "local" => key_file \in Key)
           /\ GoTo("next")
           /\ local' = IF command.slot = "local" THEN [local EXCEPT ![v] = key_file] ELSE local
           /\ admin' = IF command.slot = "admin" THEN [admin EXCEPT ![v] = command.typed] ELSE admin
        \/ /\ ~(Verified(v) /\ (command.slot = "local" => key_file \in Key))
           /\ command' = Idle /\ UNCHANGED <<local, admin>>
  /\ UNCHANGED <<formatted, key_file, fingerprint, left>>

Interrupt ==
  /\ ~At("idle") /\ Use("interrupts")
  /\ command' = Idle
  /\ UNCHANGED <<slots, key_file, fingerprint>>

Next ==
  \/ CreateKeystore \/ WriteKey \/ DestroyKeystore \/ LuksFormat \/ LuksAddAdmin
  \/ Prompt("prompt", "next") \/ Prompt("ask", "add_admin")
  \/ NextVolume \/ LuksKillSlot \/ LuksAddKey \/ Interrupt
  \/ \E v \in Vol : CreateVolume(v) \/ Purge(v)
  \/ \E slot \in {"local", "admin"}, vols \in SUBSET Vol : Rekey(slot, vols)

Spec == Init /\ [][Next]_vars

---------------------------------------------------------------------------
\* Whatever was interrupted or mistyped, every volume can be opened with the machine's key
\* file or with a passphrase that the administrators know.
Openable == \A v \in formatted :
  (local[v] # None /\ local[v] = key_file) \/ admin[v] \in Phrase
=============================================================================
