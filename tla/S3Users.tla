------------------------------- MODULE S3Users -------------------------------
(***************************************************************************)
(* fc-s3users on the primary gateway: every ten minutes it makes the users *)
(* of the RADOS gateway what the directory says. Each radosgw-admin call   *)
(* may fail, then the next user's turn comes; systemd stops a run after    *)
(* nine minutes.                                                           *)
(***************************************************************************)
EXTENDS Naturals, FiniteSets

CONSTANTS
  S3User,  \* uids
  Pair,    \* access keys with their secrets
  Bounds   \* bounds: changes in the directory, runs, failing calls, stopped runs

VARIABLES
  wanted,  \* the directory: each user's deletion stage and key pair
  gateway, \* the gateway's users: whether each exists, and its key pairs
  stamp,   \* the stamp file was written since the last run began
  sync,    \* the run
  left     \* what remains of the bounds

None == "none"

S3Assumption ==
  /\ None \notin Pair
  /\ Bounds \subseteq [changes : Nat, runs : Nat, failures : Nat, stops : Nat]

vars == <<wanted, gateway, stamp, sync, left>>

Stage == {"absent", "active", "soft", "hard"}
Entry == [stage : Stage, key : Pair]
RGWState == [exists : BOOLEAN, keys : SUBSET Pair]
NoUser == [exists |-> FALSE, keys |-> {}]
Phase == {"idle", "users", "next", "create", "modify", "list", "remove", "delete"}

\* What one run knows: the directory's answer, the main key of each local user.
Fresh(answer) == [pc |-> "users", answer |-> answer, main |-> [u \in S3User |-> None],
                  todo |-> {}, user |-> None, keys |-> {}, errors |-> FALSE]
Idle == [Fresh(<<>>) EXCEPT !.pc = "idle"]

TypeOK ==
  /\ wanted \in [S3User -> Entry]
  /\ gateway \in [S3User -> RGWState]
  /\ \A u \in S3User : gateway[u].keys # {} => gateway[u].exists
  /\ stamp \in BOOLEAN
  /\ sync.pc \in Phase /\ sync.todo \subseteq S3User /\ sync.keys \subseteq Pair
  /\ sync.pc # "idle" => sync.answer \in [S3User -> Entry]
  /\ sync.pc \notin {"idle", "users", "next"} => sync.user \in S3User

Init ==
  /\ \E k \in Pair : wanted = [u \in S3User |-> [stage |-> "active", key |-> k]]
  /\ gateway \in [S3User -> {NoUser}]
  /\ stamp = FALSE /\ sync = Idle /\ left \in Bounds

Use(bound) == left[bound] > 0 /\ left' = [left EXCEPT ![bound] = @ - 1]
At(phase) == sync.pc = phase
Current == sync.user
Wants == sync.answer[Current]

---------------------------------------------------------------------------
(* Customers and administrators use the directory at any time.             *)
Change(u) ==
  /\ Use("changes")
  /\ \/ \E s \in Stage \ {wanted[u].stage} : wanted' = [wanted EXCEPT ![u].stage = s]
     \/ \E k \in Pair \ {wanted[u].key} : wanted' = [wanted EXCEPT ![u].key = k]
  /\ UNCHANGED <<gateway, stamp, sync>>

(* An answer without the user says nothing about it: an administrator's.   *)
Start ==
  /\ At("idle") /\ Use("runs")
  /\ sync' = Fresh(wanted) /\ stamp' = FALSE
  /\ UNCHANGED <<wanted, gateway>>

\* RGWState.update: the first of the keys that the gateway lists.
update(u, keys, main) == IF keys = {} THEN main[u] = None ELSE main[u] \in keys

(* UserManager: what there is locally. Accounting ran before; its errors   *)
(* are remembered.                                                         *)
LoadUsers ==
  /\ At("users")
  /\ \E main \in [S3User -> Pair \cup {None}], failed \in BOOLEAN :
       /\ \A u \in S3User : update(u, gateway[u].keys, main)
       /\ IF failed THEN Use("failures") ELSE UNCHANGED left
       /\ sync' = [sync EXCEPT !.pc = "next", !.main = main, !.errors = failed,
                               !.todo = {u \in S3User : sync.answer[u].stage # "absent"}]
  /\ UNCHANGED <<wanted, gateway, stamp>>

LoadFails ==
  /\ At("users") /\ Use("failures")
  /\ sync' = Idle
  /\ UNCHANGED <<wanted, gateway, stamp>>

---------------------------------------------------------------------------
(* sync_users: User.ensure for one user after the other.                   *)
NextUser ==
  /\ At("next")
  /\ \E u \in sync.todo :
       sync' = [sync EXCEPT !.pc = IF sync.answer[u].stage = "hard" THEN "delete" ELSE "create",
                            !.user = u, !.todo = @ \ {u}]
  /\ UNCHANGED <<wanted, gateway, stamp, left>>

\* A call, or the query after it, fails: the user's turn ends, with or without the change.
Error(changed) ==
  /\ Use("failures")
  /\ sync' = [sync EXCEPT !.pc = "next", !.errors = TRUE]
  /\ gateway' \in {gateway, changed}

(* ensure_exists: a missing user is created with its key.                  *)
Create ==
  /\ At("create") /\ ~gateway[Current].exists
  /\ LET created == [gateway EXCEPT ![Current] = [exists |-> TRUE, keys |-> {Wants.key}]]
     IN \/ /\ gateway' = created
           /\ sync' = [sync EXCEPT !.pc = "modify", !.main[Current] = Wants.key]
           /\ UNCHANGED left
        \/ Error(created)
  /\ UNCHANGED <<wanted, stamp>>

\* A soft deletion means that the user exists, but without keys.
Ensured == [sync EXCEPT !.pc = IF Wants.stage = "soft" THEN "list" ELSE "next"]

(* user modify adds a key pair; one with another access key stays.         *)
Modify ==
  /\ At("modify") \/ (At("create") /\ gateway[Current].exists)
  /\ LET added == [gateway EXCEPT ![Current].keys = @ \cup {Wants.key}]
     IN \/ sync.main[Current] = Wants.key /\ sync' = Ensured /\ UNCHANGED <<gateway, left>>
        \/ /\ sync.main[Current] # Wants.key
           /\ \/ gateway' = added /\ sync' = Ensured /\ UNCHANGED left
              \/ Error(added)
  /\ UNCHANGED <<wanted, stamp>>

\* A slip: only the main key, which the user's last update has found.
to_remove_main(keys) == keys \cap {sync.main[Current]}

\* ensure_no_keys: every key that the user has now.
to_remove(keys) == keys

ListKeys ==
  /\ At("list")
  /\ \/ /\ sync' = [sync EXCEPT !.pc = "remove", !.keys = to_remove(gateway[Current].keys)]
        /\ UNCHANGED <<gateway, left>>
     \/ Error(gateway)
  /\ UNCHANGED <<wanted, stamp>>

RemoveKey ==
  /\ At("remove")
  /\ \/ \E k \in sync.keys :
          LET removed == [gateway EXCEPT ![Current].keys = @ \ {k}]
          IN \/ gateway' = removed /\ sync' = [sync EXCEPT !.keys = @ \ {k}] /\ UNCHANGED left
             \/ Error(removed)
     \/ /\ sync.keys = {} /\ sync' = [sync EXCEPT !.pc = "next"]
        /\ UNCHANGED <<gateway, left>>
  /\ UNCHANGED <<wanted, stamp>>

(* ensure_deleted, with the user's data.                                   *)
Delete ==
  /\ At("delete")
  /\ LET deleted == [gateway EXCEPT ![Current] = NoUser]
     IN \/ gateway' = deleted /\ sync' = [sync EXCEPT !.pc = "next"] /\ UNCHANGED left
        \/ gateway[Current].exists /\ Error(deleted)
  /\ UNCHANGED <<wanted, stamp>>

---------------------------------------------------------------------------
(* report_local_users_to_directory, then the stamp file that is monitored. *)
Report ==
  /\ At("next") /\ sync.todo = {}
  /\ \E reported \in BOOLEAN :
       /\ IF reported THEN UNCHANGED left ELSE Use("failures")
       /\ stamp' = (reported /\ ~sync.errors)
  /\ sync' = Idle
  /\ UNCHANGED <<wanted, gateway>>

Stop ==
  /\ ~At("idle") /\ Use("stops")
  /\ sync' = Idle
  /\ UNCHANGED <<wanted, gateway, stamp>>

Next ==
  \/ Start \/ LoadUsers \/ LoadFails \/ NextUser \/ Create \/ Modify \/ ListKeys \/ RemoveKey \/ Delete
  \/ Report \/ Stop
  \/ \E u \in S3User : Change(u)

Spec == Init /\ [][Next]_vars

---------------------------------------------------------------------------
\* When a run writes the stamp file, every user can use its key exactly if the directory's
\* answer says so: softly deleted users have no key at all, not even an old one, and hard
\* deleted ones are gone.
Agrees(u, entry) ==
  CASE entry.stage = "active" -> gateway[u].exists /\ entry.key \in gateway[u].keys
    [] entry.stage = "soft" -> gateway[u].exists /\ gateway[u].keys = {}
    [] entry.stage = "hard" -> ~gateway[u].exists
    [] OTHER -> TRUE

Synced == stamp' /\ ~stamp => \A u \in S3User : Agrees(u, sync.answer[u])
=============================================================================
