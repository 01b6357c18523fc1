------------------------------ MODULE CephKeys ------------------------------
(***************************************************************************)
(* fc-ceph keys mon-update-client-keys: every monitor's timer makes the    *)
(* cluster's client keys what the directory says of the nodes, from what   *)
(* it has asked for at the beginning, and deletes all others.              *)
(***************************************************************************)
EXTENDS Naturals, FiniteSets

CONSTANTS
  Node,    \* physical machines of the resource group
  Mon,     \* monitors
  Salt,    \* values of a node's secret_salt, from which its keys are derived
  Bounds   \* bounds: changes in the directory, runs, failing calls, killed runs

VARIABLES
  nodes,  \* the directory's nodes: their roles' keys, salt and environment class
  auth,   \* the cluster's keys
  mon,    \* the run on each monitor
  left    \* what remains of the bounds

None == "none"
Other == "other"  \* a key that is not derived from a salt, as on Gentoo

KeysAssumption ==
  /\ {None, Other} \cap Salt = {}
  /\ Bounds \subseteq [changes : Nat, runs : Nat, failures : Nat, kills : Nat]

vars == <<nodes, auth, mon, left>>

\* ROLE_KEYS: which kinds of keys a node's roles ask for.
Roles == {{}, {"client"}, {"client", "mgr"}}
Entity == Node \X {"client", "mgr"}
Listed == [keys : Roles, salt : Salt, stub : BOOLEAN]
Store == [Entity -> Salt \cup {None, Other}]
Phase == {"idle", "load", "ensure", "purge"}

Idle == [pc |-> "idle", answer |-> <<>>, known |-> <<>>, todo |-> {}, purge |-> {},
         errors |-> FALSE, alone |-> FALSE]

TypeOK ==
  /\ nodes \in [Node -> Listed] /\ auth \in Store
  /\ \A m \in Mon :
       /\ mon[m].pc \in Phase
       /\ mon[m].todo \subseteq Entity /\ mon[m].purge \subseteq Entity
       /\ mon[m].errors \in BOOLEAN /\ mon[m].alone \in BOOLEAN
       /\ mon[m].pc # "idle" => mon[m].answer \in [Node -> Listed]
       /\ mon[m].pc \in {"ensure", "purge"} => mon[m].known \in Store

Init ==
  /\ \E s \in Salt, stub \in [Node -> BOOLEAN] :
       /\ nodes = [n \in Node |-> [keys |-> {"client"}, salt |-> s, stub |-> stub[n]]]
       /\ auth = [e \in Entity |-> IF stub[e[1]] /\ e[2] = "client" THEN Other ELSE None]
  /\ mon = [m \in Mon |-> Idle] /\ left \in Bounds

Use(bound) == left[bound] > 0 /\ left' = [left EXCEPT ![bound] = @ - 1]
At(m, phase) == mon[m].pc = phase
Becomes(m, job) == mon' = [mon EXCEPT ![m] = job]

Needs(answer, e) == e[2] \in answer[e[1]].keys

---------------------------------------------------------------------------
(* The directory: a node comes and goes, gets other roles, another salt or *)
(* is installed anew with NixOS.                                           *)
Change(n) ==
  /\ Use("changes")
  /\ \/ \E keys \in Roles \ {nodes[n].keys} : nodes' = [nodes EXCEPT ![n].keys = keys]
     \/ \E s \in Salt \ {nodes[n].salt} : nodes' = [nodes EXCEPT ![n].salt = s]
     \/ nodes[n].stub /\ nodes' = [nodes EXCEPT ![n].stub = FALSE]
  /\ UNCHANGED <<auth, mon>>

(* list_nodes, and the keys that the roles ask for. Whether another run    *)
(* overlaps is remembered for the property only.                           *)
Start(m) ==
  /\ At(m, "idle") /\ Use("runs")
  /\ mon' = [i \in Mon |->
       IF i = m THEN [Idle EXCEPT !.pc = "load", !.answer = nodes,
                                  !.todo = {e \in Entity : Needs(nodes, e)},
                                  !.alone = \A j \in Mon : At(j, "idle")]
       ELSE [mon[i] EXCEPT !.alone = FALSE]]
  /\ UNCHANGED <<nodes, auth>>

(* keystore: the installed keys are listed for the first key that is to be *)
(* ensured, or by the purge when there is none.                            *)
Load(m) ==
  /\ At(m, "load") /\ (mon[m].todo # {} \/ ~mon[m].errors)
  /\ Becomes(m, [mon[m] EXCEPT !.pc = "ensure", !.known = auth])
  /\ UNCHANGED <<nodes, auth, left>>

(* A failure counts as one of that key, and the next key lists them again. *)
LoadFails(m) ==
  /\ At(m, "load") /\ Use("failures")
  /\ \/ \E e \in mon[m].todo :
           Becomes(m, [mon[m] EXCEPT !.todo = @ \ {e}, !.errors = TRUE])
     \/ mon[m].todo = {} /\ ~mon[m].errors /\ Becomes(m, Idle)
  /\ UNCHANGED <<nodes, auth>>

\* A slip: a stub's key is not recorded as seen.
Seen_nixos(answer, e) == Needs(answer, e) /\ ~answer[e[1]].stub

\* InstalledKeys.ensure: a key that is there with the same content is left alone.
matches(key, salt) == key = salt

(* ensure: failures are remembered, the next key's turn comes.             *)
Ensure(m, e) ==
  /\ At(m, "ensure") /\ e \in mon[m].todo
  /\ LET n == mon[m].answer[e[1]]
         done == [mon[m] EXCEPT !.todo = @ \ {e}]
     IN \/ /\ n.stub \/ matches(mon[m].known[e], n.salt)
           /\ Becomes(m, done) /\ UNCHANGED <<auth, left>>
        \/ /\ ~n.stub /\ ~matches(mon[m].known[e], n.salt)
           /\ \/ auth' = [auth EXCEPT ![e] = n.salt] /\ Becomes(m, done) /\ UNCHANGED left
              \/ Use("failures") /\ Becomes(m, [done EXCEPT !.errors = TRUE]) /\ UNCHANGED auth
  /\ UNCHANGED nodes

\* seen_entities: every key that a listed node's roles ask for, stub or not.
Seen(answer, e) == Needs(answer, e)

(* purge, unless there were errors: what was known and is not seen.        *)
StartPurge(m) ==
  /\ At(m, "ensure") \/ (At(m, "load") /\ mon[m].errors)
  /\ mon[m].todo = {}
  /\ IF mon[m].errors THEN Becomes(m, Idle)
     ELSE Becomes(m, [mon[m] EXCEPT !.pc = "purge",
            !.purge = {e \in Entity : mon[m].known[e] # None /\ ~Seen(mon[m].answer, e)}])
  /\ UNCHANGED <<nodes, auth, left>>

Delete(m, e) ==
  /\ At(m, "purge") /\ e \in mon[m].purge
  /\ \/ /\ auth' = [auth EXCEPT ![e] = None] /\ UNCHANGED left
        /\ Becomes(m, [mon[m] EXCEPT !.purge = @ \ {e}])
     \/ Use("failures") /\ Becomes(m, Idle) /\ UNCHANGED auth
  /\ UNCHANGED nodes

Finish(m) ==
  /\ At(m, "purge") /\ mon[m].purge = {}
  /\ Becomes(m, Idle)
  /\ UNCHANGED <<nodes, auth, left>>

Kill(m) ==
  /\ ~At(m, "idle") /\ Use("kills")
  /\ Becomes(m, Idle)
  /\ UNCHANGED <<nodes, auth>>

Next ==
  \/ \E m \in Mon : Start(m) \/ Load(m) \/ LoadFails(m) \/ StartPurge(m) \/ Finish(m) \/ Kill(m)
  \/ \E m \in Mon, e \in Entity : Ensure(m, e) \/ Delete(m, e)
  \/ \E n \in Node : Change(n)

Spec == Init /\ [][Next]_vars

---------------------------------------------------------------------------
\* When a run on one monitor is through its purge and no other one has overlapped with it,
\* then the cluster's keys are the ones that the directory's answer asks for, whatever
\* earlier runs have left; keys of machines that are not managed by it are as they were.
Right(job, e) ==
  LET n == job.answer[e[1]]
  IN IF Needs(job.answer, e) THEN auth[e] = (IF n.stub THEN job.known[e] ELSE n.salt)
     ELSE auth[e] = None

Installed == \A m \in Mon :
  At(m, "purge") /\ mon[m].purge = {} /\ mon[m].alone => \A e \in Entity : Right(mon[m], e)
=============================================================================
