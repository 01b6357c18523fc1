---------------------------- MODULE MCReqManager ----------------------------
(* Two requests of one machine, for TLC. *)
EXTENDS ReqManager, TLC

CONSTANTS r1, r2

MCReq == {r1, r2}
ScriptAndUpdate == (r1 :> "script") @@ (r2 :> "update")
RebootAndVMChange == (r1 :> "reboot") @@ (r2 :> "vm_change")
Normal == {Defaults}
Interactive == {[all |-> TRUE, force |-> FALSE, online |-> TRUE],
                [all |-> TRUE, force |-> TRUE,  online |-> FALSE]}
=============================================================================
