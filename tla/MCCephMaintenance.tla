-------------------------- MODULE MCCephMaintenance --------------------------
(* Two storage hosts, the first one with two OSDs, for TLC. *)
EXTENDS CephMaintenance, TLC

CONSTANTS a, b, a1, a2, b1

Placement == (a1 :> a) @@ (a2 :> a) @@ (b1 :> b)
=============================================================================
