----------------------------- MODULE MCCommands -----------------------------
(* Bounds on what fails, is killed or mistyped, for TLC.                   *)
EXTENDS Commands

PostgresFaults == {[writes |-> 2, commands |-> 2, failures |-> 1, crashes |-> 1, repairs |-> 2]}
DevhostFaults == {[commands |-> 4, failures |-> 1, crashes |-> 1, days |-> 2]}
OsdInterrupts == {[commands |-> 4, interrupts |-> 2]}
LuksInterrupts == {[commands |-> 5, interrupts |-> 2, typos |-> 1]}
S3Failures == {[changes |-> 2, runs |-> 2, failures |-> 1, stops |-> 1]}
KeysFailures == {[changes |-> 1, runs |-> 3, failures |-> 1, kills |-> 1]}
ImageKills == {[runs |-> 4, releases |-> 2, vms |-> 1, kills |-> 2]}
=============================================================================
