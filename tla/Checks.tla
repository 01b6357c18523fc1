------------------------------- MODULE Checks -------------------------------
(***************************************************************************)
(* The checks that Sensu runs on the machines. Each of them reduces facts  *)
(* about its machine to an exit code: 0 is OK, 1 a warning, 2 critical and *)
(* 3 unknown. In a behaviour, one of them is asked again and again while   *)
(* facts change for the worse, one after the other, and what the check has *)
(* to look at comes and goes.                                              *)
(***************************************************************************)
EXTENDS Integers, Sequences, FiniteSets, FiniteSetsExt

CONSTANTS Check  \* the checks that behaviours are about

VARIABLES
  check,  \* the check
  given,  \* facts that say what is to be checked
  level   \* how bad each fact is

vars == <<check, given, level>>

\* The names of all checks.
Deployed == {"maintenance", "manage", "slurm", "unit", "units", "snapshots", "cluster", "luks",
             "megaraid", "disk", "interfaces", "lvm", "clamav", "bgp", "tls", "mongodb",
             "skvaider", "neighbours", "steal", "routes"}

ChecksAssumption == Check \subseteq Deployed

---------------------------------------------------------------------------
\* CheckResult.exit_code, for whether there are errors and warnings.
exit_code(errors, warnings) == IF errors THEN 2 ELSE IF warnings THEN 1 ELSE 0

\* nagiosplugin: a value above the end of a range; the highest of all results.
Above(value, warning, critical) == exit_code(value > critical, value > warning)
Worst(codes) == Max(codes)
Guarded(works, code) == IF works THEN code ELSE 3

---------------------------------------------------------------------------
(* fc-maintenance check, in minutes. The duration is timedelta.seconds.    *)
in_maintenance_duration(g, x) == IF g.marker THEN x.entered % (24 * 60) ELSE 0

check_maintenance(g, x) ==
  LET duration == in_maintenance_duration(g, x)
  IN exit_code(duration > 60 \/ (x.running > 0 /\ duration = 0),
               duration > 30 \/ x.queue_days > 7 \/ x.running > 1)

(* fc-manage check, in GiB.                                                *)
CheckChannel(g, x) ==
  IF x.channel = "build" \/ (x.channel = "no_build" /\ g.initial) THEN 0
  ELSE IF x.channel = "no_build" /\ g.local /\ x.url THEN 1 ELSE 2

CheckSpace(g, x) ==
  IF g.sized THEN exit_code(x.free < g.size + 5, x.free < 2 * g.size + 5) ELSE 1

check_manage(g, x) ==
  Worst({exit_code(~x.production \/ ~x.url,
                   \/ g.initial \/ ~x.version \/ x.state_version # "valid" \/ x.eval_warnings
                   \/ x.production /\ g.production /\ x.url /\ g.local),
         CheckChannel(g, x), CheckSpace(g, x)})

(* fc-slurm check.                                                         *)
NodesOut == {"IDLE+DRAIN", "DOWN"}
NodesOffline == {"IDLE*", "DOWN*"}

check_controller(x, states) ==
  LET nodes_in == \E s \in states : s \notin NodesOut \cup NodesOffline
  IN IF states = {} THEN 2
     ELSE exit_code(~x.primary \/ ~nodes_in, \E s \in states : s \in NodesOut \cup NodesOffline)

check_node(x) ==
  exit_code(~x.slurmd \/ ~x.munged \/ ~x.info, x.own \in {"DOWN", "IDLE+DRAIN"})

check_slurm(g, x) ==
  LET states == (IF g.node THEN {x.own} ELSE {}) \cup (IF g.others THEN {x.other} ELSE {})
      results == (IF g.controller THEN {check_controller(x, states)} ELSE {})
                   \cup (IF g.node THEN {check_node(x)} ELSE {})
  IN IF ~x.controllers THEN 2 ELSE IF results = {} THEN 1 ELSE Worst(results)

(* fc-systemd check-unit and check-units.                                  *)
check_unit(x) == Guarded(x.dbus, exit_code(~x.loaded \/ x.state \in {"failed", "inactive"}, FALSE))

\* An excluded unit is not listed; that there are failed units is.
check_find_failed(g, x) == exit_code(g.critical /\ x.failed # {}, x.failed # {})

---------------------------------------------------------------------------
(* fc-ceph check snapshot-restore: sizes in percent of the root's.         *)
restore_impact(g, x, snapshot) ==
  exit_code(snapshot + x.used >= g.full, snapshot + x.used >= g.nearfull)

\* A slip: the results are OK if one of them is.
highest_status_any(codes) == IF 0 \in codes THEN 0 ELSE 3

\* SensuStatus, from the highest to the lowest priority.
highest_status(codes) ==
  IF 2 \in codes THEN 2 ELSE IF 1 \in codes THEN 1 ELSE IF 3 \in codes THEN 3 ELSE 0

\* What the queries return before one fails is not evaluated.
check_snapshot_restore(g, x) ==
  LET evaluated == {restore_impact(g, x, x.first), restore_impact(g, x, x.second)}
  IN highest_status(IF x.answers THEN evaluated ELSE {3})

(* fc-ceph check cluster -R 200 -A 300, with two lines that are new in the *)
(* log since the last call that read it.                                   *)
Health(x) == CASE x.health = "HEALTH_ERR" -> 2 [] x.health = "HEALTH_WARN" -> 1 [] OTHER -> 0

CephLog(x) ==
  {Above(Max({x.blocked1, x.blocked2}), 1, 200), Above(Max({x.oldest1, x.oldest2}), 30, 300)}

check_cluster(x) ==
  Guarded(x.answers, Worst({Health(x), exit_code(x.nearfull > 0, FALSE)} \cup CephLog(x)))

(* fc-luks check: every deviation is one error, and the command fails.     *)
LuksErrors(g, x) ==
  {f \in {"cipher", "key", "pbkdf", "keyslots", "backup"} :
     CASE f = "keyslots" -> x.keyslots # {0, 1}
       [] f = "backup" -> g.external /\ x.backup # "same"
       [] OTHER -> x[f] # "expected"}

check_luks(g, x) == IF x.dumped /\ LuksErrors(g, x) = {} THEN 0 ELSE 1

---------------------------------------------------------------------------
(* check_megaraid_cache -W 50 -C 70, one virtual disk of two drives.       *)
\* A changed item is missing and unexpected.
policy_diff(x) == (2 * x.changed) \div 2

FailureCount(x) ==
  {Above(x.errors1 + x.errors2, 50, 70), Above(x.predictive1 + x.predictive2, 50, 70)}

BatteryReplace(x) == CASE x.battery = "yes" -> 2 [] x.battery = "unknown" -> 3 [] OTHER -> 0

check_megaraid_cache(x) ==
  Guarded(x.answers, Worst({Above(policy_diff(x), 0, 1), BatteryReplace(x)} \cup FailureCount(x)))

(* check_disk -w 90 -c 95, in tenths of a percent. The scale is            *)
(* (size / 30) ** 0.7 by size / 30, in thousandths.                        *)
Scale == [gb3 |-> 1995, gb30 |-> 1000, gb300 |-> 501]

magic_range(size, limit, cap) == Max({1000 - ((100 - limit) * Scale[size]) \div 100, 10 * cap})

check_disk(g, x) == Above(x.used, magic_range(g.size, 90, 50), magic_range(g.size, 95, 60))

(* check_interfaces -i link,1000: for each of two links. An interface that *)
(* is not there is skipped; without any result nothing is known.           *)
query(link, speed) == IF link THEN speed ELSE 0

check_interfaces(g, x) ==
  LET critical == \/ 1 \in g.there /\ (query(x.link1, x.speed1) < 1000 \/ x.duplex1 # "full")
                  \/ 2 \in g.there /\ (query(x.link2, x.speed2) < 1000 \/ x.duplex2 # "full")
  IN Guarded(g.there # {} /\ x.ethtool, exit_code(critical, FALSE))

(* check_lvm_integrity -c 1.                                               *)
check_lvm_integrity(x) == exit_code(x.errors > 1, FALSE)

(* check_clamav_database, in hours.                                        *)
check_clamav_database(g, x) ==
  LET ages == {x[f] : f \in g.files}
  IN IF g.files = {} THEN 2
     ELSE exit_code(\E a \in ages : a > 96, Cardinality(g.files) = 2 \/ \E a \in ages : a > 50)

---------------------------------------------------------------------------
(* check_bgp_sessions: for how many seconds each of two sessions has not   *)
(* been established, if it is configured at all.                           *)
NotConfigured == 999

check_bgp_sessions(x) ==
  LET ages == {x.session1, x.session2}
  IN exit_code(NotConfigured \in ages \/ \E a \in ages : a > 60, \E a \in ages : a > 0)

(* check_tls_cert: days for which the certificate is valid.                *)
check_certificate(x) ==
  exit_code(~x.file \/ x.days <= 0 \/ x.days <= 14, x.days <= 25)

(* check_mongodb, with its two actions.                                    *)
\* A slip: nothing is said of the critical level itself.
check_levels_open(value, warning, critical) ==
  exit_code(value > critical, warning <= value /\ value < critical)

check_levels(value, warning, critical) == exit_code(value >= critical, value >= warning)

check_feature_compat_version(g, x) ==
  IF g.major = "3.2" THEN 1 ELSE exit_code(~x.parameter, x.older)

check_mongodb(g, x) ==
  CASE ~x.password -> 3
    [] x.password /\ ~x.ping -> 2
    [] x.password /\ x.ping ->
         IF g.action = "connect" THEN check_levels(x.seconds, 3, 6)
         ELSE check_feature_compat_version(g, x)

(* check_skvaider: details are asked of one of the models listed.          *)
check_model_details(x) == x.models # "none" /\ x.details

check_skvaider(x) ==
  exit_code(\/ x.models # "four" \/ ~check_model_details(x)
            \/ ~x.chat \/ ~x.completions \/ ~x.embeddings, FALSE)

(* neighbour-cache-monitor sensu-check, in percent of gc_thresh3, with the *)
(* overflows since the call that left a state file.                        *)
check_neighbours(g, x) ==
  LET overflows == g.state /\ (x.overflows4 > 0 \/ x.overflows6 > 0)
      entries == Max({x.entries4, x.entries6})
  IN IF overflows THEN 2 ELSE Above(entries, 30, 50)

(* check_cpu_steal and check_vrf_default_routes.                           *)
check_cpu_steal(x) == Guarded(x.data, exit_code(x.steal >= 15, x.steal >= 10))
check_vrf_default_routes(x) == exit_code(~x.default4 \/ ~x.default6, FALSE)

---------------------------------------------------------------------------
\* The facts that each check looks at, from the best to the worst.
Works == <<TRUE, FALSE>>
Appears == <<FALSE, TRUE>>
NodeStates == <<"IDLE", "IDLE+DRAIN", "DOWN">>

Ladder(c) ==
  CASE c = "maintenance" ->
         [entered |-> <<10, 45, 90, 1435, 1450>>, running |-> <<0, 1, 2>>,
          queue_days |-> <<0, 7, 8>>]
    [] c = "manage" ->
         [production |-> Works, url |-> Works, version |-> Works,
          state_version |-> <<"valid", "invalid">>, eval_warnings |-> Appears,
          channel |-> <<"build", "no_build", "none">>, free |-> <<25, 15, 14>>]
    [] c = "slurm" ->
         [controllers |-> Works, primary |-> Works, slurmd |-> Works, munged |-> Works,
          info |-> Works, own |-> NodeStates, other |-> NodeStates \o <<"DOWN*">>]
    [] c = "unit" ->
         [dbus |-> Works, loaded |-> Works, state |-> <<"active", "inactive", "failed">>]
    [] c = "units" -> [failed |-> <<{}, {"muted"}, {"muted", "other"}>>]
    [] c = "snapshots" ->
         [used |-> <<40, 70, 90>>, first |-> <<0, 15, 60>>, second |-> <<0, 25, 60>>,
          answers |-> Works]
    [] c = "cluster" ->
         [answers |-> Works, health |-> <<"HEALTH_OK", "HEALTH_WARN", "HEALTH_ERR">>,
          nearfull |-> <<0, 1>>, blocked1 |-> <<0, 1, 2, 201>>, blocked2 |-> <<0, 2, 201>>,
          oldest1 |-> <<0, 31, 301>>, oldest2 |-> <<0, 301>>]
    [] c = "luks" ->
         [dumped |-> Works, cipher |-> <<"expected", "other">>, key |-> <<"expected", "none">>,
          pbkdf |-> <<"expected", "other">>, keyslots |-> <<{0, 1}, {0, 1, 2}, {1}>>,
          backup |-> <<"same", "differs", "none">>]
    [] c = "megaraid" ->
         [answers |-> Works, changed |-> <<0, 1, 2>>, errors1 |-> <<0, 30, 60>>,
          errors2 |-> <<0, 30, 80>>, predictive1 |-> <<0, 60>>, predictive2 |-> <<0, 80>>,
          battery |-> <<"no", "yes", "unknown">>]
    [] c = "disk" -> [used |-> <<400, 510, 610, 810, 910, 951, 980>>]
    [] c = "interfaces" ->
         [ethtool |-> Works, link1 |-> Works, speed1 |-> <<10000, 1000, 100>>,
          duplex1 |-> <<"full", "half">>, link2 |-> Works, speed2 |-> <<1000, 100>>,
          duplex2 |-> <<"full", "half">>]
    [] c = "lvm" -> [errors |-> <<0, 1, 2>>]
    [] c = "clamav" -> [cld |-> <<0, 51, 97>>, cvd |-> <<0, 51, 97>>]
    [] c = "bgp" ->
         [session1 |-> <<0, 60, 61, NotConfigured>>, session2 |-> <<0, 60, 61, NotConfigured>>]
    [] c = "tls" -> [file |-> Works, days |-> <<26, 25, 14, 0>>]
    [] c = "mongodb" ->
         [password |-> Works, ping |-> Works, seconds |-> <<0, 3, 6>>, parameter |-> Works,
          older |-> Appears]
    [] c = "skvaider" ->
         [models |-> <<"four", "few", "none">>, details |-> Works, chat |-> Works,
          completions |-> Works, embeddings |-> Works]
    [] c = "neighbours" ->
         [overflows4 |-> <<0, 1>>, overflows6 |-> <<0, 1>>, entries4 |-> <<30, 31, 51>>,
          entries6 |-> <<30, 31, 51>>]
    [] c = "steal" -> [data |-> Works, steal |-> <<0, 10, 15>>]
    [] c = "routes" -> [default4 |-> Works, default6 |-> Works]

Yes == BOOLEAN
Given(c) ==
  CASE c = "maintenance" -> [marker : Yes]
    [] c = "manage" -> [initial : Yes, local : Yes, production : Yes, sized : Yes, size : {10}]
    [] c = "slurm" -> [controller : Yes, node : Yes, others : Yes]
    [] c = "units" -> [critical : Yes]
    [] c = "snapshots" -> [nearfull : {85}, full : {95}]
    [] c = "luks" -> [external : Yes]
    [] c = "disk" -> [size : DOMAIN Scale]
    [] c = "interfaces" -> [there : SUBSET {1, 2}]
    [] c = "clamav" -> [files : SUBSET {"cld", "cvd"}]
    [] c = "mongodb" -> [action : {"connect", "feature_compat_version"}, major : {"3.2", "4.0"}]
    [] c = "neighbours" -> [state : Yes]
    [] OTHER -> {<<>>}

Exit(c, g, x) ==
  CASE c = "maintenance" -> check_maintenance(g, x)
    [] c = "manage" -> check_manage(g, x)
    [] c = "slurm" -> check_slurm(g, x)
    [] c = "unit" -> check_unit(x)
    [] c = "units" -> check_find_failed(g, x)
    [] c = "snapshots" -> check_snapshot_restore(g, x)
    [] c = "cluster" -> check_cluster(x)
    [] c = "luks" -> check_luks(g, x)
    [] c = "megaraid" -> check_megaraid_cache(x)
    [] c = "disk" -> check_disk(g, x)
    [] c = "interfaces" -> check_interfaces(g, x)
    [] c = "lvm" -> check_lvm_integrity(x)
    [] c = "clamav" -> check_clamav_database(g, x)
    [] c = "bgp" -> check_bgp_sessions(x)
    [] c = "tls" -> check_certificate(x)
    [] c = "mongodb" -> check_mongodb(g, x)
    [] c = "skvaider" -> check_skvaider(x)
    [] c = "neighbours" -> check_neighbours(g, x)
    [] c = "steal" -> check_cpu_steal(x)
    [] c = "routes" -> check_vrf_default_routes(x)

---------------------------------------------------------------------------
Facts == DOMAIN Ladder(check)
Found == [f \in Facts |-> Ladder(check)[f][level[f]]]

TypeOK ==
  /\ check \in Check /\ given \in Given(check)
  /\ DOMAIN level = Facts /\ \A f \in Facts : level[f] \in 1 .. Len(Ladder(check)[f])
  /\ Exit(check, given, Found) \in 0 .. 3

Init ==
  /\ check \in Check /\ given \in Given(check)
  /\ level = [f \in Facts |-> 1]

(* Time passes, something breaks, fills up or falls behind.                *)
Worsen ==
  /\ \E f \in Facts : level[f] < Len(Ladder(check)[f]) /\ level' = [level EXCEPT ![f] = @ + 1]
  /\ UNCHANGED <<check, given>>

(* What a call finds new and the next one does not find again: the lines   *)
(* of the log behind its cookie, unless `ceph status` failed before, and   *)
(* the overflows that it has noted in its state file.                      *)
News ==
  CASE check = "cluster" /\ Found.answers -> {"blocked1", "blocked2", "oldest1", "oldest2"}
    [] check = "neighbours" -> {"overflows4", "overflows6"}
    [] OTHER -> {}

Ask ==
  /\ level' = [f \in Facts |-> IF f \in News THEN 1 ELSE level[f]]
  /\ given' = IF check = "neighbours" THEN [given EXCEPT !.state = TRUE] ELSE given
  /\ UNCHANGED check

(* Interfaces and files come and go, the machine is configured otherwise.  *)
Reconfigure ==
  /\ check \notin {"maintenance", "neighbours"} /\ given' \in Given(check)
  /\ UNCHANGED <<check, level>>

Next == Worsen \/ Ask \/ Reconfigure

Spec == Init /\ [][Next]_vars

---------------------------------------------------------------------------
\* As long as a check looks at the same things, and they are not better than they were, its
\* exit code is not lower than it was, whatever else is wrong already: no alarm goes away because
\* of another problem or at another threshold. What it has reported as new and does not find
\* again (Ask), and what it does not look at any more, an interface that is gone, for one
\* (Reconfigure), does end its alarm.
NeverBetter ==
  given' = given /\ (\A f \in Facts : level'[f] >= level[f])
    => Exit(check, given, Found)' >= Exit(check, given, Found)

\* The facts that a check looks at, with the machine's configuration and what is there.
Watched(f) ==
  CASE check = "slurm" ->
         CASE f = "primary" -> given.controller
           [] f = "own" -> given.node
           [] f = "other" -> given.controller /\ given.others
           [] f = "controllers" -> TRUE
           [] OTHER -> given.node
    [] check = "manage" /\ f = "free" -> given.sized
    [] check = "luks" /\ f = "backup" -> given.external
    [] check = "clamav" -> f \in given.files
    [] check = "interfaces" -> CASE f \in {"link1", "speed1", "duplex1"} -> 1 \in given.there
                                 [] f \in {"link2", "speed2", "duplex2"} -> 2 \in given.there
                                 [] OTHER -> TRUE
    [] check = "mongodb" -> CASE f = "seconds" -> given.action = "connect"
                              [] f \in {"parameter", "older"} -> given.action # "connect"
                              [] OTHER -> TRUE
    [] check = "neighbours" /\ f \in {"overflows4", "overflows6"} -> given.state
    [] OTHER -> TRUE

\* A fact that a check looks at and that is as bad as it gets is never OK, however good the
\* others are. Blocked requests and overflows are facts until a call has reported them.
Alarmed ==
  (\E f \in Facts : Watched(f) /\ level[f] = Len(Ladder(check)[f])) => Exit(check, given, Found) # 0
=============================================================================
