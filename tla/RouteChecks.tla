---------------------------- MODULE RouteChecks ----------------------------
(***************************************************************************)
(* The checks that compare what the kernel forwards with what FRR knows,   *)
(* on hypervisors and routers: underlay addresses (unicast), MAC addresses *)
(* of guests (evpn) and guest routes (kvm). Tables change independently,   *)
(* and what a check says must follow them.                                 *)
(***************************************************************************)
EXTENDS Integers, Sequences, FiniteSets

CONSTANTS Vtep  \* tunnel endpoints, next hops of the underlay, addresses of guests

VARIABLES
  table,   \* the check
  kernel,  \* the kernel's table, for one address
  zebra,   \* FRR's zebra, for the same address (evpn only)
  bgp,     \* FRR's bgpd: the paths it knows for the address (for evpn, see Best)
  another  \* bgpd knows another address, on which all agree (evpn only)

vars == <<table, kernel, zebra, bgp, another>>

None == "none"
Ports == {"tap", "bridge"}

RoutesAssumption == Vtep \cap (Ports \cup {None, "two places"}) = {}

\* bridge fdb show: the port that a MAC was learned on, or the bridge for its own; whether
\* the tap's host side has it; an entry for the vxlan interface, an entry for the tunnel.
Fdb == [local : Ports \cup {None}, host : BOOLEAN, vxlan : BOOLEAN, dst : Vtep \cup {None}]

\* A path that bgpd knows, by its peer; "self" is this machine.
Peers == {"self", "p", "q"}
Path == [valid : BOOLEAN, best : BOOLEAN, used : SUBSET Vtep]
NoPath == [valid |-> FALSE, best |-> FALSE, used |-> {}]

\* The best path to a MAC that a route distinguisher has: this machine's own, or another
\* machine's with the hops that are in use, maybe none. Several route distinguishers may have
\* one, in the order of bgpd's answer.
MaxDistinguishers == 2
Best == {b \in [own : BOOLEAN, hops : SUBSET Vtep] : b.own => b.hops = {}}
Bests == UNION {[1 .. n -> Best] : n \in 0 .. MaxDistinguishers}

\* The routes of a VNI, which may have no route distinguisher.
Guests == {b \in [rd : BOOLEAN, routes : SUBSET Vtep] : ~b.rd => b.routes = {}}

Kernel == [unicast |-> SUBSET Vtep, evpn |-> Fdb, kvm |-> SUBSET Vtep]
Zebra == [unicast |-> {None}, evpn |-> {None} \cup Ports \cup Vtep, kvm |-> {None}]
Bgp == [unicast |-> [Peers -> Path], evpn |-> Bests, kvm |-> Guests]

TypeOK ==
  /\ table \in {"unicast", "evpn", "kvm"}
  /\ kernel \in Kernel[table] /\ zebra \in Zebra[table] /\ bgp \in Bgp[table]
  /\ another \in BOOLEAN

Init ==
  /\ zebra = None
  /\ \/ another = FALSE /\ table = "unicast" /\ kernel = {} /\ bgp = [p \in Peers |-> NoPath]
     \/ /\ another \in BOOLEAN /\ table = "evpn" /\ bgp = <<>>
        /\ kernel = [local |-> None, host |-> FALSE, vxlan |-> FALSE, dst |-> None]
     \/ another = FALSE /\ table = "kvm" /\ kernel = {} /\ bgp = [rd |-> TRUE, routes |-> {}]

(* Guests move, peers announce and withdraw, daemons fall behind.          *)
ChangeKernel == kernel' \in Kernel[table] /\ UNCHANGED <<table, zebra, bgp, another>>

ChangeZebra == zebra' \in Zebra[table] /\ UNCHANGED <<table, kernel, bgp, another>>

ChangeBgp ==
  /\ IF table = "unicast"
     THEN \E p \in Peers, path \in Path :
            (p = "self" => path.used = {}) /\ bgp' = [bgp EXCEPT ![p] = path]
     ELSE bgp' \in Bgp[table]
  /\ UNCHANGED <<table, kernel, zebra, another>>

Next == ChangeKernel \/ ChangeZebra \/ ChangeBgp

Spec == Init /\ [][Next]_vars

---------------------------------------------------------------------------
(* check-unicast-rib: an address is compared if a peer's path to it is     *)
(* forwarded along, or if the kernel has next hops for it. The same hop of *)
(* two paths is an error of its own.                                       *)
Chosen == {p \in Peers \ {"self"} : bgp[p].valid /\ bgp[p].best}

check_unicast_rib ==
  LET rib == UNION {bgp[p].used : p \in Chosen}
      duplicate == \E p, q \in Chosen : p # q /\ bgp[p].used \cap bgp[q].used # {}
      mismatch == (Chosen # {}) # (kernel # {}) \/ (Chosen # {} /\ rib # kernel)
  IN IF duplicate THEN 1 ELSE IF mismatch THEN 2 ELSE 0

(* check-evpn-rib, for one VNI. It fails with an exception if bgpd has no  *)
(* address at all in the VNI, or several hops for one.                     *)
bridge_macs ==
  [local |-> kernel.local, remote |-> IF kernel.vxlan THEN kernel.dst ELSE None]

zebra_macs ==
  [local |-> IF zebra \in Ports THEN zebra ELSE None,
   remote |-> IF zebra \in Vtep THEN zebra ELSE None]

\* The last route distinguisher counts, and a path without a hop in use as an own one.
bgpd_macs ==
  LET hops == IF bgp = <<>> THEN {} ELSE bgp[Len(bgp)].hops
  IN [local |-> bgp # <<>> /\ hops = {}, remote |-> hops]

check_evpn_rib ==
  LET crash == (bgp = <<>> /\ ~another) \/ Cardinality(bgpd_macs.remote) > 1
      mismatch == \/ bridge_macs # zebra_macs
                  \/ bgpd_macs.local # (bridge_macs.local # None)
                  \/ bgpd_macs.remote # {bridge_macs.remote} \ {None}
  IN IF crash THEN 1 ELSE IF mismatch THEN 2 ELSE 0

(* check_kvm_vrf_integrity.                                                *)
check_kvm_vrf_integrity ==
  IF ~bgp.rd \/ kernel \ bgp.routes # {} THEN 2
  ELSE IF bgp.routes \ kernel # {} THEN 1 ELSE 0

Exit ==
  CASE table = "unicast" -> check_unicast_rib
    [] table = "evpn" -> check_evpn_rib
    [] table = "kvm" -> check_kvm_vrf_integrity

---------------------------------------------------------------------------
\* Where the kernel sends what is addressed to the address.
Forwards ==
  IF table # "evpn" THEN kernel
  ELSE CASE kernel.local # None /\ ~(kernel.vxlan /\ kernel.dst # None) -> kernel.local
         [] kernel.local = None /\ kernel.vxlan -> kernel.dst
         [] OTHER -> IF kernel.local = None THEN None ELSE "two places"

\* The next hops or addresses of guests that bgpd knows.
Announced ==
  IF table = "unicast"
  THEN {h \in Vtep : \E p \in Peers \ {"self"} : bgp[p].valid /\ bgp[p].best /\ h \in bgp[p].used}
  ELSE bgp.routes

\* A best path of bgpd's leads to the place: to an endpoint along the only hop in use, to a port
\* along none. To no place leads no path at all.
Leads(place) ==
  IF place = None THEN bgp = <<>>
  ELSE \E i \in DOMAIN bgp : bgp[i].hops = IF place \in Ports THEN {} ELSE {place}

\* The check is only OK when the kernel forwards along the next hops and to the guests that bgpd
\* knows; and a MAC address as zebra says, to a place to which one of bgpd's best paths leads.
\* Best paths of other route distinguishers may lead elsewhere, and one that leads to a port may
\* be another machine's without a hop in use: the check does not tell them apart.
Alarmed ==
  Exit = 0 => IF table = "evpn" THEN zebra = Forwards /\ Leads(Forwards) ELSE Forwards = Announced
=============================================================================
