------------------------------- MODULE MCDrafts -------------------------------
(* Instances of Drafts: a WAN with a delegated prefix or none, a LAN, two     *)
(* tunnels, one edit of every section.                                        *)
EXTENDS Drafts

CONSTANTS a1, a2, eth0, eth1, w1, w2, p1, p2, k1, k2, v0, v1, pd

Route1 == [to |-> p2, via |-> v0, dev |-> w1]
Route2 == [to |-> p2, via |-> v1, dev |-> w1]
MCRoutes == {Route1, Route2}

Iface(n, role, addrs) == [name |-> n, role |-> role, addrs |-> addrs, acq |-> None]
At(p) == [net |-> p, gw |-> TRUE]

MCInit ==
  [routes |-> <<Route1>>,
   ifaces |-> <<[Iface(eth0, "wan", <<>>) EXCEPT !.acq = v0], Iface(eth1, "lan", <<At(p1)>>)>>,
   ui |-> {eth1}, prefix |-> p1, pool |-> p1, pd |-> None, fw |-> v0,
   wg |-> [t \in {w1, w2} |-> [key |-> k1, conf |-> v0]],
   qd |-> [d \in {} |-> v0], confirm |-> FALSE]

Tunnel(t, key, conf, route) ==
  [section |-> "wireguard", name |-> t, key |-> key, conf |-> conf, route |-> route]
EditW1 == Tunnel(w1, None, v1, None)
EditW2 == Tunnel(w2, k2, v1, None)
EditRouted == Tunnel(w1, k2, None, Route2)
EditFw == [section |-> "firewall", fw |-> v1]
EditIfaces == [section |-> "interfaces", ui |-> {eth0},
               ifaces |-> <<Iface(eth0, "wan", <<>>), Iface(eth1, "lan", <<At(p2)>>)>>]
EditNoWan == [section |-> "interfaces", ui |-> {eth1},
              ifaces |-> <<Iface(eth0, "none", <<>>), Iface(eth1, "lan", <<At(p1)>>)>>]
EditIpv6 == [section |-> "ipv6", name |-> eth0, acq |-> pd]
EditQdisc == [section |-> "qdiscs", dev |-> eth0, kind |-> v1]
EditServices == [section |-> "services", prefix |-> p1, pool |-> None, pd |-> pd]
EditRoutes == [section |-> "routes", routes |-> <<>>]
AddRoute == [section |-> "add", route |-> Route2]
ChangeRoute == [section |-> "change", original |-> Route1, route |-> Route2]
RemoveRoute == [section |-> "remove", original |-> Route1]
Confirming == [section |-> "confirmation", confirm |-> TRUE]

Only(e) == [s \in {e.section} |-> e]

MCEdits == [a \in {a1, a2} |->
  IF a = a1 THEN {}
  ELSE {EditW2, EditFw, EditNoWan, EditQdisc, EditServices,
        AddRoute, ChangeRoute, RemoveRoute, EditIpv6, Confirming}]
MCChanges == [a \in {a1, a2} |->
  IF a = a1 THEN {Only(EditW1), Only(EditRouted) @@ Only(EditRoutes), Only(EditIfaces)}
  ELSE {}]
MCImports == [a \in {a1, a2} |-> IF a = a1 THEN {[MCInit EXCEPT !.fw = v1]} ELSE {}]
=============================================================================
