------------------------------- MODULE Sections -------------------------------
(***************************************************************************)
(* The sections of a complete Desired state and what fwos-ui stores in it  *)
(* when an administrator edits one.  An edit is what one request body      *)
(* carries for one section; Store gives the Desired state after it, Fits   *)
(* whether the section accepts it.  A network is a record                  *)
(*                                                                         *)
(*   routes    the static routes, in order                                 *)
(*   ifaces    the interfaces, in order: name, role, IPv4 addresses and,   *)
(*             for a WAN, how it acquires IPv6 (acq)                       *)
(*   ui        ui_exposure                                                 *)
(*   prefix, pool, pd   lan_prefix, dhcp_pool, wan_pd                      *)
(*   fw        nft_extra                                                   *)
(*   wg        the WireGuard tunnels by name: private key and settings     *)
(*   qd        the qdisc of each device that has one                       *)
(*   confirm   apply_confirmation                                          *)
(*                                                                         *)
(* An address is its IPv4 network and whether it is that network's first   *)
(* host (gw); a pool is the network it lies in.                            *)
(***************************************************************************)
EXTENDS Naturals, FiniteSets, SequencesExt

CONSTANTS
  None,        \* an absent value
  Tunnels,     \* names of WireGuard tunnels
  Devices,     \* devices that may have a qdisc
  Nics,        \* names of interfaces
  Routes       \* static routes: to, via, dev

--------------------------------------------------------------------------
(* Networks. *)

Fields == {"routes", "ifaces", "ui", "prefix", "pool", "pd", "fw", "wg", "qd", "confirm"}

IfacesType(ifaces) ==
  /\ ifaces \in Seq(ToSet(ifaces))
  /\ \A i \in ToSet(ifaces) : DOMAIN i = {"name", "role", "addrs", "acq"}

NetType(net) ==
  DOMAIN net = Fields /\ net.routes \in Seq(Routes) /\ IfacesType(net.ifaces)

--------------------------------------------------------------------------
(* Interfaces and the LAN prefix that follows them. *)

\* The place of the first interface of a name, 0 when there is none.
Found(ifaces, n) == SelectInSeq(ifaces, LAMBDA i : i.name = n)

acquisition(ifaces, n) ==
  IF Found(ifaces, n) = 0 THEN None ELSE ifaces[Found(ifaces, n)].acq

\* An interface edit keeps the acquisition of what stays, or becomes, a WAN.
keptAcq(net, i) == IF i.role = "wan" THEN acquisition(net.ifaces, i.name) ELSE None

dhcp_pool_inside(prefix, pool) == pool = prefix

\* The first LAN's address that is the prefix's own host, else its first one.
sync_lan_prefix_from_first_lan(net) ==
  LET lan == SelectInSeq(net.ifaces, LAMBDA i : i.role = "lan")
      addrs == net.ifaces[lan].addrs
      own == SelectInSeq(addrs, LAMBDA a : a.net = net.prefix /\ a.gw)
      prefix == addrs[IF own = 0 THEN 1 ELSE own].net
  IN IF lan = 0 \/ addrs = <<>> \/ prefix = net.prefix THEN net
     ELSE [net EXCEPT
             !.prefix = prefix,
             !.pool = IF dhcp_pool_inside(prefix, @) THEN @ ELSE None]

store_interface_section(net, e) ==
  sync_lan_prefix_from_first_lan(
    [net EXCEPT
       !.ifaces = [k \in DOMAIN e.ifaces |->
                     [e.ifaces[k] EXCEPT !.acq = keptAcq(net, e.ifaces[k])]],
       !.ui = e.ui])

store_lan_services(net, e) ==
  [net EXCEPT !.prefix = e.prefix, !.pool = e.pool, !.pd = e.pd]

--------------------------------------------------------------------------
(* WireGuard, qdiscs, WAN IPv6. *)

\* A blank key or setting keeps the stored one; a tunnel not named is kept.
storedTunnel(net, e) ==
  [key |-> IF e.key = None /\ e.name \in DOMAIN net.wg THEN net.wg[e.name].key
           ELSE e.key,
   conf |-> IF e.conf = None /\ e.name \in DOMAIN net.wg THEN net.wg[e.name].conf
            ELSE e.conf]

\* The routes but those to the same destination through the same device.
without(routes, route) ==
  LET kept[k \in 0..Len(routes)] ==
        IF k = 0 THEN <<>>
        ELSE IF routes[k].to = route.to /\ routes[k].dev = route.dev THEN kept[k - 1]
        ELSE Append(kept[k - 1], routes[k])
  IN kept[Len(routes)]

\* The route a tunnel asks for replaces the others there.
routed(routes, e) ==
  IF e.route = None THEN routes ELSE Append(without(routes, e.route), e.route)

store_wireguard(net, e) ==
  IF e.name = None THEN net
  ELSE [net EXCEPT
          !.wg = [t \in DOMAIN @ \cup {e.name} |->
                    IF t = e.name THEN storedTunnel(net, e) ELSE @[t]],
          !.routes = routed(@, e)]

store_qdiscs(net, e) ==
  [net EXCEPT !.qd = [d \in DOMAIN @ \cup {e.dev} |->
                        IF d = e.dev THEN e.kind ELSE @[d]]]

\* The place of the WAN of a name, 0 when there is none.
wan(ifaces, n) == SelectInSeq(ifaces, LAMBDA i : i.name = n /\ i.role = "wan")

store_ipv6(net, e) ==
  LET k == wan(net.ifaces, e.name)
  IN IF k = 0 THEN net ELSE [net EXCEPT !.ifaces[k].acq = e.acq]

--------------------------------------------------------------------------
(* One edit of a section. *)

Occurrences(s, x) == {k \in DOMAIN s : s[k] = x}

\* A route to change or remove must be there exactly once.
Fits(net, e) ==
  CASE e.section \in {"change", "remove"} ->
         Cardinality(Occurrences(net.routes, e.original)) = 1
    [] e.section = "ipv6" -> wan(net.ifaces, e.name) # 0
    [] OTHER -> TRUE

changedRoutes(routes, e) ==
  CASE e.section = "routes" -> e.routes
    [] e.section = "add" -> Append(routes, e.route)
    [] e.section = "change" ->
         [routes EXCEPT ![CHOOSE k \in Occurrences(routes, e.original) : TRUE] = e.route]
    [] e.section = "remove" ->
         RemoveAt(routes, CHOOSE k \in Occurrences(routes, e.original) : TRUE)

Store(net, e) ==
  CASE e.section \in {"routes", "add", "change", "remove"} ->
         [net EXCEPT !.routes = changedRoutes(@, e)]
    [] e.section = "interfaces" -> store_interface_section(net, e)
    [] e.section = "services" -> store_lan_services(net, e)
    [] e.section = "firewall" -> [net EXCEPT !.fw = e.fw]
    [] e.section = "wireguard" -> store_wireguard(net, e)
    [] e.section = "qdiscs" -> store_qdiscs(net, e)
    [] e.section = "ipv6" -> store_ipv6(net, e)
    [] e.section = "confirmation" -> [net EXCEPT !.confirm = e.confirm]

\* What a request body can carry: the rest of an edit is not looked at.
EditType(e) ==
  /\ e.section \in {"routes", "add", "change", "remove", "interfaces", "services",
                    "firewall", "wireguard", "qdiscs", "ipv6", "confirmation"}
  /\ e.section = "routes" => e.routes \in Seq(Routes)
  /\ e.section \in {"add", "change"} => e.route \in Routes
  /\ e.section = "interfaces" => IfacesType(e.ifaces)
  /\ e.section = "wireguard" =>
       /\ DOMAIN e = {"section", "name", "key", "conf", "route"}
       /\ e.route \in Routes \cup {None}

\* The sections of a Draft an edit makes it propose.
Remembered(e) ==
  {e.section} \cup
  (IF e.section = "wireguard" /\ e.name # None /\ e.route # None THEN {"routes"} ELSE {})

--------------------------------------------------------------------------
(***************************************************************************)
(* The parts of a network that administrators change independently, and    *)
(* the parts an edit is about.  An interface edit may move the LAN prefix  *)
(* and its pool and drops the acquisition of what is no longer a WAN; it   *)
(* is not about how a WAN acquires IPv6.  A WireGuard edit is about the    *)
(* tunnel it names and the route it asks for; one that names no tunnel is  *)
(* taken as a Draft from before tunnels were tracked, which carries all.   *)
(***************************************************************************)
Parts ==
  {<<"route", r>> : r \in Routes} \cup {<<"acq", n>> : n \in Nics}
  \cup {<<"wg", t>> : t \in Tunnels} \cup {<<"qd", d>> : d \in Devices}
  \cup {<<"one", f>> : f \in {"ifaces", "ui", "prefix", "pool", "pd", "fw", "confirm"}}

PartOf(net, p) ==
  CASE p[1] = "route" -> p[2] \in ToSet(net.routes)
    [] p[1] = "acq" -> acquisition(net.ifaces, p[2])
    [] p[1] = "wg" -> IF p[2] \in DOMAIN net.wg THEN <<net.wg[p[2]]>> ELSE <<>>
    [] p[1] = "qd" -> IF p[2] \in DOMAIN net.qd THEN <<net.qd[p[2]]>> ELSE <<>>
    [] p = <<"one", "ifaces">> -> [k \in DOMAIN net.ifaces |->
                             [name |-> net.ifaces[k].name, role |-> net.ifaces[k].role,
                              addrs |-> net.ifaces[k].addrs]]
    [] OTHER -> net[p[2]]

staysWan(ifaces, n) ==
  Found(ifaces, n) # 0 /\ ifaces[Found(ifaces, n)].role = "wan"

One(fields) == {<<"one", f>> : f \in fields}

About(e) ==
  CASE e.section = "routes" -> {<<"route", r>> : r \in Routes}
    [] e.section = "add" -> {<<"route", e.route>>}
    [] e.section = "change" -> {<<"route", e.original>>, <<"route", e.route>>}
    [] e.section = "remove" -> {<<"route", e.original>>}
    [] e.section = "interfaces" ->
         One({"ifaces", "ui", "prefix", "pool"})
         \cup {<<"acq", n>> : n \in {m \in Nics : ~ staysWan(e.ifaces, m)}}
    [] e.section = "services" -> One({"prefix", "pool", "pd"})
    [] e.section = "firewall" -> One({"fw"})
    [] e.section = "wireguard" ->
         IF e.name = None THEN {<<"wg", t>> : t \in Tunnels}
         ELSE {<<"wg", e.name>>}
              \cup {<<"route", r>> : r \in {q \in Routes : /\ e.route # None
                                                           /\ q.to = e.route.to
                                                           /\ q.dev = e.route.dev}}
    [] e.section = "qdiscs" -> {<<"qd", e.dev>>}
    [] e.section = "ipv6" -> {<<"acq", e.name>>}
    [] e.section = "confirmation" -> One({"confirm"})
=============================================================================
