------------------------------ MODULE Ipv6Runtime ------------------------------
(***************************************************************************)
(* IPv6 on a running appliance (netd.rs, ra.rs, fwd_resolvers.rs).         *)
(*                                                                         *)
(* A DHCPv6 client per WAN writes what it was leased into files, at any    *)
(* moment.  netd's main loop looks at these files once a second (refresh): *)
(* it publishes the resolvers the WANs learned, follows a changed prefix   *)
(* onto the LAN, and keeps the Router Advertisements of every LAN matched  *)
(* to its prefixes.  It compares with what it saw last, which an apply     *)
(* does not touch, although an apply restarts clients and programs the LAN *)
(* from the same files.  One thread runs both, so a client's script is     *)
(* what interleaves with them; any call may fail and netd may restart.     *)
(*                                                                         *)
(* Left to NetdApply: how an apply is accepted or undone, and the refresh  *)
(* standing still while recovery is pending.  Prefixes and resolvers are   *)
(* values; the packets, sockets and configuration texts around them are    *)
(* left out, and so is the IPv4 half of the LAN services.                  *)
(***************************************************************************)
EXTENDS SequencesExt, Integers

CONSTANTS
  Wans,            \* WAN interfaces, in the order of the Desired state
  Lans,            \* LAN interfaces
  Delegations,     \* prefixes a provider may delegate
  Servers,         \* DNS resolvers
  Leases,          \* what a provider leases: pd and dns
  Configs,         \* Desired states: lan, static, wan, own
  MaxNameservers,  \* MAX_NAMESERVERS, 3 in the code
  Limit,           \* bounds on the events of Events
  MaxEvents,       \* bound on all of them together
  None

Events == {"apply", "restart", "lease", "advert", "fault"}

(* lan is the first LAN, static the routed prefix, wan the IPv6 mode and   *)
(* the delegation request of each WAN, own the /64s of LAN interfaces.     *)
Config ==
  [lan : Lans \cup {None},
   static : Delegations \cup {None},
   wan : [ToSet(Wans) -> [mode : {"off", "slaac", "dhcpv6"}, pd : BOOLEAN]],
   own : SUBSET (Lans \X Delegations)]

validate_ipv6(c) ==
  \A v, w \in ToSet(Wans) : c.wan[v].pd /\ c.wan[w].pd => v = w /\ c.static = None

ASSUME Ipv6Assumption ==
  /\ Wans \in Seq(ToSet(Wans))
  /\ \A l \in Leases : l.pd \in Delegations /\ l.dns \in Seq(Servers)
  /\ Configs \subseteq Config /\ \A c \in Configs : validate_ipv6(c)
  /\ MaxNameservers \in Nat \ {0} /\ Limit \in [Events -> Nat] /\ MaxEvents \in Nat

VARIABLES
  desired,    \* the Desired state that is live
  pc,         \* where netd is: "wan", "lan", "wait" of an apply; "idle";
              \* "seen", "poll" of a turn of the main loop
  client,     \* the DHCPv6 client of each WAN: its modes, or None
  stopped,    \* modes of a client just stopped, whose script may still run
  lease,      \* its files: the delegated prefix and the resolvers
  lan,        \* addr: IPv6 addresses on LANs; kea: kea-dhcp6.conf;
              \* served: what Kea was last told to run with
  observed,   \* Ipv6Runtime.observed: prefix and address, or None
  seen,       \* the prefix this turn of the loop has read
  links,      \* Advertiser.links: prefixes and managed flag of LANs
  hosts,      \* the prefixes the hosts of each LAN hold as valid
  listening,  \* RdnssListener.links
  learned,    \* RdnssListener.learned: wan, server, live
  resolvers,  \* Ipv6Runtime.resolvers: what was last published, or None
  conf,       \* fwd-resolv.conf: text, and whether that is known durable
  used        \* events so far

clientVars == <<client, stopped, lease>>
lanVars == <<lan, observed, links, hosts>>
dnsVars == <<listening, learned, resolvers, conf>>
vars == <<desired, pc, clientVars, lanVars, seen, dnsVars, used>>

Spend(e) ==
  /\ used[e] < Limit[e]
  /\ used["apply"] + used["restart"] + used["lease"] + used["advert"] + used["fault"] < MaxEvents
  /\ used' = [used EXCEPT ![e] = @ + 1]
Try(f) == IF f = None THEN UNCHANGED used ELSE Spend("fault")

--------------------------------------------------------------------------
(* The DHCPv6 clients (external) and netd's hold on them. *)

NoLease == [pd |-> None, dns |-> <<>>]

dhclient6_args(iface) ==
  (IF iface.mode = "dhcpv6" THEN {"-N"} ELSE {}) \cup (IF iface.pd THEN {"-P"} ELSE {})

(* program_wan_ipv6: a client that runs with the wanted modes is left      *)
(* alone; any other is stopped, its files removed, and started if wanted.  *)
wanted(w) ==
  LET args == dhclient6_args(desired.wan[w]) IN IF args = {} THEN None ELSE args
left_alone(w) == client[w] = wanted(w)
start_dhclient6(w) == IF wanted(w) # None /\ left_alone(w) THEN lease[w] ELSE NoLease
program_wan_ipv6 ==
  /\ pc = "wan" /\ pc' = "lan"
  /\ client' = [w \in DOMAIN client |-> wanted(w)]
  /\ stopped' = [w \in DOMAIN client |->
                   IF client[w] = None \/ left_alone(w) THEN stopped[w] ELSE client[w]]
  /\ lease' = [w \in DOMAIN lease |-> start_dhclient6(w)]
  /\ UNCHANGED <<desired, lanVars, seen, dnsVars, used>>

(* dhclient6_script on BOUND6, RENEW6, REBIND6, REBOOT6 and on EXPIRE6.    *)
(* Stopping a client does not wait for it: a script it has begun may write *)
(* its files after their removal.                                          *)
Written(w, args) ==
  {[pd |-> IF "-P" \in args THEN l.pd ELSE lease[w].pd, dns |-> l.dns] : l \in Leases}
    \cup {NoLease}
dhclient6_script ==
  /\ \E w \in ToSet(Wans) :
       /\ \/ client[w] # None /\ UNCHANGED stopped
             /\ \E l \in Written(w, client[w]) : l # lease[w] /\ lease' = [lease EXCEPT ![w] = l]
          \/ stopped[w] # None /\ stopped' = [stopped EXCEPT ![w] = None]
             /\ \E l \in Written(w, stopped[w]) : lease' = [lease EXCEPT ![w] = l]
  /\ Spend("lease")
  /\ UNCHANGED <<desired, pc, client, lanVars, seen, dnsVars>>

--------------------------------------------------------------------------
(* The LAN. *)

acquired_prefix(c) ==
  IF \E w \in ToSet(Wans) : c.wan[w].pd
  THEN lease[CHOOSE w \in ToSet(Wans) : c.wan[w].pd].pd ELSE None
routed_lan_prefix(c) == IF c.static # None THEN c.static ELSE acquired_prefix(c)

pd_lan_addr(c, p) == IF c.lan # None /\ p # None THEN <<c.lan, p>> ELSE None

(* program_lan_services reads the prefix for itself; f is the call that    *)
(* fails: adding the address, or writing the configuration.                *)
program_lan_services(l, f) ==
  LET a == pd_lan_addr(desired, routed_lan_prefix(desired))
  IN [l EXCEPT !.addr = IF a = None \/ f = "addr" THEN @ ELSE @ \cup {a},
               !.kea = IF f \in {"addr", "kea"} THEN @ ELSE a]

set_lan_services_ready(l) == [l EXCEPT !.served = l.kea]

(* The rest of an apply: the LAN, then the wait for the LAN services. *)
ApplyLan ==
  /\ pc = "lan" /\ pc' = "wait"
  /\ lan' = program_lan_services(lan, None)
  /\ UNCHANGED <<desired, clientVars, observed, seen, links, hosts, dnsVars, used>>
ApplyEnds ==
  /\ pc = "wait" /\ pc' = "idle"
  /\ lan' = set_lan_services_ready(lan)
  /\ UNCHANGED <<desired, clientVars, observed, seen, links, hosts, dnsVars, used>>
apply ==
  /\ pc = "idle" /\ pc' = "wan"
  /\ Spend("apply")
  /\ desired' \in Configs \ {desired}
  /\ UNCHANGED <<clientVars, lanVars, seen, dnsVars>>

--------------------------------------------------------------------------
(* Router Advertisements on LANs. *)

(* lan_ipv6 and the Lan records refresh makes of it, by device: LANs       *)
(* without a prefix get none.                                              *)
lan_ipv6(c, p) ==
  c.own \cup (IF pd_lan_addr(c, p) = None THEN {} ELSE {pd_lan_addr(c, p)})
Advertisements(c, p) ==
  [d \in {x[1] : x \in lan_ipv6(c, p)} |->
     [prefixes |-> {x[2] : x \in {y \in lan_ipv6(c, p) : y[1] = d}},
      managed |-> p # None /\ d = c.lan]]

Advertised(l, d) == IF d \in DOMAIN l THEN l[d].prefixes ELSE {}

(* Advertiser.configure: a changed or vanished link withdraws what it      *)
(* advertised and is dropped, also when the withdrawal cannot be sent;     *)
(* links that do not open are tried again the next time.                   *)
Reconfigure(kept, lans, f) ==
  LET opened == IF f = "open" THEN {} ELSE DOMAIN lans \ kept
      dropped == DOMAIN links \ kept
  IN /\ f = "open" => ~ DOMAIN lans \subseteq kept
     /\ links' = [d \in kept \cup opened |-> lans[d]]
     /\ \E unsent \in IF f = "send" THEN {{d} : d \in dropped} ELSE {{}} :
          hosts' = [d \in Lans |-> IF d \in dropped \ unsent THEN hosts[d] \ Advertised(links, d)
                                  ELSE hosts[d]]

configure(lans, f) ==
  Reconfigure({d \in DOMAIN links \cap DOMAIN lans : links[d] = lans[d]}, lans, f)

(* Advertiser.poll: a link that has just been opened is due at once, and   *)
(* every link again after a while or when a host solicits; a send that     *)
(* fails is only logged.                                                   *)
poll_withdraws ==
  /\ pc = "poll" /\ pc' = "idle"
  /\ hosts' = [d \in Lans |-> hosts[d] \ Advertised(links, d)]
  /\ UNCHANGED <<desired, clientVars, lan, observed, seen, links, dnsVars, used>>

poll ==
  /\ pc = "poll" /\ pc' = "idle"
  /\ \E unsent \in {{}} \cup {{d} : d \in DOMAIN links} :
       /\ Try(IF unsent = {} THEN None ELSE "send")
       /\ hosts' = [d \in Lans |-> hosts[d] \cup IF d \in unsent THEN {} ELSE Advertised(links, d)]
  /\ UNCHANGED <<desired, clientVars, lan, observed, seen, links, dnsVars>>

(* Hosts (external) keep a prefix for its valid lifetime, an hour, and     *)
(* netd advertises every half minute.                                      *)
HostForgets ==
  /\ \E d \in Lans : \E p \in hosts[d] \ Advertised(links, d) :
       hosts' = [hosts EXCEPT ![d] = @ \ {p}]
  /\ UNCHANGED <<desired, pc, clientVars, lan, observed, seen, links, dnsVars, used>>

--------------------------------------------------------------------------
(* Resolvers the WANs learned. *)

(* The members of a finite set of numbers, in their order. *)
in_order(P) ==
  CHOOSE f \in [1..Cardinality(P) -> P] : \A m, n \in DOMAIN f : m < n => f[m] < f[n]

(* The elements of a sequence at some positions, as Vec::retain and        *)
(* Iterator::filter leave them.                                            *)
retain(s, P) == LET at == in_order(P) IN [i \in DOMAIN at |-> s[at[i]]]

(* RdnssListener.poll and learn: a resolver named again moves to the end,  *)
(* one with a lifetime of zero is forgotten.                               *)
learn(w, s, lifetime) ==
  LET others == retain(learned, {i \in DOMAIN learned : learned[i].wan # w \/ learned[i].server # s})
  IN learned' = IF lifetime = 0 THEN others
                ELSE Append(others, [wan |-> w, server |-> s, live |-> TRUE])
rdnss_poll ==
  /\ pc = "idle"
  /\ \E w \in listening, s \in Servers, lifetime \in {0, 1} : learn(w, s, lifetime)
  /\ Spend("advert")
  /\ UNCHANGED <<desired, pc, clientVars, lanVars, seen, listening, resolvers, conf>>
LifetimeEnds ==
  /\ \E i \in DOMAIN learned : learned[i].live /\ learned' = [learned EXCEPT ![i].live = FALSE]
  /\ UNCHANGED <<desired, pc, clientVars, lanVars, seen, listening, resolvers, conf, used>>

servers(known, w) ==
  LET live == retain(known, {i \in DOMAIN known : known[i].wan = w /\ known[i].live})
  IN [i \in DOMAIN live |-> live[i].server]

(* Where each resolver that was found is named first. *)
firsts(found) == in_order({i \in DOMAIN found : \A j \in 1..(i - 1) : found[j] # found[i]})

resolv_conf_unlimited(found) == [i \in DOMAIN firsts(found) |-> found[firsts(found)[i]]]

resolv_conf(found) ==
  LET f == firsts(found)
  IN [i \in {n \in DOMAIN f : n <= MaxNameservers} |-> found[f[i]]]

learned_resolvers(known) ==
  resolv_conf(FlattenSeq([i \in DOMAIN Wans |-> lease[Wans[i]].dns \o servers(known, Wans[i])]))

accepting_ra == {w \in ToSet(Wans) : desired.wan[w].mode # "off"}

(* follow_wan_resolvers; publish may fail before the file is replaced or   *)
(* when the directory is synced after it, and is then repeated.            *)
listen(f) ==
  /\ f = "socket" => ~ accepting_ra \subseteq listening
  /\ listening' = IF f = "socket" THEN listening \cap accepting_ra ELSE accepting_ra
  /\ learned' = retain(learned, {i \in DOMAIN learned : learned[i].wan \in accepting_ra})

publish(text, f) ==
  /\ f \in {"write", "sync"} => resolvers # text
  /\ conf' = IF resolvers = text \/ f = "write" THEN conf
             ELSE [text |-> text, durable |-> f # "sync"]

remember_unpublished(f) ==
  /\ listen(f)
  /\ \E text \in {learned_resolvers(learned')} : publish(text, f) /\ resolvers' = text

follow_wan_resolvers(f) ==
  /\ listen(f)
  /\ \E text \in {learned_resolvers(learned')} :
       /\ publish(text, f)
       /\ resolvers' = IF f \in {"write", "sync"} THEN resolvers ELSE text

--------------------------------------------------------------------------
(* One turn of the main loop: refresh, then poll. *)

refresh ==
  /\ pc = "idle" /\ pc' = "seen"
  /\ \E f \in {None, "socket", "write", "sync"} : Try(f) /\ follow_wan_resolvers(f)
  /\ seen' = routed_lan_prefix(desired)
  /\ UNCHANGED <<desired, clientVars, lanVars>>

Changed == observed # None /\ observed.prefix # seen

LanFailures == {"addr", "kea", "ready"}

(* The second half: a changed prefix takes its predecessor's address off,  *)
(* if that can be deleted, and programs the LAN anew.  When programming    *)
(* fails the turn ends without a trace, to be repeated by the next one.    *)
follow_prefix(f) ==
  LET old == IF f = "del" THEN {} ELSE {observed.address} \ {pd_lan_addr(desired, seen), None}
      programmed == program_lan_services([lan EXCEPT !.addr = @ \ old], f)
  IN /\ f \in LanFailures \cup {"del"} => Changed
     /\ f = "del" => observed.address \notin {None, pd_lan_addr(desired, seen)}
     /\ lan' = IF ~Changed THEN lan
               ELSE IF f \in LanFailures THEN programmed ELSE set_lan_services_ready(programmed)

advertise_changes(f) ==
  IF f \in LanFailures \/ (observed # None /\ ~Changed)
  THEN f \notin {"open", "send"} /\ UNCHANGED <<observed, links, hosts>>
  ELSE /\ observed' = [prefix |-> seen, address |-> pd_lan_addr(desired, seen)]
       /\ configure(Advertisements(desired, seen), f)

advertise(f) ==
  IF f \in LanFailures
  THEN UNCHANGED <<observed, links, hosts>>
  ELSE /\ observed' = [prefix |-> seen, address |-> pd_lan_addr(desired, seen)]
       /\ configure(Advertisements(desired, seen), f)

refresh_follows ==
  /\ pc = "seen" /\ pc' = "poll"
  /\ \E f \in {None, "del", "open", "send"} \cup LanFailures : Try(f) /\ follow_prefix(f) /\ advertise(f)
  /\ UNCHANGED <<desired, clientVars, seen, dnsVars>>

--------------------------------------------------------------------------
(* netd starts, or starts again: the process's memory is new, its clients  *)
(* may have survived, and a reboot clears the addresses.                   *)

NewMemory ==
  /\ observed' = None /\ seen' = None
  /\ links' = << >> /\ listening' = {} /\ learned' = <<>> /\ resolvers' = None
Restart ==
  /\ Spend("restart")
  /\ pc' = "wan"
  /\ NewMemory
  /\ \E reboot, survive \in BOOLEAN :
       /\ reboot => ~survive
       /\ client' = IF survive THEN client ELSE [w \in DOMAIN client |-> None]
       /\ stopped' = IF survive THEN stopped ELSE client'
       /\ lan' = IF reboot THEN [lan EXCEPT !.addr = {}] ELSE lan
  /\ UNCHANGED <<desired, lease, hosts, conf>>

Init ==
  /\ desired \in Configs
  /\ pc = "wan"
  /\ client = [w \in ToSet(Wans) |-> None] /\ stopped = client
  /\ lease = [w \in ToSet(Wans) |-> NoLease]
  /\ lan = [addr |-> {}, kea |-> None, served |-> None]
  /\ observed = None /\ seen = None /\ links = << >>
  /\ hosts = [d \in Lans |-> {}]
  /\ listening = {} /\ learned = <<>> /\ resolvers = None
  /\ conf = [text |-> <<>>, durable |-> TRUE]
  /\ used = [e \in Events |-> 0]

Netd == program_wan_ipv6 \/ ApplyLan \/ ApplyEnds \/ refresh \/ refresh_follows \/ poll

Next ==
  Netd \/ apply \/ rdnss_poll \/ LifetimeEnds \/ dhclient6_script \/ HostForgets \/ Restart

(* netd's thread goes on: an apply and every turn of the loop end, and a   *)
(* turn that is due runs before the next request is taken.  Time goes on   *)
(* for hosts too.                                                          *)
Spec == Init /\ [][Next]_vars /\ WF_vars(Netd) /\ WF_vars(HostForgets)

--------------------------------------------------------------------------
(* Every variable has its type; what is published keeps the limit of       *)
(* fwd_resolvers and names no resolver twice.                              *)
TypeOK ==
  /\ desired \in Configs
  /\ pc \in {"wan", "lan", "wait", "idle", "seen", "poll"}
  /\ \A w \in ToSet(Wans) :
       /\ {client[w], stopped[w]} \subseteq (SUBSET {"-N", "-P"}) \cup {None}
       /\ lease[w].pd \in Delegations \cup {None} /\ ToSet(lease[w].dns) \subseteq Servers
  /\ lan.addr \subseteq Lans \X Delegations
  /\ {lan.kea, lan.served} \subseteq (Lans \X Delegations) \cup {None}
  /\ observed = None \/ observed.prefix \in Delegations \cup {None}
  /\ DOMAIN links \subseteq Lans /\ \A d \in Lans : hosts[d] \subseteq Delegations
  /\ listening \subseteq ToSet(Wans) /\ \A i \in DOMAIN learned : learned[i].wan \in ToSet(Wans)
  /\ Len(conf.text) \in 0..MaxNameservers /\ IsInjective(conf.text)

(* Ipv6Runtime.refresh: once leases, applies and failures come to rest,    *)
(* every LAN is advertised with exactly the prefixes routed to it, however *)
(* often a link could not be opened or the LAN not be programmed.          *)
AdvertisesRouted ==
  <>[](links = Advertisements(desired, routed_lan_prefix(desired)))

(* Advertiser: in the end the hosts of every LAN hold exactly the prefixes *)
(* routed to it, although a withdrawal or an advertisement could not be    *)
(* sent and a restart forgets what it advertised.                          *)
HostsFollow ==
  <>[](\A d \in Lans :
         hosts[d] = {x[2] : x \in {y \in lan_ipv6(desired, routed_lan_prefix(desired)) : y[1] = d}})

(* follow_wan_resolvers: in the end fwd-resolv.conf names the resolvers    *)
(* the WANs have now, unless the last replacement of the file reported an  *)
(* error after it took place and was then not needed any more.             *)
ResolversFollow ==
  <>[](conf.durable => conf.text = learned_resolvers(learned))

(* netd.rs, Ipv6Runtime: "Follows a DHCPv6 delegated prefix onto the LAN   *)
(* between applies": Kea serves it and the LAN has an address in it.       *)
FollowsPrefix ==
  <>[](LET a == pd_lan_addr(desired, routed_lan_prefix(desired))
       IN lan.served = a /\ (a # None => a \in lan.addr))
=============================================================================
