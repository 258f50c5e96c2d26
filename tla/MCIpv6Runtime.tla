---------------------------- MODULE MCIpv6Runtime ----------------------------
(* Small instances of Ipv6Runtime: two WANs, of which the first may ask for *)
(* a delegated prefix, and two LANs.  Between two configurations the client *)
(* of the first WAN changes its modes and keeps asking for a prefix; the    *)
(* third routes a static prefix to another LAN and stops the client.        *)
EXTENDS Ipv6Runtime

CONSTANTS wan0, wan1, lan0, lan1, pA, pB, s1, s2

MCWans == <<wan0, wan1>>

MCWan(m0, pd0, m1) ==
  [w \in {wan0, wan1} |-> IF w = wan0 THEN [mode |-> m0, pd |-> pd0]
                                      ELSE [mode |-> m1, pd |-> FALSE]]

Delegated == [lan |-> lan0, static |-> None, wan |-> MCWan("slaac", TRUE, "off"), own |-> {}]
Leased == [Delegated EXCEPT !.wan = MCWan("dhcpv6", TRUE, "slaac"), !.own = {<<lan1, pB>>}]
Static == [lan |-> lan1, static |-> pA, wan |-> MCWan("off", FALSE, "slaac"),
           own |-> {<<lan1, pB>>}]

MCConfigs == {Delegated, Leased, Static}
MCConfigsDelegated == {Delegated, Leased}
MCLeases == {[pd |-> pA, dns |-> <<s1>>], [pd |-> pB, dns |-> <<s2, s1>>]}
MCLimit == [apply |-> 1, restart |-> 1, lease |-> 2, advert |-> 1, fault |-> 1]
MCLimitQuiet == [apply |-> 1, restart |-> 0, lease |-> 2, advert |-> 0, fault |-> 0]
=============================================================================
