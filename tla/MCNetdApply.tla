---------------------------- MODULE MCNetdApply ----------------------------
(* Small instances of NetdApply: two networks, one of which asks for Apply  *)
(* confirmation, both with addresses on their interfaces.                   *)
EXTENDS NetdApply

CONSTANTS n1, n2, x1, x2

MCNets == {n1, n2}
MCAddrs == {x1, x2}
MCProposals == {[net |-> n1, addrs |-> {x1}, confirm |-> FALSE],
                [net |-> n2, addrs |-> {x2}, confirm |-> TRUE]}
\* An IPv6-only LAN has no IPv4 address on its interface.
MCProposalsIPv6Only == {[net |-> n1, addrs |-> {}, confirm |-> TRUE],
                        [net |-> n2, addrs |-> {x2}, confirm |-> FALSE]}
MCGens == 1..6
=============================================================================
