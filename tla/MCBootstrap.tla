----------------------------- MODULE MCBootstrap ------------------------------
(* Instances of Bootstrap. *)
EXTENDS Bootstrap, TLC

CONSTANTS h1, h2, o1

MCHosts == {h1, h2}
MCOpts == {o1}
MCLimit == [fault |-> 3, crash |-> 2, timeout |-> 1, opt |-> 1]
MCSymmetry == Permutations(MCHosts)
=============================================================================
