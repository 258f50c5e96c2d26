---------------------------- MODULE MCHostUpdate ----------------------------
(* A small instance of HostUpdate: two references with two Releases each,   *)
(* a tag that has moved, and two networks.  The two Releases behind the     *)
(* reference that is not installed are interchangeable.                     *)
EXTENDS HostUpdate, TLC

CONSTANTS rA, rB, rC, rD, old, new

MCReleases == {rA, rB, rC, rD}
MCSymmetry == Permutations(Nets) \cup Permutations({rC, rD})
MCName == [r \in MCReleases |-> IF r \in {rA, rB} THEN old ELSE new]
MCLimit == [fault |-> 1, crash |-> 1, stage |-> 2, reboot |-> 2, rollback |-> 2, edit |-> 1]
=============================================================================
