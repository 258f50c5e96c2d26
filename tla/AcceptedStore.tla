----------------------------- MODULE AcceptedStore -----------------------------
(***************************************************************************)
(* What netd promises its clients about Accepted Desired state: a store    *)
(* that holds one Accepted state with its predecessor and attribution and  *)
(* changes by accepting the next revision.  An acceptance whose commit     *)
(* could not be confirmed may still be undone by a power loss, as a whole; *)
(* nothing else ever changes the store.                                    *)
(***************************************************************************)
EXTENDS Naturals

CONSTANT None

VARIABLES
  store,  \* [desired, prev, attr]
  undo    \* what a power loss would bring back, or None once settled

Init == undo = None /\ store.prev = None

Accept ==
  /\ undo = None
  /\ store'.desired.rev = store.desired.rev + 1
  /\ store'.prev = store.desired
  /\ store'.attr.rev = store'.desired.rev
  /\ undo' \in {None, store}

Settle ==
  /\ undo # None
  /\ undo' = None
  /\ UNCHANGED store

Revert ==
  /\ undo # None
  /\ store' = undo
  /\ undo' = None

Next == Accept \/ Settle \/ Revert

Spec == Init /\ [][Next]_<<store, undo>>
=============================================================================
