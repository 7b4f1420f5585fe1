----------------------------- MODULE MCBayCaptures -----------------------------
(* Two nodes and two scans that each see another one answer; three saves,  *)
(* four PUTs at the ledger, two at once, one lost answer and one event.    *)
(* One flush: MCOfflineQueue has two.                                      *)
EXTENDS BayCaptures, TLC

CONSTANTS n1, n2, d1, x1, c1

Dark == [reachable |-> FALSE, ever |-> FALSE, dtcs |-> {}]
Clean == [reachable |-> TRUE, ever |-> TRUE, dtcs |-> {}]
Faulty == [reachable |-> TRUE, ever |-> TRUE, dtcs |-> {c1}]

(* The second profile does not list the node that the first one sees.      *)
MCScans ==
  {[modules |-> [n \in {n1, n2} |-> IF n = n1 THEN Faulty ELSE Dark],
    identity |-> [d \in {d1} |-> x1]],
   [modules |-> [n \in {n2} |-> Clean], identity |-> [d \in {d1} |-> NoText]]}

(* No request is distinguished, and the run checks invariants only.        *)
Alike == Permutations(Handlers)
=============================================================================
