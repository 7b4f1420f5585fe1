----------------------------- MODULE MCBusCapture -----------------------------
(* Two nodes, one DID and two requests at once: two scans that each see a  *)
(* different node answer can overlap before and after the row exists.      *)
EXTENDS BusCapture

CONSTANTS n1, n2, d1, x1, c1, h1, h2

MCNodes == {n1, n2}
MCHandlers == {h1, h2}

(* A scan lists the nodes of its profile.  A dark node has no codes, and   *)
(* the bay copies reachable into ever_reachable (captureBody in Bay.tsx).  *)
Dark == [reachable |-> FALSE, ever |-> FALSE, dtcs |-> {}]
Clean == [reachable |-> TRUE, ever |-> TRUE, dtcs |-> {}]
Faulty == [reachable |-> TRUE, ever |-> TRUE, dtcs |-> {c1}]

MCScans ==
  [modules : UNION {[S -> {Dark, Clean, Faulty}] : S \in SUBSET {n1, n2} \ {{}}},
   identity : {[d \in {} |-> NoText], [d \in {d1} |-> NoText], [d \in {d1} |-> x1]}]
=============================================================================
