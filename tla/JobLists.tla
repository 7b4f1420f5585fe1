-------------------------------- MODULE JobLists --------------------------------
(***************************************************************************)
(* The lists of jobs that the bay keeps in localStorage: the jobs waiting  *)
(* for the ledger (queue.ts) and the parked visits (jobStall.ts).  Both    *)
(* are rewritten with filter(), which keeps the order of what stays.       *)
(*                                                                         *)
(* The operator is SelectSeq of the standard modules by the places that    *)
(* go, written without recursion so that it can be reasoned about.         *)
(***************************************************************************)
EXTENDS Naturals, Sequences, FiniteSets

(* The list without the entries at the places in gone.                     *)
Dropping(s, gone) ==
  LET kept == DOMAIN s \ gone
      place(i) == Cardinality({j \in kept : j <= i})
  IN  [k \in 1 .. Cardinality(kept) |-> s[CHOOSE i \in kept : place(i) = k]]
=============================================================================
