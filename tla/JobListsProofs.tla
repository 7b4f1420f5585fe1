----------------------------- MODULE JobListsProofs -----------------------------
(***************************************************************************)
(* What Dropping does to a list, as the proofs about the offline queue and *)
(* the parked visits use it: the new list holds the entries that were kept *)
(* and no others, each once.                                               *)
(***************************************************************************)
EXTENDS JobLists, FiniteSetTheorems, TLAPS

(* g says at which place of s the entry stood that is now at place k.      *)
KeptPlaces(s, gone, g) ==
  LET t == Dropping(s, gone) IN
  /\ g \in [DOMAIN t -> DOMAIN s \ gone]
  /\ \A k \in DOMAIN t : t[k] = s[g[k]]
  /\ \A k, l \in DOMAIN t : g[k] = g[l] => k = l
  /\ \A i \in DOMAIN s \ gone : \E k \in DOMAIN t : g[k] = i

(* Dropping gives a list of the same kind of entries, one for every place  *)
(* that is kept: filter() loses no entry that its test lets through,       *)
(* doubles none and brings back none that it refuses.                      *)
THEOREM DroppingKeeps ==
  ASSUME NEW S, NEW s \in Seq(S), NEW gone
  PROVE  /\ Dropping(s, gone) \in Seq(S)
         /\ Len(Dropping(s, gone)) <= Len(s)
         /\ \E g : KeptPlaces(s, gone, g)
<1> DEFINE kept == DOMAIN s \ gone
           upTo(i) == {j \in kept : j <= i}
           place(i) == Cardinality(upTo(i))
           m == Cardinality(kept)
           g == [k \in 1 .. m |-> CHOOSE i \in kept : place(i) = k]
           p == [i \in kept |-> place(i)]
<1>1. Len(s) \in Nat /\ DOMAIN s = 1 .. Len(s) /\ \A i \in DOMAIN s : s[i] \in S
  OBVIOUS
<1>2. IsFiniteSet(kept) /\ m \in Nat /\ m <= Len(s)
  <2>1. IsFiniteSet(1 .. Len(s)) /\ Cardinality(1 .. Len(s)) = Len(s)
    BY <1>1, FS_Interval
  <2>2. kept \in SUBSET (1 .. Len(s))
    BY <1>1
  <2> QED BY <2>1, <2>2, <1>1, FS_Subset, FS_CardinalityType
<1>3. ASSUME NEW i \in kept
      PROVE  IsFiniteSet(upTo(i)) /\ place(i) \in 1 .. m /\ place(i) \in Nat
  <2>1. upTo(i) \in SUBSET kept /\ i \in upTo(i)
    BY <1>1
  <2>2. IsFiniteSet(upTo(i)) /\ place(i) <= m /\ place(i) \in Nat
    BY <2>1, <1>2, FS_Subset, FS_CardinalityType
  <2>3. place(i) # 0
    BY <2>1, <2>2, FS_EmptySet
  <2> QED BY <2>2, <2>3, <1>2
<1>4. ASSUME NEW i \in kept, NEW j \in kept, i < j
      PROVE  place(i) < place(j)
  <2>1. upTo(i) \cup {j} \in SUBSET upTo(j) /\ j \notin upTo(i)
    BY <1>1, <1>4
  <2>2. Cardinality(upTo(i) \cup {j}) = place(i) + 1
    BY <2>1, <1>3, FS_AddElement
  <2>3. place(i) + 1 <= place(j)
    BY <2>1, <2>2, <1>3, FS_Subset
  <2>4. place(i) \in Nat /\ place(j) \in Nat
    BY <1>3
  <2> HIDE DEF place
  <2> QED BY <2>3, <2>4
<1>5. \A i, j \in kept : place(i) = place(j) => i = j
  <2> SUFFICES ASSUME NEW i \in kept, NEW j \in kept, place(i) = place(j), i # j
               PROVE  FALSE
    OBVIOUS
  <2>1. i < j \/ j < i
    BY <1>1
  <2>2. place(i) < place(j) \/ place(j) < place(i)
    BY <2>1, <1>4
  <2>3. place(i) \in Nat /\ place(j) \in Nat
    BY <1>3
  <2> HIDE DEF place
  <2> QED BY <2>2, <2>3
<1>6. p \in Surjection(kept, 1 .. m)
  <2>1. IsFiniteSet(1 .. m) /\ Cardinality(1 .. m) = m
    BY <1>2, FS_Interval
  <2>2. p \in [kept -> 1 .. m]
    BY <1>3
  <2>3. p \in Injection(kept, 1 .. m)
    <3> HIDE DEF place, m
    <3> QED BY <2>2, <1>5 DEF Injection, IsInjective
  <2> HIDE DEF p, m
  <2> QED BY <2>1, <2>3, FS_Injection DEF m
<1>7. \A k \in 1 .. m : g[k] \in kept /\ place(g[k]) = k
  <2> HIDE DEF place, kept, m
  <2> SUFFICES ASSUME NEW k \in 1 .. m
               PROVE  g[k] \in kept /\ place(g[k]) = k
    OBVIOUS
  <2>1. PICK i \in kept : p[i] = k
    BY <1>6 DEF Surjection
  <2>2. place(i) = k
    BY <2>1
  <2> QED BY <2>2
<1>8. \A i \in kept : place(i) \in 1 .. m /\ g[place(i)] = i
  <2> HIDE DEF place, kept, m, g
  <2> QED BY <1>3, <1>5, <1>7
<1>9. Dropping(s, gone) = [k \in 1 .. m |-> s[g[k]]]
  BY DEF Dropping
<1> HIDE DEF place, kept, m, g
<1>10. kept = DOMAIN s \ gone
  BY DEF kept
<1>11. Dropping(s, gone) \in Seq(S) /\ DOMAIN Dropping(s, gone) = 1 .. m
       /\ Len(Dropping(s, gone)) = m
  BY <1>9, <1>7, <1>10, <1>1, <1>2
<1>12. g \in [1 .. m -> kept]
  <2>1. g = [k \in 1 .. m |-> g[k]]
    BY DEF g
  <2> QED BY <2>1, <1>7
<1>13. KeptPlaces(s, gone, g)
  <2>1. \A k, l \in 1 .. m : g[k] = g[l] => k = l
    BY <1>7
  <2>2. \A i \in kept : \E k \in 1 .. m : g[k] = i
    BY <1>8
  <2>3. \A k \in 1 .. m : Dropping(s, gone)[k] = s[g[k]]
    BY <1>9
  <2> QED BY <2>1, <2>2, <2>3, <1>10, <1>11, <1>12 DEF KeptPlaces
<1> QED BY <1>11, <1>13, <1>2

=============================================================================
