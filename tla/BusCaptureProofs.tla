---------------------------- MODULE BusCaptureProofs ----------------------------
(***************************************************************************)
(* Proofs about BusCapture for any number of modules, scans and concurrent *)
(* requests, and about BayCaptures, a bay's queue in front of it, for any  *)
(* number of saves, flushes, losses and reloads.                           *)
(***************************************************************************)
EXTENDS BayCaptures, TLAPS

ModuleMaps == PartialFunctions(Nodes, NodeRow)
TextMaps == PartialFunctions(DIDs, Texts \cup {NoText})

(* What a capture claims to have seen was seen by a scan.                  *)
Founded(c) ==
  c # Missing =>
    /\ \A n \in DOMAIN c.modules : Answered(c.modules[n]) => n \in answered
    /\ \A d \in DOMAIN c.identity : c.identity[d] # NoText => d \in read

(* A request that read the row as it still is merges into all of it.       *)
RequestInv ==
  \A h \in Handlers : request[h] # Idle =>
    /\ request[h].version <= writes
    /\ request[h].version = writes => request[h].prev = row
    /\ Founded(request[h].prev)

RowInv ==
  /\ row = Missing <=> writes = 0
  /\ writes = 0 => answered = {} /\ read = {}
  /\ Founded(row)

IInv ==
  /\ TypeOK
  /\ RequestInv
  /\ RowInv
  /\ NothingInvented
  /\ NothingForgotten

-----------------------------------------------------------------------------
(* A partial function is a function on a part of its domain set.           *)
LEMMA PartialFunctionIs ==
  ASSUME NEW D, NEW R, NEW f
  PROVE  f \in PartialFunctions(D, R) <=>
           /\ DOMAIN f \subseteq D
           /\ f \in [DOMAIN f -> R]
BY DEF PartialFunctions

(* The merged map of two maps is a map of their modules (mergeBusModules). *)
LEMMA MergeModulesType ==
  ASSUME NEW prev \in ModuleMaps, NEW next \in ModuleMaps
  PROVE  MergeModules(prev, next) \in ModuleMaps
<1>1. /\ DOMAIN prev \subseteq Nodes /\ \A n \in DOMAIN prev : prev[n] \in NodeRow
      /\ DOMAIN next \subseteq Nodes /\ \A n \in DOMAIN next : next[n] \in NodeRow
  BY PartialFunctionIs DEF ModuleMaps
<1>2. MergeModules(prev, next) \in [DOMAIN prev \cup DOMAIN next -> NodeRow]
  BY <1>1 DEF MergeModules, NodeRow, Answered
<1>3. QED
  BY <1>1, <1>2, PartialFunctionIs DEF ModuleMaps

(* So is that of two identity blocks (mergeBusIdentity).                   *)
LEMMA MergeIdentityType ==
  ASSUME NEW prev \in TextMaps, NEW next \in TextMaps
  PROVE  MergeIdentity(prev, next) \in TextMaps
<1>1. /\ DOMAIN prev \subseteq DIDs /\ \A d \in DOMAIN prev : prev[d] \in Texts \cup {NoText}
      /\ DOMAIN next \subseteq DIDs /\ \A d \in DOMAIN next : next[d] \in Texts \cup {NoText}
  BY PartialFunctionIs DEF TextMaps
<1>2. MergeIdentity(prev, next) \in [DOMAIN prev \cup DOMAIN next -> Texts \cup {NoText}]
  BY <1>1 DEF MergeIdentity
<1>3. QED
  BY <1>1, <1>2, PartialFunctionIs DEF TextMaps

LEMMA NoModulesType == NoModules \in ModuleMaps
<1>1. NoModules \in [{} -> NodeRow] /\ DOMAIN NoModules = {}
  BY DEF NoModules
<1>2. QED
  BY <1>1, PartialFunctionIs DEF ModuleMaps

LEMMA ScanType ==
  ASSUME NEW scan \in Scans
  PROVE  /\ scan.modules \in ModuleMaps
         /\ scan.identity \in TextMaps
         /\ \A n \in DOMAIN scan.modules :
              /\ scan.modules[n].ever = scan.modules[n].reachable
              /\ ~scan.modules[n].reachable => scan.modules[n].dtcs = {}
BY ScansAssumption DEF Scan, ModuleMaps, TextMaps

LEMMA CaptureIsNotMissing == \A c \in Capture : c # Missing
BY DEF Capture, Missing

(* What a handler writes is a capture (ledger.UpsertBusCapture).           *)
LEMMA MergedType ==
  ASSUME NEW prev \in Capture \cup {Missing}, NEW scan \in Scans
  PROVE  Merged(prev, scan) \in Capture
<1>1. CASE prev = Missing
  <2>1. MergeModules(NoModules, scan.modules) \in ModuleMaps
    BY ScanType, NoModulesType, MergeModulesType
  <2>2. QED
    BY <1>1, <2>1, ScanType DEF Merged, Capture, ModuleMaps, TextMaps
<1>2. CASE prev # Missing
  <2>1. prev \in Capture
    BY <1>2
  <2>2. prev.modules \in ModuleMaps /\ prev.identity \in TextMaps /\ prev.scan_count \in Nat
    BY <2>1 DEF Capture, ModuleMaps, TextMaps
  <2>3. /\ MergeModules(prev.modules, scan.modules) \in ModuleMaps
        /\ MergeIdentity(prev.identity, scan.identity) \in TextMaps
    BY <2>2, ScanType, MergeModulesType, MergeIdentityType
  <2>4. QED
    BY <1>2, <2>2, <2>3 DEF Merged, Capture, ModuleMaps, TextMaps
<1>3. QED
  BY <1>1, <1>2

LEMMA WorkingIsRequest ==
  ASSUME TypeOK, NEW h \in Handlers, request[h] # Idle
  PROVE  request[h] \in Request
BY DEF TypeOK

(* The steps of a request, seen from the row: it reads, it writes, or it   *)
(* leaves the row and what it read alone.                                  *)
LEMMA WriteOrQuiet ==
  ASSUME TypeOK, NEW h \in Handlers,
         UpdateCapture(h) \/ UpdateMisses(h) \/ InsertCapture(h) \/ Fail(h)
  PROVE  \/ request[h] \in Request /\ Write(h) /\ UNCHANGED puts
            /\ (row = Missing \/ request[h].step = "read")
         \/ /\ UNCHANGED <<row, puts, history>>
            /\ request[h] \in Request
            /\ \E new \in Request \cup {Idle} :
                 /\ request' = [request EXCEPT ![h] = new]
                 /\ new # Idle => /\ new.prev = request[h].prev
                                  /\ new.version = request[h].version
<1>1. request[h] \in Request
  <2>1. request[h] # Idle
    BY DEF UpdateCapture, UpdateMisses, InsertCapture, Fail, Idle
  <2>2. QED
    BY <2>1, WorkingIsRequest
<1>2. CASE UpdateCapture(h) \/ InsertCapture(h)
  BY <1>1, <1>2 DEF UpdateCapture, InsertCapture
<1>3. CASE UpdateMisses(h)
  <2>1. [request[h] EXCEPT !.step = "missed"] \in Request
    BY <1>1 DEF Request
  <2>2. request' = [request EXCEPT ![h] = [request[h] EXCEPT !.step = "missed"]]
    BY <1>3 DEF UpdateMisses, TypeOK
  <2>3. /\ [request[h] EXCEPT !.step = "missed"].prev = request[h].prev
        /\ [request[h] EXCEPT !.step = "missed"].version = request[h].version
    BY <1>1 DEF Request
  <2>4. UNCHANGED <<row, puts, history>>
    BY <1>3 DEF UpdateMisses
  <2>5. QED
    BY <1>1, <2>1, <2>2, <2>3, <2>4
<1>4. CASE Fail(h)
  BY <1>1, <1>4 DEF Fail
<1>5. QED
  BY <1>2, <1>3, <1>4

LEMMA InitTyped == Init => TypeOK
<1> SUFFICES ASSUME Init PROVE TypeOK
  OBVIOUS
<1>1. request \in [Handlers -> Request \cup {Idle}]
  BY DEF Init
<1>2. puts \in 0 .. MaxPuts /\ writes \in Nat
  BY PutsAssumption DEF Init
<1>3. row \in Capture \cup {Missing} /\ stale \in BOOLEAN
  BY DEF Init
<1>4. answered \subseteq Nodes /\ read \subseteq DIDs /\ last \subseteq Nodes
  BY DEF Init
<1>5. QED
  BY <1>1, <1>2, <1>3, <1>4 DEF TypeOK

(* Types are kept.                                                         *)
LEMMA TypeStep == TypeOK /\ [Next]_vars => TypeOK'
<1> SUFFICES ASSUME TypeOK, [Next]_vars PROVE TypeOK'
  OBVIOUS
<1>1. CASE UNCHANGED vars
  BY <1>1 DEF vars, history, TypeOK
<1>2. ASSUME NEW h \in Handlers, NEW scan \in Scans, ReadCapture(h, scan)
      PROVE  TypeOK'
  <2>1. [step |-> "read", scan |-> scan, prev |-> row, version |-> writes] \in Request
    BY DEF TypeOK, Request
  <2>2. puts + 1 \in 0 .. MaxPuts
    BY <1>2, PutsAssumption DEF ReadCapture, TypeOK
  <2>3. QED
    BY <1>2, <2>1, <2>2 DEF ReadCapture, TypeOK, history
<1>3. ASSUME NEW h \in Handlers, request[h] \in Request, Write(h), UNCHANGED puts
      PROVE  TypeOK'
  <2>1. request[h].scan \in Scans /\ request[h].prev \in Capture \cup {Missing}
    BY <1>3 DEF Request
  <2>2. row' \in Capture
    BY <1>3, <2>1, MergedType DEF Write
  <2>3. ReachableIn(request[h].scan) \subseteq Nodes /\ TextsIn(request[h].scan) \subseteq DIDs
    BY <2>1, ScanType, PartialFunctionIs DEF ReachableIn, TextsIn, ModuleMaps, TextMaps
  <2>4. stale' \in BOOLEAN
    BY <1>3 DEF Write, TypeOK
  <2>5. QED
    BY <1>3, <2>2, <2>3, <2>4 DEF Write, TypeOK
<1>4. ASSUME NEW h \in Handlers, UNCHANGED <<row, puts, history>>,
             NEW new \in Request \cup {Idle}, request' = [request EXCEPT ![h] = new]
      PROVE  TypeOK'
  BY <1>4 DEF TypeOK, history
<1>5. QED
  BY <1>1, <1>2, <1>3, <1>4, WriteOrQuiet DEF Next

(* The row and every request stay of their type                            *)
(* (ledger.UpsertBusCapture).                                              *)
THEOREM TypeCorrect == Spec => []TypeOK
<1>1. Init => TypeOK
  BY InitTyped
<1>2. QED
  BY <1>1, TypeStep, PTL DEF Spec

-----------------------------------------------------------------------------
(* What the merge keeps, and what it adds: a node of the written row has   *)
(* answered the scan or was known to have answered in the row that was     *)
(* read, and every node that either knows is in it.                        *)
LEMMA MergedEver ==
  ASSUME NEW prev \in Capture \cup {Missing}, NEW scan \in Scans
  PROVE  /\ \A n \in DOMAIN Merged(prev, scan).modules :
              Answered(Merged(prev, scan).modules[n]) <=>
                \/ n \in ReachableIn(scan)
                \/ /\ prev # Missing
                   /\ n \in DOMAIN prev.modules
                   /\ Answered(prev.modules[n])
         /\ \A n \in DOMAIN Merged(prev, scan).modules :
              /\ Merged(prev, scan).modules[n].ever
                   <=> Answered(Merged(prev, scan).modules[n])
              /\ Merged(prev, scan).modules[n].reachable <=> n \in ReachableIn(scan)
              /\ Merged(prev, scan).modules[n].dtcs # {} => n \in ReachableIn(scan)
         /\ ReachableIn(scan) \subseteq DOMAIN Merged(prev, scan).modules
         /\ prev # Missing => DOMAIN prev.modules \subseteq DOMAIN Merged(prev, scan).modules
<1>1. \A n \in DOMAIN scan.modules :
        /\ scan.modules[n].ever = scan.modules[n].reachable
        /\ scan.modules[n].reachable \in BOOLEAN
        /\ ~scan.modules[n].reachable => scan.modules[n].dtcs = {}
  <2>1. \A n \in DOMAIN scan.modules : scan.modules[n] \in NodeRow
    BY ScanType, PartialFunctionIs DEF ModuleMaps
  <2>2. QED
    BY <2>1, ScanType DEF NodeRow
<1> DEFINE old == IF prev = Missing THEN NoModules ELSE prev.modules
<1>2. Merged(prev, scan).modules = MergeModules(old, scan.modules)
  BY DEF Merged
<1>3. DOMAIN NoModules = {}
  BY DEF NoModules
<1>4. PICK new : new = MergeModules(old, scan.modules)
  OBVIOUS
<1>5. /\ DOMAIN new = DOMAIN old \cup DOMAIN scan.modules
      /\ \A n \in DOMAIN new :
           /\ new[n].reachable <=> n \in ReachableIn(scan)
           /\ new[n].ever <=> \/ n \in DOMAIN old /\ Answered(old[n])
                              \/ n \in ReachableIn(scan)
           /\ new[n].dtcs # {} => n \in ReachableIn(scan)
  <2> HIDE DEF old
  <2> DEFINE now(n) == n \in DOMAIN scan.modules /\ scan.modules[n].reachable
             was(n) == n \in DOMAIN old /\ Answered(old[n])
             knows(n) == was(n) \/ (n \in DOMAIN scan.modules /\ Answered(scan.modules[n]))
             codes(n) == IF n \in DOMAIN scan.modules THEN scan.modules[n].dtcs ELSE {}
  <2>1. new = [n \in DOMAIN old \cup DOMAIN scan.modules |->
                 [reachable |-> now(n), ever |-> knows(n), dtcs |-> codes(n)]]
    BY <1>4 DEF MergeModules
  <2>2. \A n : /\ now(n) <=> n \in ReachableIn(scan)
               /\ codes(n) # {} => n \in ReachableIn(scan)
    BY <1>1 DEF ReachableIn
  <2>3. \A n : knows(n) <=> was(n) \/ n \in ReachableIn(scan)
    BY <1>1 DEF ReachableIn, Answered
  <2> HIDE DEF now, was, knows, codes
  <2>4. /\ DOMAIN new = DOMAIN old \cup DOMAIN scan.modules
        /\ \A n \in DOMAIN new :
             new[n] = [reachable |-> now(n), ever |-> knows(n), dtcs |-> codes(n)]
    BY <2>1
  <2>5. ASSUME NEW n \in DOMAIN new
        PROVE  /\ new[n].reachable <=> now(n)
               /\ new[n].ever <=> knows(n)
               /\ new[n].dtcs = codes(n)
    <3>1. PICK a, b, c : a = now(n) /\ b = knows(n) /\ c = codes(n)
      OBVIOUS
    <3>2. new[n] = [reachable |-> a, ever |-> b, dtcs |-> c]
      BY <2>4, <3>1
    <3>3. new[n].reachable = a /\ new[n].ever = b /\ new[n].dtcs = c
      BY <3>2
    <3>4. QED
      BY <3>1, <3>3
  <2>6. QED
    BY <2>2, <2>3, <2>4, <2>5 DEF was
<1>6. \A n \in DOMAIN new : new[n].ever <=> Answered(new[n])
  BY <1>5 DEF Answered
<1>7. \A n : n \in DOMAIN old <=> prev # Missing /\ n \in DOMAIN prev.modules
  BY <1>3
<1>8. ReachableIn(scan) \subseteq DOMAIN scan.modules
  BY DEF ReachableIn
<1>9. QED
  BY <1>2, <1>4, <1>5, <1>6, <1>7, <1>8

LEMMA MergedText ==
  ASSUME NEW prev \in Capture \cup {Missing}, NEW scan \in Scans
  PROVE  /\ TextsIn(scan) \subseteq DOMAIN Merged(prev, scan).identity
         /\ prev # Missing => DOMAIN prev.identity \subseteq DOMAIN Merged(prev, scan).identity
         /\ \A d \in DOMAIN Merged(prev, scan).identity :
              Merged(prev, scan).identity[d] # NoText <=>
                \/ d \in TextsIn(scan)
                \/ prev # Missing /\ d \in DOMAIN prev.identity /\ prev.identity[d] # NoText
<1>1. CASE prev = Missing
  BY <1>1 DEF Merged, TextsIn
<1>2. CASE prev # Missing
  <2>1. Merged(prev, scan).identity = MergeIdentity(prev.identity, scan.identity)
    BY <1>2 DEF Merged
  <2>2. QED
    BY <1>2, <2>1 DEF MergeIdentity, TextsIn
<1>3. QED
  BY <1>1, <1>2

LEMMA MergedCount ==
  ASSUME NEW prev \in Capture \cup {Missing}, NEW scan \in Scans
  PROVE  Merged(prev, scan).scan_count = prev.scan_count + 1
BY DEF Merged, Missing

-----------------------------------------------------------------------------
(* A write keeps the invariant: what it claims was seen, by the scan or    *)
(* before; and if it wrote over the row it had read, nothing is lost.      *)
LEMMA WriteStep ==
  ASSUME IInv, NEW h \in Handlers, request[h] \in Request, Write(h), TypeOK',
         row = Missing \/ request[h].step = "read"
  PROVE  IInv'
<1> DEFINE scan == request[h].scan
           prev == request[h].prev
<1>1. scan \in Scans /\ prev \in Capture \cup {Missing} /\ request[h].version \in Nat
  BY DEF Request
<1>2. /\ row' = Merged(prev, scan)
      /\ request' = [request EXCEPT ![h] = Idle]
      /\ writes' = writes + 1
      /\ answered' = answered \cup ReachableIn(scan)
      /\ read' = read \cup TextsIn(scan)
      /\ last' = ReachableIn(scan)
      /\ stale' = (stale \/ request[h].version # writes)
  BY DEF Write
<1>3. writes \in Nat /\ row \in Capture \cup {Missing}
  BY DEF IInv, TypeOK
<1>4. row' \in Capture /\ row' # Missing
  BY <1>1, <1>2, MergedType, CaptureIsNotMissing
<1>5. /\ Founded(prev)
      /\ request[h].version = writes => prev = row
  BY DEF IInv, RequestInv, Request, Idle
<1>6. PICK new \in Capture : new = Merged(prev, scan)
  BY <1>1, MergedType
<1> HIDE DEF scan, prev
<1>7. /\ \A n \in DOMAIN new.modules :
           /\ Answered(new.modules[n]) <=>
                \/ n \in ReachableIn(scan)
                \/ prev # Missing /\ n \in DOMAIN prev.modules /\ Answered(prev.modules[n])
           /\ new.modules[n].ever <=> Answered(new.modules[n])
           /\ new.modules[n].reachable <=> n \in ReachableIn(scan)
           /\ new.modules[n].dtcs # {} => n \in ReachableIn(scan)
      /\ ReachableIn(scan) \subseteq DOMAIN new.modules
      /\ prev # Missing => DOMAIN prev.modules \subseteq DOMAIN new.modules
  BY <1>1, <1>6, MergedEver
<1>8. /\ TextsIn(scan) \subseteq DOMAIN new.identity
      /\ prev # Missing => DOMAIN prev.identity \subseteq DOMAIN new.identity
      /\ \A d \in DOMAIN new.identity : new.identity[d] # NoText <=>
           \/ d \in TextsIn(scan)
           \/ prev # Missing /\ d \in DOMAIN prev.identity /\ prev.identity[d] # NoText
  BY <1>1, <1>6, MergedText
<1>9. new.scan_count = prev.scan_count + 1
  BY <1>1, <1>6, MergedCount
<1>10. row' = new /\ new # Missing
  BY <1>2, <1>4, <1>6
<1>11. Founded(row)'
  BY <1>2, <1>5, <1>7, <1>8, <1>10 DEF Founded
<1>12. RowInv'
  BY <1>2, <1>3, <1>4, <1>11 DEF RowInv
<1>13. RequestInv'
  <2> SUFFICES ASSUME NEW g \in Handlers, request'[g] # Idle
               PROVE  /\ request'[g].version <= writes'
                      /\ request'[g].version = writes' => request'[g].prev = row'
                      /\ Founded(request[g].prev)'
    BY DEF RequestInv
  <2>1. request'[g] = request[g] /\ request[g] # Idle
    BY <1>2 DEF IInv, TypeOK
  <2>2. /\ request[g].version <= writes /\ Founded(request[g].prev)
        /\ request[g].version \in Nat
    BY <2>1, WorkingIsRequest DEF IInv, RequestInv, Request
  <2>3. Founded(request[g].prev)'
    BY <1>2, <2>1, <2>2 DEF Founded
  <2>4. QED
    BY <1>2, <1>3, <2>1, <2>2, <2>3
<1>14. NothingInvented'
  <2>1. \A n \in DOMAIN new.modules : n \in answered' <=> n \in answered \/ n \in ReachableIn(scan)
    BY <1>2
  <2>2. \A n \in Nodes : (n \in DOMAIN new.modules /\ new.modules[n].ever) => n \in answered'
    BY <1>5, <1>7, <2>1 DEF Founded
  <2>3. \A d \in DOMAIN new.identity : new.identity[d] # NoText => d \in read'
    BY <1>2, <1>5, <1>8 DEF Founded
  <2>4. {n \in DOMAIN new.modules : new.modules[n].reachable} = last'
    BY <1>2, <1>7
  <2>5. \A n \in DOMAIN new.modules : new.modules[n].dtcs # {} => n \in last'
    BY <1>2, <1>7
  <2>6. QED
    BY <1>10, <2>2, <2>3, <2>4, <2>5 DEF NothingInvented, Ever
<1>15. NothingForgotten'
  <2> SUFFICES ASSUME ~stale'
               PROVE  /\ \A n \in answered' : Ever(n)'
                      /\ \A d \in read' : d \in DOMAIN row'.identity /\ row'.identity[d] # NoText
                      /\ row'.scan_count = writes'
    BY DEF NothingForgotten
  <2>1. ~stale /\ prev = row
    BY <1>2, <1>5
  <2>2. /\ \A n \in answered : row # Missing /\ n \in DOMAIN row.modules /\ row.modules[n].ever
        /\ \A d \in read : d \in DOMAIN row.identity /\ row.identity[d] # NoText
        /\ row.scan_count = writes
    BY <2>1 DEF IInv, NothingForgotten, Ever
  <2>3. \A d \in read : row # Missing
    BY DEF IInv, RowInv
  <2>4. \A n \in answered' : n \in DOMAIN new.modules /\ new.modules[n].ever
    BY <1>2, <1>7, <2>1, <2>2 DEF Answered
  <2>5. \A d \in read' : d \in DOMAIN new.identity /\ new.identity[d] # NoText
    BY <1>2, <1>8, <2>1, <2>2, <2>3
  <2>6. QED
    BY <1>2, <1>9, <1>10, <2>1, <2>2, <2>4, <2>5 DEF Ever
<1>16. QED
  BY <1>12, <1>13, <1>14, <1>15 DEF IInv

(* Reading the row, and the steps that leave it alone.                     *)
LEMMA ReadStep ==
  ASSUME IInv, NEW h \in Handlers, NEW scan \in Scans, ReadCapture(h, scan), TypeOK'
  PROVE  IInv'
<1>1. UNCHANGED <<row, history>>
  BY DEF ReadCapture
<1>2. request' = [request EXCEPT ![h] =
        [step |-> "read", scan |-> scan, prev |-> row, version |-> writes]]
  BY DEF ReadCapture
<1>3. RequestInv'
  <2> SUFFICES ASSUME NEW g \in Handlers, request'[g] # Idle
               PROVE  /\ request'[g].version <= writes
                      /\ request'[g].version = writes => request'[g].prev = row
                      /\ Founded(request'[g].prev)
    BY <1>1 DEF RequestInv, Founded, history
  <2>1. CASE g = h
    BY <1>2, <2>1 DEF IInv, TypeOK, RowInv
  <2>2. CASE g # h
    BY <1>2, <2>2 DEF IInv, TypeOK, RequestInv
  <2>3. QED
    BY <2>1, <2>2
<1>4. RowInv' /\ NothingInvented' /\ NothingForgotten'
  BY <1>1 DEF IInv, RowInv, Founded, NothingInvented, NothingForgotten, Ever, history
<1>5. QED
  BY <1>3, <1>4 DEF IInv

LEMMA QuietStep ==
  ASSUME IInv, NEW h \in Handlers, UNCHANGED <<row, puts, history>>, TypeOK',
         request[h] \in Request, NEW new \in Request \cup {Idle},
         request' = [request EXCEPT ![h] = new],
         new # Idle => new.prev = request[h].prev /\ new.version = request[h].version
  PROVE  IInv'
<1>1. request[h] # Idle
  BY DEF Request, Idle
<1>2. RequestInv'
  <2> SUFFICES ASSUME NEW g \in Handlers, request'[g] # Idle
               PROVE  /\ request'[g].version <= writes
                      /\ request'[g].version = writes => request'[g].prev = row
                      /\ Founded(request'[g].prev)
    BY DEF RequestInv, Founded, history
  <2>1. CASE g = h
    BY <1>1, <2>1 DEF IInv, TypeOK, RequestInv
  <2>2. CASE g # h
    BY <2>2 DEF IInv, TypeOK, RequestInv
  <2>3. QED
    BY <2>1, <2>2
<1>3. RowInv' /\ NothingInvented' /\ NothingForgotten'
  BY DEF IInv, RowInv, Founded, NothingInvented, NothingForgotten, Ever, history
<1>4. QED
  BY <1>2, <1>3 DEF IInv

(* IInv is inductive: it ties what a request has read to the row as it is  *)
(* now by counting the writes in between.                                  *)
THEOREM IndInvariant == Spec => []IInv
<1>1. Init => IInv
  <2> SUFFICES ASSUME Init PROVE IInv
    OBVIOUS
  <2>1. TypeOK
    BY InitTyped
  <2>2. RequestInv /\ RowInv
    BY DEF Init, RequestInv, RowInv, Founded
  <2>3. NothingInvented /\ NothingForgotten
    BY DEF Init, NothingInvented, NothingForgotten, Missing
  <2>4. QED
    BY <2>1, <2>2, <2>3 DEF IInv
<1>2. IInv /\ [Next]_vars => IInv'
  <2> SUFFICES ASSUME IInv, [Next]_vars PROVE IInv'
    OBVIOUS
  <2>1. TypeOK /\ TypeOK'
    BY TypeStep DEF IInv
  <2>2. CASE UNCHANGED vars
    BY <2>1, <2>2 DEF vars, history, IInv, RequestInv, RowInv, Founded,
                      NothingInvented, NothingForgotten, Ever
  <2>3. ASSUME NEW h \in Handlers, NEW scan \in Scans, ReadCapture(h, scan)
        PROVE  IInv'
    BY <2>1, <2>3, ReadStep
  <2>4. ASSUME NEW h \in Handlers,
               UpdateCapture(h) \/ UpdateMisses(h) \/ InsertCapture(h) \/ Fail(h)
        PROVE  IInv'
    BY <2>1, <2>4, WriteOrQuiet, WriteStep, QuietStep
  <2>5. QED
    BY <2>2, <2>3, <2>4 DEF Next
<1>3. QED
  BY <1>1, <1>2, PTL DEF Spec

(* The map is never invented: what it says answered, answered; what it     *)
(* says is read, was read (migration 013: "not an invented DID map").      *)
THEOREM MapIsObserved == Spec => []NothingInvented
<1>1. IInv => NothingInvented
  BY DEF IInv
<1>2. QED
  BY <1>1, IndInvariant, PTL

(* Nothing is forgotten as long as every request wrote over the row it had *)
(* read (ledger.UpsertBusCapture).                                         *)
THEOREM MapIsComplete == Spec => []NothingForgotten
<1>1. IInv => NothingForgotten
  BY DEF IInv
<1>2. QED
  BY <1>1, IndInvariant, PTL
-----------------------------------------------------------------------------
(* BayCaptures: the queue of a bay in front of the map, for any scans,     *)
(* flushes, losses and reloads.                                            *)

BayQueue == INSTANCE OfflineQueueProofs WITH Keys <- {Path}

(* What the proofs about the queue assume of its constants.                *)
LEMMA QueueAssumptions == Post \notin {Path} /\ {MaxSaves, MaxLosses, MaxEvents} \subseteq Nat
BY PathAssumption, SavesAssumption

bayVars == <<queue, flush, direct, online, up, posted, stored, budget,
             <<queued, exposed, doubled, latest, raced>>>>

LEMMA BayVarsAre ==
  /\ Bay!vars = bayVars /\ BayQueue!vars = bayVars
  /\ UNCHANGED bayState => UNCHANGED bayVars
BY DEF bayVars, bayState, Bay!vars, Bay!history, BayQueue!vars, BayQueue!history

(* The two instances of the queue are the same.                            *)
LEMMA SameInit == Bay!Init => BayQueue!Init
BY DEF Bay!Init, BayQueue!Init, Bay!NoFlush, BayQueue!NoFlush, Bay!Saves, BayQueue!Saves

LEMMA SameDeliver == \A job : Bay!Deliver(job) <=> BayQueue!Deliver(job)
BY DEF Bay!Deliver, BayQueue!Deliver

LEMMA SameLists ==
  /\ Bay!Running = BayQueue!Running
  /\ Bay!ToSet(queue) = BayQueue!ToSet(queue)
  /\ \A s : Bay!Numbers(s) = BayQueue!Numbers(s)
  /\ \A s, gone : Bay!Dropping(s, gone) = BayQueue!Dropping(s, gone)
  /\ \A what : Bay!Spend(what) <=> BayQueue!Spend(what)
<1>1. Bay!ToSet(queue) = BayQueue!ToSet(queue)
  BY DEF Bay!ToSet, BayQueue!ToSet
<1>2. \A s, gone : Bay!Dropping(s, gone) = BayQueue!Dropping(s, gone)
  BY DEF Bay!Dropping, BayQueue!Dropping, Bay!Cardinality, BayQueue!Cardinality
<1>3. QED
  BY <1>1, <1>2 DEF Bay!Running, BayQueue!Running, Bay!Numbers, BayQueue!Numbers,
     Bay!Spend, BayQueue!Spend

LEMMA SameEnqueue == \A job : Bay!Enqueue(job) <=> BayQueue!Enqueue(job)
<1>1. \A job : Bay!Enqueued(job) = BayQueue!Enqueued(job)
  BY SameLists DEF Bay!Enqueued, BayQueue!Enqueued, Bay!Supersedes, BayQueue!Supersedes
<1>2. \A job : Bay!Replaced(job) = BayQueue!Replaced(job)
  BY SameLists DEF Bay!Replaced, BayQueue!Replaced
<1>3. QED
  BY <1>1, <1>2, SameLists DEF Bay!Enqueue, BayQueue!Enqueue

LEMMA SameSaves ==
  /\ \A key, refused : Bay!SaveOffline(key, refused) <=> BayQueue!SaveOffline(key, refused)
  /\ \A key, refused : Bay!SaveOnline(key, refused) <=> BayQueue!SaveOnline(key, refused)
<1>1. \A key : Bay!Saved(key) <=> BayQueue!Saved(key)
  BY SameLists DEF Bay!Saved, BayQueue!Saved, Bay!Pending, BayQueue!Pending
<1>2. \A key, refused : Bay!NewJob(key, refused) = BayQueue!NewJob(key, refused)
  BY DEF Bay!NewJob, BayQueue!NewJob
<1>3. QED
  BY <1>1, <1>2, SameEnqueue DEF Bay!SaveOffline, BayQueue!SaveOffline, Bay!SaveOnline,
     BayQueue!SaveOnline

LEMMA SameDirect ==
  \A job : /\ Bay!DirectOk(job) <=> BayQueue!DirectOk(job)
           /\ Bay!DirectFails(job) <=> BayQueue!DirectFails(job)
BY SameDeliver, SameEnqueue, SameLists DEF Bay!DirectOk, BayQueue!DirectOk, Bay!DirectFails,
   BayQueue!DirectFails, Bay!history, BayQueue!history

LEMMA SameFlush ==
  \A f : Bay!FlushStep(f) <=> BayQueue!FlushStep(f)
<1>1. \A f, ok : Bay!Advance(f, ok) <=> BayQueue!Advance(f, ok)
  BY DEF Bay!Advance, BayQueue!Advance, Bay!Rest, BayQueue!Rest, Bay!Remain, BayQueue!Remain,
     Bay!NoFlush, BayQueue!NoFlush
<1>2. \A f : Bay!Tick(f) <=> BayQueue!Tick(f)
  BY SameLists DEF Bay!Tick, BayQueue!Tick
<1>3. \A f : Bay!SendOk(f) <=> BayQueue!SendOk(f)
  BY <1>1, SameDeliver DEF Bay!SendOk, BayQueue!SendOk
<1>4. \A f : Bay!SendFails(f) <=> BayQueue!SendFails(f)
  BY <1>1, SameDeliver, SameLists DEF Bay!SendFails, BayQueue!SendFails
<1>5. QED
  BY <1>2, <1>3, <1>4 DEF Bay!FlushStep, BayQueue!FlushStep

LEMMA SameNext == Bay!Next => BayQueue!Next
<1>1. Bay!LedgerFlips => BayQueue!LedgerFlips
  BY SameLists DEF Bay!LedgerFlips, BayQueue!LedgerFlips, Bay!history, BayQueue!history
<1>2. Bay!Reload => BayQueue!Reload
  BY SameLists DEF Bay!Reload, BayQueue!Reload, Bay!NoFlush, BayQueue!NoFlush
<1>3. QED
  BY <1>1, <1>2, SameSaves, SameDirect, SameFlush DEF Bay!Next, BayQueue!Next

(* Whatever is joined with them, the bay's steps are those of its queue.   *)
LEMMA SenderSteps ==
  ASSUME NEW s, SenderOk(s) \/ SenderFails(s)
  PROVE  Bay!Next
<1>1. CASE s \in Flushes
  BY <1>1 DEF SenderOk, SenderFails, Bay!Next, Bay!FlushStep
<1>2. CASE s \notin Flushes
  BY <1>2 DEF SenderOk, SenderFails, InHand, Bay!Next
<1>3. QED
  BY <1>1, <1>2

LEMMA QueueStep == [CapturesNext]_allVars => [Bay!Next]_bayVars
<1> SUFFICES ASSUME [CapturesNext]_allVars PROVE [Bay!Next]_bayVars
  OBVIOUS
<1>1. CASE SaveScan
  BY <1>1 DEF SaveScan, Bay!Next
<1>2. CASE (\E s \in Senders : \E h \in Handlers : Arrives(s, h)) \/ UNCHANGED allVars
  BY <1>2, BayVarsAre DEF Arrives, allVars
<1>3. CASE \E s \in Senders : GivesUp(s)
  BY <1>3, SenderSteps DEF GivesUp
<1>4. CASE \E h \in Handlers :
             (\E n \in onTheWay : ArrivesLate(n, h)) \/ OrphanWrites(h) \/ OrphanFails(h)
             \/ Misses(h)
  BY <1>4, BayVarsAre DEF ArrivesLate, OrphanWrites, OrphanFails, Misses
<1>5. CASE \E h \in Handlers : AnswerArrives(h) \/ AnswerLost(h) \/ RequestFails(h)
  BY <1>5, SenderSteps DEF AnswerArrives, AnswerLost, RequestFails
<1>6. CASE \E f \in Flushes : TimerTicks(f)
  BY <1>6 DEF TimerTicks, Bay!Next, Bay!FlushStep
<1>7. CASE LedgerFlips \/ ReloadBay
  BY <1>7 DEF LedgerFlips, ReloadBay, Bay!Next
<1>8. QED
  BY <1>1, <1>2, <1>3, <1>4, <1>5, <1>6, <1>7 DEF CapturesNext

(* The composition implements the queue alone: whatever becomes of its     *)
(* fetches at the ledger is an answer, a loss or an outage to it.          *)
THEOREM QueueAsAlone == CapturesSpec => BayQueue!Spec
<1>1. CapturesInit => BayQueue!Init
  BY SameInit DEF CapturesInit
<1>2. [CapturesNext]_allVars => [BayQueue!Next]_(BayQueue!vars)
  BY QueueStep, SameNext DEF bayVars, BayQueue!vars, BayQueue!history
<1>3. QED
  BY <1>1, <1>2, PTL DEF CapturesSpec, BayQueue!Spec

(* So what is proved of the queue holds in front of the map.               *)
LEMMA QueueInvariant == CapturesSpec => []BayQueue!IInv
<1>1. BayQueue!Spec => []BayQueue!IInv
  BY QueueAssumptions, BayQueue!IndInvariant
<1>2. QED
  BY <1>1, QueueAsAlone, PTL
-----------------------------------------------------------------------------
(* A request carries its save's scan, for the flush or the PUT that awaits *)
(* it, and no fetch is two requests.                                       *)
Carried(h) ==
  request[h] # Idle =>
    /\ carries[h] \in Bay!Saves /\ request[h].scan = scanOf[carries[h]]
    /\ awaits[h] \in Senders \cup {Nobody}
    /\ awaits[h] \in Bay!Saves => carries[h] = awaits[h]
    /\ awaits[h] \in Flushes =>
         /\ awaits[h] \in Bay!Running
         /\ carries[h] = Head(flush[awaits[h]].todo).n

OneRequest ==
  \A g, h \in Handlers :
    request[g] # Idle /\ request[h] # Idle /\ awaits[g] = awaits[h] /\ awaits[g] # Nobody
      => g = h

Fetched ==
  /\ request \in [Handlers -> Request \cup {Idle}]
  /\ carries \in [Handlers -> Nat] /\ DOMAIN awaits = Handlers
  /\ scanOf \in [Bay!Saves -> Scans] /\ onTheWay \subseteq Bay!Saves
  /\ \A h \in Handlers : Carried(h)
  /\ OneRequest

(* A save is in the queue, in a PUT or merged, or it is excused.           *)
NoScanLost ==
  \A n \in (1 .. budget.saves) \ (replaced \cup exposed \cup cut) :
    \/ n \in queued \/ \E job \in direct : job.n = n
    \/ ReachableIn(scanOf[n]) \subseteq answered

(* What the bay's model calls stored is the scan that was written last.    *)
LastIsStored ==
  ~orphaned /\ stored[Path] # 0 =>
    writes # 0 /\ last = ReachableIn(scanOf[stored[Path]])

NewestIsLatest == latest[Path] = budget.saves
-----------------------------------------------------------------------------
(* Everything in the queue is a capture of the one vehicle.                *)
PathJob == [n : Bay!Saves, key : {Path}, refused : BOOLEAN]
PathFlush == [running : {TRUE}, todo : Seq(PathJob) \ {<<>>}, remain : Seq(PathJob)]

PathLists ==
  /\ queue \in Seq(PathJob) /\ direct \subseteq PathJob
  /\ flush \in [Flushes -> PathFlush \cup {Bay!NoFlush}]

LEMMA PathJobIs ==
  ASSUME NEW job \in PathJob
  PROVE  job.n \in Bay!Saves /\ job.n \in Nat /\ job.n # 0 /\ job.key = Path
BY SavesAssumption DEF PathJob, Bay!Saves

LEMMA RunningIs ==
  ASSUME PathLists, NEW f \in Flushes
  PROVE  /\ f \in Bay!Running <=> flush[f].running
         /\ flush[f].running =>
              /\ flush[f] \in PathFlush /\ flush[f].todo \in Seq(PathJob)
              /\ flush[f].todo # <<>> /\ flush[f].remain \in Seq(PathJob)
              /\ Head(flush[f].todo) \in PathJob /\ Tail(flush[f].todo) \in Seq(PathJob)
<1>1. f \in Bay!Running <=> flush[f].running
  BY DEF Bay!Running
<1>2. ASSUME flush[f].running PROVE flush[f] \in PathFlush
  BY <1>2 DEF PathLists, Bay!NoFlush
<1>3. ASSUME flush[f] \in PathFlush
      PROVE  flush[f].todo \in Seq(PathJob) /\ flush[f].todo # <<>>
             /\ flush[f].remain \in Seq(PathJob)
  BY <1>3 DEF PathFlush
<1>4. ASSUME NEW s \in Seq(PathJob), s # <<>>
      PROVE  Head(s) \in PathJob /\ Tail(s) \in Seq(PathJob)
  BY <1>4
<1>5. QED
  BY <1>1, <1>2, <1>3, <1>4

LEMMA EnqueuePaths ==
  ASSUME queue \in Seq(PathJob), NEW job \in PathJob, Bay!Enqueue(job)
  PROVE  queue' \in Seq(PathJob)
<1> DEFINE gone == {i \in DOMAIN queue : Bay!Supersedes(job, queue[i])}
<1>1. queue' = Append(Bay!Dropping(queue, gone), job)
  BY DEF Bay!Enqueue, Bay!Enqueued
<1> HIDE DEF gone
<1>2. BayQueue!Dropping(queue, gone) \in Seq(PathJob)
  BY QueueAssumptions, BayQueue!DroppingKeeps
<1>3. Bay!Dropping(queue, gone) \in Seq(PathJob)
  BY <1>2, SameLists
<1>4. QED
  BY <1>1, <1>3

LEMMA AdvancePaths ==
  ASSUME PathLists, NEW f \in Flushes, flush[f].running, NEW ok \in BOOLEAN,
         Bay!Advance(f, ok)
  PROVE  /\ queue' \in Seq(PathJob)
         /\ flush' \in [Flushes -> PathFlush \cup {Bay!NoFlush}]
         /\ \A g \in Flushes \ {f} : flush'[g] = flush[g]
<1> DEFINE r == Bay!Remain(f, ok)
           t == Bay!Rest(f)
           moved == [flush[f] EXCEPT !.todo = t, !.remain = r]
<1>1. /\ flush[f] \in PathFlush /\ flush[f].remain \in Seq(PathJob)
      /\ Head(flush[f].todo) \in PathJob /\ t \in Seq(PathJob)
  BY RunningIs DEF Bay!Rest
<1>2. r \in Seq(PathJob)
  BY <1>1 DEF Bay!Remain
<1>3. flush \in [Flushes -> PathFlush \cup {Bay!NoFlush}] /\ queue \in Seq(PathJob)
  BY DEF PathLists
<1>4. CASE t = <<>>
  <2>1. queue' = r /\ flush' = [flush EXCEPT ![f] = Bay!NoFlush]
    BY <1>4 DEF Bay!Advance
  <2> HIDE DEF r, t
  <2>2. QED
    BY <2>1, <1>2, <1>3
<1>5. CASE t # <<>>
  <2>1. flush' = [flush EXCEPT ![f].todo = t, ![f].remain = r] /\ queue' = queue
    BY <1>5 DEF Bay!Advance
  <2> HIDE DEF r, t
  <2>2. moved \in PathFlush
    BY <1>1, <1>2, <1>5 DEF PathFlush
  <2>3. flush' = [flush EXCEPT ![f] = moved]
    BY <2>1, <1>3
  <2> HIDE DEF moved
  <2>4. QED
    BY <2>1, <2>2, <2>3, <1>3
<1>6. QED
  BY <1>4, <1>5

(* Who hears of a request has it in hand; the other flushes stay.          *)
LEMMA SenderIs ==
  ASSUME PathLists, NEW s, SenderOk(s) \/ SenderFails(s)
  PROVE  /\ PathLists'
         /\ \A g \in Flushes : g # s => flush'[g] = flush[g]
<1>1. CASE s \in Flushes
  <2>1. PICK ok \in BOOLEAN : flush[s].running /\ Bay!Advance(s, ok) /\ direct' = direct
    BY <1>1 DEF SenderOk, SenderFails, Bay!SendOk, Bay!SendFails
  <2>2. QED
    BY <1>1, <2>1, AdvancePaths DEF PathLists
<1>2. CASE s \notin Flushes
  <2>1. PICK job \in direct : Bay!DirectOk(job) \/ Bay!DirectFails(job)
    BY <1>2 DEF SenderOk, SenderFails, InHand
  <2>2. job \in PathJob /\ flush' = flush /\ direct' \subseteq direct
    BY <2>1 DEF PathLists, Bay!DirectOk, Bay!DirectFails
  <2>3. queue' \in Seq(PathJob)
    BY <2>1, <2>2, EnqueuePaths DEF PathLists, Bay!DirectOk, Bay!DirectFails
  <2>4. QED
    BY <2>2, <2>3 DEF PathLists
<1>3. QED
  BY <1>1, <1>2

LEMMA TickPaths ==
  ASSUME PathLists, NEW f \in Flushes, Bay!Tick(f)
  PROVE  /\ PathLists' /\ ~flush[f].running
         /\ \A g \in Flushes : g # f => flush'[g] = flush[g]
<1> DEFINE started == [running |-> TRUE, todo |-> queue, remain |-> <<>>]
<1>1. UNCHANGED <<queue, direct>> /\ ~flush[f].running
      /\ (flush' = flush \/ (queue # <<>> /\ flush' = [flush EXCEPT ![f] = started]))
  BY DEF Bay!Tick
<1>2. queue # <<>> => started \in PathFlush
  BY DEF PathLists, PathFlush
<1> HIDE DEF started
<1>3. QED
  BY <1>1, <1>2 DEF PathLists

LEMMA InHandIs ==
  ASSUME PathLists, NEW s, NEW job \in InHand(s)
  PROVE  /\ job \in PathJob /\ job.n \in Bay!Saves
         /\ s \in Flushes => s \in Bay!Running /\ job = Head(flush[s].todo)
         /\ s \notin Flushes => job \in direct /\ job.n = s
<1>1. CASE s \in Flushes
  <2>1. s \in Bay!Running /\ job = Head(flush[s].todo)
    BY <1>1 DEF InHand
  <2>2. QED
    BY <1>1, <2>1, RunningIs, PathJobIs
<1>2. CASE s \notin Flushes
  <2>1. job \in direct /\ job.n = s
    BY <1>2 DEF InHand
  <2>2. QED
    BY <1>2, <2>1, PathJobIs DEF PathLists
<1>3. QED
  BY <1>1, <1>2

(* The ledger's side of a step is one of the ledger's own.                 *)
LEMMA LedgerStep ==
  ASSUME Fetched, PathLists, [CapturesNext]_allVars
  PROVE  [Next]_vars
<1>1. CASE SaveScan \/ (\E f \in Flushes : TimerTicks(f)) \/ LedgerFlips \/ ReloadBay
           \/ (\E s \in Senders : GivesUp(s)) \/ UNCHANGED allVars
  BY <1>1 DEF SaveScan, TimerTicks, LedgerFlips, ReloadBay, GivesUp, allVars
<1>2. ASSUME NEW s \in Senders, NEW h \in Handlers, Arrives(s, h) PROVE Next
  <2>1. PICK job \in InHand(s) : ReadCapture(h, scanOf[job.n])
    BY <1>2 DEF Arrives
  <2>2. scanOf[job.n] \in Scans
    BY InHandIs DEF Fetched
  <2>3. QED
    BY <2>1, <2>2 DEF Next
<1>3. ASSUME NEW h \in Handlers, NEW n \in onTheWay, ArrivesLate(n, h) PROVE Next
  <2>1. scanOf[n] \in Scans
    BY DEF Fetched
  <2>2. QED
    BY <1>3, <2>1 DEF ArrivesLate, Next
<1>4. ASSUME NEW h \in Handlers,
             AnswerArrives(h) \/ AnswerLost(h) \/ RequestFails(h) \/ OrphanWrites(h)
             \/ OrphanFails(h) \/ Misses(h)
      PROVE  Next
  BY <1>4 DEF AnswerArrives, AnswerLost, RequestFails, OrphanWrites, OrphanFails, Misses,
     Writes, Next
<1>5. QED
  BY <1>1, <1>2, <1>3, <1>4 DEF CapturesNext

(* All that may happen to requests but their arrival.                      *)
LEMMA FetchedFrom ==
  ASSUME Fetched, PathLists, PathLists', TypeOK', UNCHANGED <<scanOf, carries>>,
         onTheWay' \subseteq Bay!Saves, DOMAIN awaits' = Handlers,
         \A h \in Handlers :
           /\ awaits'[h] \in {awaits[h], Nobody}
           /\ request'[h] # Idle =>
                /\ request[h] # Idle /\ request'[h].scan = request[h].scan
                /\ awaits'[h] \in Flushes => flush'[awaits'[h]] = flush[awaits'[h]]
  PROVE  Fetched'
<1>1. ASSUME NEW h \in Handlers, request'[h] # Idle PROVE Carried(h)'
  <2>1. /\ request[h] # Idle /\ request'[h].scan = request[h].scan /\ Carried(h)
        /\ carries'[h] = carries[h]
        /\ awaits'[h] \in {awaits[h], Nobody}
        /\ awaits'[h] \in Flushes => flush'[awaits'[h]] = flush[awaits'[h]]
    BY <1>1 DEF Fetched
  <2>2. CASE awaits'[h] = Nobody
    BY <2>1, <2>2, SendersAssumption DEF Carried, Senders
  <2>3. CASE awaits'[h] = awaits[h]
    BY <2>1, <2>3 DEF Carried, Bay!Running
  <2>4. QED
    BY <2>1, <2>2, <2>3
<1>2. OneRequest'
  BY DEF Fetched, OneRequest
<1>3. \A h \in Handlers : Carried(h)'
  BY <1>1 DEF Carried
<1>4. QED
  BY <1>2, <1>3 DEF Fetched, TypeOK

(* And the arrival of one.                                                 *)
LEMMA FetchedMore ==
  ASSUME Fetched, PathLists, TypeOK', NEW h \in Handlers, NEW n \in Bay!Saves,
         NEW s \in Senders \cup {Nobody}, ReadCapture(h, scanOf[n]),
         carries' = [carries EXCEPT ![h] = n], awaits' = [awaits EXCEPT ![h] = s],
         UNCHANGED <<scanOf, flush>>, onTheWay' \subseteq onTheWay,
         s # Nobody => ~Fetching(s),
         s \in Bay!Saves => n = s,
         s \in Flushes => s \in Bay!Running /\ n = Head(flush[s].todo).n
  PROVE  Fetched'
<1>1. /\ request[h] = Idle /\ request'[h].scan = scanOf[n]
      /\ carries'[h] = n /\ awaits'[h] = s
      /\ \A g \in Handlers \ {h} : /\ request'[g] = request[g] /\ carries'[g] = carries[g]
                                   /\ awaits'[g] = awaits[g]
  BY DEF Fetched, ReadCapture
<1>2. Carried(h)'
  BY <1>1 DEF Carried, Bay!Running
<1>3. ASSUME NEW g \in Handlers \ {h} PROVE Carried(g)'
  BY <1>1 DEF Carried, Bay!Running, Fetched
<1>4. OneRequest'
  <2>1. \A g \in Handlers \ {h} : request[g] # Idle /\ s # Nobody => awaits[g] # s
    BY DEF Fetching
  <2>2. QED
    BY <1>1, <2>1 DEF Fetched, OneRequest
<1>5. carries' \in [Handlers -> Nat] /\ DOMAIN awaits' = Handlers /\ Bay!Saves \subseteq Nat
  BY SavesAssumption DEF Fetched, Bay!Saves
<1>6. QED
  BY <1>2, <1>3, <1>4, <1>5 DEF Fetched, TypeOK
LEMMA SavePaths ==
  ASSUME PathLists, budget.saves \in Nat,
         Bay!SaveOffline(Path, FALSE) \/ Bay!SaveOnline(Path, FALSE)
  PROVE  PathLists' /\ flush' = flush
<1> DEFINE job == Bay!NewJob(Path, FALSE)
<1>1. job \in PathJob
  BY SavesAssumption DEF Bay!SaveOffline, Bay!SaveOnline, Bay!Saved, Bay!NewJob, Bay!Saves,
     PathJob
<1>2. /\ queue' = queue \/ Bay!Enqueue(job)
      /\ direct' \subseteq direct \cup {job} /\ flush' = flush
  BY DEF Bay!SaveOffline, Bay!SaveOnline
<1> HIDE DEF job
<1>3. queue' \in Seq(PathJob)
  BY <1>1, <1>2, EnqueuePaths DEF PathLists
<1>4. QED
  BY <1>1, <1>2, <1>3 DEF PathLists

(* A request that ends is no longer carried.                               *)
LEMMA RequestEnds ==
  ASSUME TypeOK, Fetched, NEW h \in Handlers, Writes(h) \/ Fail(h)
  PROVE  /\ request[h] # Idle /\ request'[h] = Idle
         /\ \A g \in Handlers \ {h} : request'[g] = request[g]
         /\ \A g \in Handlers \ {h} :
              request[g] # Idle /\ awaits[h] # Nobody => awaits[g] # awaits[h]
<1>1. request' = [request EXCEPT ![h] = Idle] /\ request[h] # Idle
  BY DEF Writes, Fail, UpdateCapture, InsertCapture, Write, Idle
<1>2. QED
  BY <1>1 DEF TypeOK, Fetched, OneRequest

LEMMA FetchedStep ==
  ASSUME TypeOK, Fetched, PathLists, budget.saves \in Nat, [CapturesNext]_allVars
  PROVE  Fetched' /\ PathLists'
<1>1. TypeOK'
  BY LedgerStep, TypeStep
<1>2. DOMAIN awaits = Handlers /\ onTheWay \subseteq Bay!Saves
  BY DEF Fetched
<1>3. CASE SaveScan
  <2>1. PathLists' /\ UNCHANGED <<flush, vars, scanOf, fetches>>
    BY <1>3, SavePaths DEF SaveScan
  <2>2. QED
    BY <2>1, <1>1, <1>2, FetchedFrom DEF vars, fetches
<1>4. ASSUME NEW s \in Senders, NEW h \in Handlers, Arrives(s, h)
      PROVE  Fetched' /\ PathLists'
  <2>1. PICK job \in InHand(s) :
          ReadCapture(h, scanOf[job.n]) /\ carries' = [carries EXCEPT ![h] = job.n]
    BY <1>4 DEF Arrives
  <2>2. /\ ~Fetching(s) /\ awaits' = [awaits EXCEPT ![h] = s]
        /\ UNCHANGED <<queue, direct, flush, scanOf, onTheWay>>
    BY <1>4 DEF Arrives, bayState
  <2>3. PathLists'
    BY <2>2 DEF PathLists
  <2>4. /\ job.n \in Bay!Saves
        /\ s \in Bay!Saves => job.n = s
        /\ s \in Flushes => s \in Bay!Running /\ job.n = Head(flush[s].todo).n
    BY InHandIs, SendersAssumption
  <2>5. QED
    BY <2>1, <2>2, <2>3, <2>4, <1>1, FetchedMore
<1>5. ASSUME NEW h \in Handlers, NEW n \in onTheWay, ArrivesLate(n, h)
      PROVE  Fetched' /\ PathLists'
  <2>1. /\ ReadCapture(h, scanOf[n]) /\ carries' = [carries EXCEPT ![h] = n]
        /\ awaits' = [awaits EXCEPT ![h] = Nobody] /\ onTheWay' \subseteq onTheWay
        /\ UNCHANGED <<queue, direct, flush, scanOf>>
    BY <1>5 DEF ArrivesLate, bayState
  <2>2. PathLists'
    BY <2>1 DEF PathLists
  <2>3. Nobody \notin Bay!Saves /\ Nobody \notin Flushes
    BY SendersAssumption DEF Senders
  <2>4. QED
    BY <2>1, <2>2, <2>3, <1>1, <1>2, FetchedMore
<1>6. ASSUME NEW h \in Handlers, AnswerArrives(h) \/ AnswerLost(h) \/ RequestFails(h)
      PROVE  Fetched' /\ PathLists'
  <2>1. /\ Writes(h) \/ Fail(h)
        /\ awaits[h] # Nobody
        /\ SenderOk(awaits[h]) \/ SenderFails(awaits[h])
        /\ UNCHANGED <<scanOf, carries, awaits, onTheWay>>
    BY <1>6 DEF AnswerArrives, AnswerLost, RequestFails, fetches
  <2>2. PathLists' /\ \A g \in Flushes : g # awaits[h] => flush'[g] = flush[g]
    BY <2>1, SenderIs
  <2>3. QED
    BY <2>1, <2>2, <1>1, <1>2, RequestEnds, FetchedFrom
<1>7. ASSUME NEW h \in Handlers, OrphanWrites(h) \/ OrphanFails(h)
      PROVE  Fetched' /\ PathLists'
  <2>1. /\ Writes(h) \/ Fail(h)
        /\ UNCHANGED <<queue, direct, flush, scanOf, carries, awaits, onTheWay>>
    BY <1>7 DEF OrphanWrites, OrphanFails, fetches, bayState
  <2>2. PathLists'
    BY <2>1 DEF PathLists
  <2>3. QED
    BY <2>1, <2>2, <1>1, <1>2, RequestEnds, FetchedFrom
<1>8. ASSUME NEW h \in Handlers, Misses(h) PROVE Fetched' /\ PathLists'
  <2>1. /\ request[h].step = "read" /\ request' = [request EXCEPT ![h].step = "missed"]
        /\ UNCHANGED <<queue, direct, flush, scanOf, carries, awaits, onTheWay>>
    BY <1>8 DEF Misses, UpdateMisses, fetches, bayState
  <2>2. PathLists'
    BY <2>1 DEF PathLists
  <2>3. \A g \in Handlers : request'[g] # Idle =>
          request[g] # Idle /\ request'[g].scan = request[g].scan
    BY <2>1 DEF TypeOK, Request, Idle
  <2>4. QED
    BY <2>1, <2>2, <2>3, <1>1, <1>2, FetchedFrom
<1>9. ASSUME NEW s \in Senders, GivesUp(s) PROVE Fetched' /\ PathLists'
  <2>1. /\ SenderFails(s) /\ UNCHANGED <<request, scanOf, carries>>
        /\ awaits' = [h \in Handlers |-> IF awaits[h] = s THEN Nobody ELSE awaits[h]]
        /\ onTheWay' \subseteq onTheWay \cup {job.n : job \in InHand(s)}
    BY <1>9 DEF GivesUp, vars
  <2>2. PathLists' /\ \A g \in Flushes : g # s => flush'[g] = flush[g]
    BY <2>1, SenderIs
  <2>3. onTheWay' \subseteq Bay!Saves
    BY <2>1, <1>2, InHandIs
  <2>4. Nobody \notin Flushes
    BY SendersAssumption DEF Senders
  <2>5. QED
    BY <2>1, <2>2, <2>3, <2>4, <1>1, <1>2, FetchedFrom
<1>10. ASSUME NEW f \in Flushes, TimerTicks(f) PROVE Fetched' /\ PathLists'
  <2>1. /\ UNCHANGED <<request, scanOf, carries, awaits, onTheWay>> /\ PathLists'
        /\ ~flush[f].running /\ \A g \in Flushes : g # f => flush'[g] = flush[g]
    BY <1>10, TickPaths DEF TimerTicks, vars, fetches
  <2>2. \A h \in Handlers : request[h] # Idle => awaits[h] # f
    BY <2>1, RunningIs DEF Fetched, Carried
  <2>3. QED
    BY <2>1, <2>2, <1>1, <1>2, FetchedFrom
<1>11. CASE LedgerFlips \/ UNCHANGED allVars
  <2>1. UNCHANGED <<queue, direct, flush, request, scanOf, carries, awaits, onTheWay>>
    BY <1>11 DEF LedgerFlips, Bay!LedgerFlips, allVars, bayState, vars, fetches
  <2>2. PathLists'
    BY <2>1 DEF PathLists
  <2>3. QED
    BY <2>1, <2>2, <1>1, <1>2, FetchedFrom
<1>12. CASE ReloadBay
  <2>1. /\ UNCHANGED <<queue, request, scanOf, carries>> /\ direct' = {}
        /\ flush' = [f \in Flushes |-> Bay!NoFlush]
        /\ awaits' = [h \in Handlers |-> Nobody] /\ onTheWay' \subseteq onTheWay \cup Unread
    BY <1>12 DEF ReloadBay, Bay!Reload, vars
  <2>2. PathLists'
    BY <2>1 DEF PathLists
  <2>3. onTheWay' \subseteq Bay!Saves
    BY <2>1, <1>2, InHandIs DEF Unread
  <2>4. Nobody \notin Flushes
    BY SendersAssumption DEF Senders
  <2>5. QED
    BY <2>1, <2>2, <2>3, <2>4, <1>1, <1>2, FetchedFrom
<1>13. QED
  BY <1>3, <1>4, <1>5, <1>6, <1>7, <1>8, <1>9, <1>10, <1>11, <1>12 DEF CapturesNext
-----------------------------------------------------------------------------
(* Where the scans are.                                                    *)

QueueTypes ==
  /\ budget \in [saves : 0 .. MaxSaves, losses : 0 .. MaxLosses, events : 0 .. MaxEvents]
  /\ stored \in [{Path} -> 0 .. MaxSaves] /\ latest \in [{Path} -> 0 .. MaxSaves]

LEMMA QueueTyped == BayQueue!IInv => QueueTypes
BY DEF BayQueue!IInv, BayQueue!Sound, BayQueue!TypeOK, QueueTypes

Waits(n) == n \in queued \/ \E job \in direct : job.n = n

LEMMA SpendsOther ==
  ASSUME QueueTypes, budget' = budget \/ Bay!Spend("losses") \/ Bay!Spend("events")
  PROVE  budget'.saves = budget.saves
BY DEF QueueTypes, Bay!Spend

(* A save that failed waits in the queue, or what it replaced is noted.    *)
LEMMA FailsKeeps ==
  ASSUME QueueTypes, NEW s, SenderFails(s), NoteReplaced
  PROVE  /\ budget'.saves = budget.saves /\ latest' = latest
         /\ exposed \subseteq exposed' /\ replaced \subseteq replaced'
         /\ \A n : Waits(n) => Waits(n)' \/ n \in replaced'
<1>1. CASE s \in Flushes
  <2>1. Bay!SendFails(s)
    BY <1>1 DEF SenderFails
  <2>2. UNCHANGED <<direct, queued, exposed, latest>>
        /\ (budget' = budget \/ Bay!Spend("losses"))
    BY <2>1 DEF Bay!SendFails
  <2>3. QED
    BY <2>2, SpendsOther DEF NoteReplaced, Waits
<1>2. CASE s \notin Flushes
  <2>1. PICK job \in direct : Bay!DirectFails(job)
    BY <1>2 DEF SenderFails, InHand
  <2>2. /\ latest' = latest /\ direct' = direct \ {job} /\ Bay!Enqueue(job)
        /\ budget' = budget \/ Bay!Spend("losses")
    BY <2>1 DEF Bay!DirectFails
  <2>3. exposed \subseteq exposed' /\ job.n \in queued'
    BY <2>2 DEF Bay!Enqueue
  <2>4. QED
    BY <2>2, <2>3, SpendsOther DEF NoteReplaced, Waits
<1>3. QED
  BY <1>1, <1>2

(* One that was answered is what the ledger has.                           *)
LEMMA OkKeeps ==
  ASSUME QueueTypes, PathLists, NEW s, SenderOk(s)
  PROVE  /\ budget' = budget /\ latest' = latest /\ exposed' = exposed
         /\ \E job \in InHand(s) :
              /\ stored'[Path] = job.n
              /\ \A n : Waits(n) => Waits(n)' \/ n = job.n
<1>1. ASSUME NEW job \in InHand(s), Bay!Deliver(job) PROVE stored'[Path] = job.n
  <2>1. job.key = Path
    BY InHandIs, PathJobIs
  <2>2. stored' = [stored EXCEPT ![Path] = job.n]
    BY <1>1, <2>1, PathAssumption DEF Bay!Deliver
  <2>3. QED
    BY <2>2 DEF QueueTypes
<1>2. CASE s \in Flushes
  <2>1. Bay!SendOk(s)
    BY <1>2 DEF SenderOk
  <2> DEFINE job == Head(flush[s].todo)
  <2>2. /\ flush[s].running /\ Bay!Deliver(job) /\ queued' = queued \ {job.n}
        /\ UNCHANGED <<direct, budget, exposed, latest>>
    BY <2>1 DEF Bay!SendOk
  <2>3. job \in InHand(s)
    BY <1>2, <2>2 DEF InHand, Bay!Running
  <2> HIDE DEF job
  <2>4. QED
    BY <2>2, <2>3, <1>1 DEF Waits
<1>3. CASE s \notin Flushes
  <2>1. PICK job \in InHand(s) : Bay!DirectOk(job)
    BY <1>3 DEF SenderOk
  <2>2. /\ Bay!Deliver(job) /\ direct' = direct \ {job}
        /\ UNCHANGED <<queued, budget, exposed, latest>>
    BY <2>1 DEF Bay!DirectOk, Bay!history
  <2>3. QED
    BY <2>1, <2>2, <1>1 DEF Waits
<1>4. QED
  BY <1>2, <1>3

(* A write brings the scan it carries, for whoever awaits it.              *)
LEMMA WritesScan ==
  ASSUME TypeOK, Fetched, NEW h \in Handlers, Writes(h)
  PROVE  /\ carries[h] \in Bay!Saves
         /\ answered' = answered \cup ReachableIn(scanOf[carries[h]])
         /\ last' = ReachableIn(scanOf[carries[h]]) /\ writes' # 0
         /\ request[h] # Idle
<1>1. /\ request[h] # Idle /\ writes' = writes + 1
      /\ answered' = answered \cup ReachableIn(request[h].scan)
      /\ last' = ReachableIn(request[h].scan)
  BY DEF Writes, UpdateCapture, InsertCapture, Write, Idle
<1>2. request[h].scan = scanOf[carries[h]] /\ carries[h] \in Bay!Saves
  BY <1>1 DEF Fetched, Carried
<1>3. QED
  BY <1>1, <1>2 DEF TypeOK

LEMMA CarriesHand ==
  ASSUME Fetched, PathLists, NEW h \in Handlers, request[h] # Idle, awaits[h] # Nobody,
         NEW job \in InHand(awaits[h])
  PROVE  job.n = carries[h]
BY InHandIs DEF Fetched, Carried, Senders

ScansFollowed == NoScanLost /\ LastIsStored /\ NewestIsLatest

(* Steps that write nothing, and leave the ledger's scan what it is.       *)
LEMMA ScansStay ==
  ASSUME ScansFollowed, UNCHANGED <<answered, writes, last, scanOf, stored>>, orphaned' = orphaned,
         budget'.saves = budget.saves, latest' = latest,
         replaced \subseteq replaced', exposed \subseteq exposed', cut \subseteq cut',
         \A n : Waits(n) => Waits(n)' \/ n \in replaced' \cup cut'
  PROVE  ScansFollowed'
<1>1. NoScanLost'
  BY DEF ScansFollowed, NoScanLost, Waits
<1>2. LastIsStored' /\ NewestIsLatest'
  BY DEF ScansFollowed, LastIsStored, NewestIsLatest
<1>3. QED
  BY <1>1, <1>2 DEF ScansFollowed
LEMMA SaveFollowed ==
  ASSUME QueueTypes, ScansFollowed, SaveScan
  PROVE  ScansFollowed'
<1>0. PICK job : job = Bay!NewJob(Path, FALSE)
  OBVIOUS
<1>1. /\ budget.saves \in Nat /\ budget'.saves = budget.saves + 1
      /\ latest'[Path] = budget.saves + 1 /\ UNCHANGED <<stored, vars, scanOf, orphaned, cut>>
      /\ replaced' = replaced \cup (queued \ queued')
  <2>1. Bay!Spend("saves") /\ latest' = [latest EXCEPT ![Path] = budget.saves + 1]
        /\ UNCHANGED <<stored, vars, scanOf, orphaned, cut>>
    BY PathAssumption DEF SaveScan, Bay!SaveOffline, Bay!SaveOnline, Bay!Saved
  <2>2. budget.saves \in Nat /\ budget'.saves = budget.saves + 1
    BY <2>1, SavesAssumption DEF QueueTypes, Bay!Spend
  <2>3. QED
    BY <2>1, <2>2 DEF QueueTypes, SaveScan, NoteReplaced
<1>2. /\ job.n = budget.saves + 1
      /\ Waits(job.n)' /\ exposed \subseteq exposed'
      /\ \A n : Waits(n) => Waits(n)' \/ n \in replaced'
  <2>1. job.n = budget.saves + 1
    BY <1>0 DEF Bay!NewJob
  <2>2. CASE Bay!SaveOffline(Path, FALSE)
    <3>1. Bay!Enqueue(job) /\ direct' = direct
      BY <1>0, <2>2 DEF Bay!SaveOffline
    <3>2. QED
      BY <2>1, <3>1, <1>1 DEF Bay!Enqueue, Waits
  <2>3. CASE Bay!SaveOnline(Path, FALSE)
    <3>1. direct' = direct \cup {job} /\ UNCHANGED <<queued, exposed>>
      BY <1>0, <2>3 DEF Bay!SaveOnline
    <3>2. QED
      BY <2>1, <3>1 DEF Waits
  <2>4. QED
    BY <2>2, <2>3 DEF SaveScan
<1>3. NoScanLost'
  <2>1. \A n \in 1 .. budget'.saves : n \in 1 .. budget.saves \/ n = job.n
    BY <1>1, <1>2
  <2>2. QED
    BY <1>1, <1>2, <2>1 DEF ScansFollowed, NoScanLost, Waits, vars, history
<1>4. LastIsStored' /\ NewestIsLatest'
  BY <1>1 DEF ScansFollowed, LastIsStored, NewestIsLatest, vars, history
<1>5. QED
  BY <1>3, <1>4 DEF ScansFollowed

(* An answer, lost or not, finds its scan in the map.                      *)
LEMMA AnswerFollowed ==
  ASSUME TypeOK, Fetched, PathLists, QueueTypes, ScansFollowed, NEW h \in Handlers,
         AnswerArrives(h) \/ AnswerLost(h)
  PROVE  ScansFollowed'
<1>1. /\ Writes(h) /\ awaits[h] # Nobody /\ UNCHANGED <<scanOf, cut, orphaned>>
  BY DEF AnswerArrives, AnswerLost, losses
<1>2. /\ answered' = answered \cup ReachableIn(scanOf[carries[h]])
      /\ last' = ReachableIn(scanOf[carries[h]]) /\ writes' # 0 /\ request[h] # Idle
  BY <1>1, WritesScan
<1>3. /\ budget'.saves = budget.saves /\ latest' = latest
      /\ exposed \subseteq exposed' /\ replaced \subseteq replaced'
      /\ stored'[Path] = carries[h]
      /\ \A n : Waits(n) => Waits(n)' \/ n = carries[h] \/ n \in replaced'
  <2>1. CASE AnswerArrives(h)
    <3>1. SenderOk(awaits[h]) /\ replaced' = replaced
      BY <2>1 DEF AnswerArrives, losses
    <3>2. QED
      BY <1>1, <1>2, <3>1, OkKeeps, CarriesHand
  <2>2. CASE AnswerLost(h)
    <3>1. /\ SenderFails(awaits[h]) /\ NoteReplaced
          /\ stored' = [stored EXCEPT ![Path] = carries[h]]
      BY <2>2 DEF AnswerLost
    <3>2. stored'[Path] = carries[h]
      BY <3>1 DEF QueueTypes
    <3>3. QED
      BY <3>1, <3>2, FailsKeeps
  <2>3. QED
    BY <2>1, <2>2
<1>4. NoScanLost'
  BY <1>1, <1>2, <1>3 DEF ScansFollowed, NoScanLost, Waits
<1>5. LastIsStored' /\ NewestIsLatest'
  BY <1>1, <1>2, <1>3 DEF ScansFollowed, LastIsStored, NewestIsLatest
<1>6. QED
  BY <1>4, <1>5 DEF ScansFollowed

LEMMA OrphanFollowed ==
  ASSUME TypeOK, Fetched, ScansFollowed, NEW h \in Handlers, OrphanWrites(h)
  PROVE  ScansFollowed'
<1>1. /\ Writes(h) /\ orphaned' = TRUE
      /\ UNCHANGED <<direct, stored, budget, queued, exposed, latest, scanOf, replaced, cut>>
  BY DEF OrphanWrites, bayState
<1>2. answered \subseteq answered'
  BY <1>1, WritesScan
<1>3. NoScanLost'
  BY <1>1, <1>2 DEF ScansFollowed, NoScanLost
<1>4. LastIsStored' /\ NewestIsLatest'
  BY <1>1 DEF ScansFollowed, LastIsStored, NewestIsLatest
<1>5. QED
  BY <1>3, <1>4 DEF ScansFollowed

LEMMA FollowedStep ==
  ASSUME TypeOK, Fetched, PathLists, QueueTypes, ScansFollowed, [CapturesNext]_allVars
  PROVE  ScansFollowed'
<1>1. CASE SaveScan
  BY <1>1, SaveFollowed
<1>2. CASE \E h \in Handlers : AnswerArrives(h) \/ AnswerLost(h)
  BY <1>2, AnswerFollowed
<1>3. CASE \E h \in Handlers : OrphanWrites(h)
  BY <1>3, OrphanFollowed
<1>4. ASSUME NEW s, SenderFails(s), NoteReplaced,
             UNCHANGED <<answered, writes, last, scanOf, stored, orphaned, cut>>
      PROVE  ScansFollowed'
  BY <1>4, FailsKeeps, ScansStay
<1>5. CASE \E h \in Handlers : RequestFails(h)
  <2>1. PICK h \in Handlers : RequestFails(h)
    BY <1>5
  <2>2. /\ Fail(h) /\ SenderFails(awaits[h]) /\ NoteReplaced
        /\ UNCHANGED <<scanOf, stored, orphaned, cut>>
    BY <2>1 DEF RequestFails
  <2>3. QED
    BY <2>2, <1>4 DEF Fail, history
<1>6. CASE \E s \in Senders : GivesUp(s)
  <2>1. PICK s \in Senders : GivesUp(s)
    BY <1>6
  <2>2. /\ SenderFails(s) /\ NoteReplaced
        /\ UNCHANGED <<vars, scanOf, stored, orphaned, cut>>
    BY <2>1 DEF GivesUp
  <2>3. QED
    BY <2>2, <1>4 DEF vars, history
<1>7. CASE \/ \E s \in Senders : \E h \in Handlers : Arrives(s, h)
           \/ \E h \in Handlers :
                (\E n \in onTheWay : ArrivesLate(n, h)) \/ OrphanFails(h) \/ Misses(h)
           \/ UNCHANGED allVars
  <2>1. UNCHANGED <<answered, writes, last, scanOf, stored, direct, budget, queued, exposed,
                    latest, replaced, cut, orphaned>>
    BY <1>7 DEF Arrives, ArrivesLate, OrphanFails, Misses, ReadCapture, Fail, UpdateMisses,
       history, allVars, vars, bayState, losses
  <2>2. QED
    BY <2>1, ScansStay DEF Waits
<1>8. CASE (\E f \in Flushes : TimerTicks(f)) \/ LedgerFlips
  <2>1. /\ UNCHANGED <<answered, writes, last, scanOf, stored, direct, queued, exposed,
                       latest, replaced, cut, orphaned>>
        /\ budget' = budget \/ Bay!Spend("events")
    BY <1>8 DEF TimerTicks, LedgerFlips, Bay!Tick, Bay!LedgerFlips, Bay!history, vars, history,
       losses
  <2>2. QED
    BY <2>1, SpendsOther, ScansStay DEF Waits
<1>9. CASE ReloadBay
  <2>1. /\ UNCHANGED <<answered, writes, last, scanOf, stored, queued, exposed,
                       latest, replaced, orphaned>>
        /\ Bay!Spend("events") /\ cut' = cut \cup {job.n : job \in direct}
    BY <1>9 DEF ReloadBay, Bay!Reload, vars, history
  <2>2. QED
    BY <2>1, SpendsOther, ScansStay DEF Waits
<1>10. QED
  BY <1>1, <1>2, <1>3, <1>5, <1>6, <1>7, <1>8, <1>9 DEF CapturesNext

-----------------------------------------------------------------------------
CapturesInv == TypeOK /\ Fetched /\ PathLists /\ ScansFollowed

LEMMA CapturesStart == CapturesInit => CapturesInv
<1> SUFFICES ASSUME CapturesInit PROVE CapturesInv
  OBVIOUS
<1>1. TypeOK /\ request = [h \in Handlers |-> Idle]
  BY InitTyped DEF CapturesInit, Init
<1>2. Fetched
  BY <1>1 DEF CapturesInit, Fetched, Carried, OneRequest
<1>3. PathLists
  BY DEF CapturesInit, Bay!Init, PathLists
<1>4. ScansFollowed
  BY DEF CapturesInit, Bay!Init, ScansFollowed, NoScanLost, LastIsStored, NewestIsLatest
<1>5. QED
  BY <1>1, <1>2, <1>3, <1>4 DEF CapturesInv

(* Where each scan is on its way from the bay to the map, and that the     *)
(* request that carries it is awaited by who has it in hand.               *)
THEOREM CapturesInvariant == CapturesSpec => []CapturesInv
<1>1. CapturesInv /\ BayQueue!IInv /\ [CapturesNext]_allVars => CapturesInv'
  <2> SUFFICES ASSUME CapturesInv, BayQueue!IInv, [CapturesNext]_allVars PROVE CapturesInv'
    OBVIOUS
  <2>1. QueueTypes /\ budget.saves \in Nat
    BY QueueTyped, SavesAssumption DEF QueueTypes
  <2>2. TypeOK'
    BY LedgerStep, TypeStep DEF CapturesInv
  <2>3. QED
    BY <2>1, <2>2, FetchedStep, FollowedStep DEF CapturesInv
<1>2. QED
  BY <1>1, CapturesStart, QueueInvariant, PTL DEF CapturesSpec

(* The composition implements the ledger alone, whatever the bay's fetches *)
(* come to: no request merges but a scan's.                                *)
THEOREM LedgerAsAlone == CapturesSpec => Spec
<1>1. CapturesInit => Init
  BY DEF CapturesInit
<1>2. CapturesInv /\ [CapturesNext]_allVars => [Next]_vars
  BY LedgerStep DEF CapturesInv
<1>3. QED
  BY <1>1, <1>2, CapturesInvariant, PTL DEF CapturesSpec, Spec

(* Once nothing is on its way, the map follows the bay's scans, through    *)
(* lost answers, repeated PUTs, reloads and requests that outlive them.    *)
THEOREM MapFollows == CapturesSpec => []MapFollowsScans
<1>1. CapturesInv /\ IInv /\ BayQueue!IInv => MapFollowsScans
  <2> SUFFICES ASSUME CapturesInv, IInv, BayQueue!IInv, Arrived PROVE
        /\ ~stale =>
             \A n \in (1 .. budget.saves) \ (replaced \cup exposed \cup cut) :
               \A node \in ReachableIn(scanOf[n]) : Ever(node)
        /\ Path \notin raced /\ ~orphaned /\ budget.saves > 0 =>
             Reachable = ReachableIn(scanOf[budget.saves])
    BY DEF MapFollowsScans
  <2>1. direct = {} /\ queue = <<>> /\ Bay!Running = {}
    BY DEF Arrived
  <2>2. queued \subseteq exposed
    <3>1. queued \ exposed \subseteq BayQueue!Numbers(queue)
      BY DEF BayQueue!IInv, BayQueue!NothingLost, BayQueue!KeptUntilDelivered
    <3>2. BayQueue!Numbers(queue) = {}
      BY <2>1 DEF BayQueue!Numbers
    <3>3. QED
      BY <3>1, <3>2
  <2>3. ASSUME ~stale, NEW n \in (1 .. budget.saves) \ (replaced \cup exposed \cup cut),
               NEW node \in ReachableIn(scanOf[n])
        PROVE  Ever(node)
    <3>1. node \in answered
      BY <2>1, <2>2, <2>3 DEF CapturesInv, ScansFollowed, NoScanLost
    <3>2. QED
      BY <2>3, <3>1 DEF IInv, NothingForgotten
  <2>4. ASSUME Path \notin raced, ~orphaned, budget.saves > 0
        PROVE  Reachable = ReachableIn(scanOf[budget.saves])
    <3>1. stored[Path] = latest[Path]
      <4>1. \E key \in {Path} : key = Path
        OBVIOUS
      <4>2. QED
        BY <2>1, <2>4, SameLists DEF BayQueue!IInv, BayQueue!NewestWins, BayQueue!OnItsWay,
           BayQueue!HasKey, BayQueue!ToSet
    <3>2. stored[Path] = budget.saves /\ stored[Path] # 0
      BY <3>1, <2>4, QueueTyped DEF CapturesInv, ScansFollowed, NewestIsLatest, QueueTypes
    <3>3. writes # 0 /\ last = ReachableIn(scanOf[budget.saves])
      BY <3>2, <2>4 DEF CapturesInv, ScansFollowed, LastIsStored
    <3>4. row # Missing /\ {n \in DOMAIN row.modules : row.modules[n].reachable} = last
          /\ last \subseteq Nodes
      BY <3>3 DEF IInv, RowInv, NothingInvented, TypeOK
    <3>5. QED
      BY <3>3, <3>4 DEF Reachable
  <2>5. QED
    BY <2>3, <2>4
<1>2. QED
  BY <1>1, CapturesInvariant, LedgerAsAlone, IndInvariant, QueueInvariant, PTL
=============================================================================
