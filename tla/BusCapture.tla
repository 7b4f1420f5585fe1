------------------------------ MODULE BusCapture ------------------------------
(***************************************************************************)
(* The bus map of one vehicle at one shop: a row of bus_captures, written  *)
(* by PUT /api/v1/vehicles/{vin}/capture after every deep scan.            *)
(* UpsertBusCapture reads the row, merges the scan into it in the program  *)
(* and writes the result back; the statements share no transaction, so     *)
(* requests of two bays of the shop, or of one bay that scans again while  *)
(* its offline queue drains, interleave between them.                      *)
(*                                                                         *)
(* A module's name and ids are its key, a Node.  The identity DIDs stand   *)
(* for every text field that an empty value does not overwrite.            *)
(***************************************************************************)
EXTENDS Naturals

CONSTANTS
  Nodes,     \* module keys, NAME|TXID
  Codes,     \* trouble codes
  DIDs,      \* identity DIDs
  Texts,     \* what they read
  NoText,    \* an empty text
  Scans,     \* the request bodies that bays send
  Handlers,  \* request goroutines
  MaxPuts    \* bound: requests in one behaviour

ASSUME PutsAssumption == MaxPuts \in Nat
ASSUME TextAssumption == NoText \notin Texts

PartialFunctions(D, R) == UNION {[S -> R] : S \in SUBSET D}

NodeRow == [reachable : BOOLEAN, ever : BOOLEAN, dtcs : SUBSET Codes]

Scan == [modules : PartialFunctions(Nodes, NodeRow),
         identity : PartialFunctions(DIDs, Texts \cup {NoText})]

(* captureBody copies reachable into ever_reachable, and the worker reports *)
(* no codes for a node that did not answer.                                 *)
ASSUME ScansAssumption ==
  /\ Scans \subseteq Scan
  /\ \A scan \in Scans : \A n \in DOMAIN scan.modules :
       /\ scan.modules[n].ever = scan.modules[n].reachable
       /\ ~scan.modules[n].reachable => scan.modules[n].dtcs = {}

VARIABLES
  row,       \* the bus_captures row, or Missing
  request,   \* what each handler is doing
  puts,      \* requests so far
  writes,    \* history: rows written so far
  answered,  \* history: nodes that were reachable in a written scan
  read,      \* history: DIDs that had a text in a written scan
  last,      \* history: nodes that were reachable in the scan written last
  stale      \* history: a scan was merged into a row that was no longer there

history == <<writes, answered, read, last, stale>>
vars == <<row, request, puts, history>>

Missing == [scan_count |-> 0]
Capture == [modules : PartialFunctions(Nodes, NodeRow),
            identity : PartialFunctions(DIDs, Texts \cup {NoText}),
            scan_count : Nat]

Idle == [step |-> "idle"]
Request == [step : {"read", "missed"}, scan : Scans,
            prev : Capture \cup {Missing}, version : Nat]

TypeOK ==
  /\ row \in Capture \cup {Missing}
  /\ request \in [Handlers -> Request \cup {Idle}]
  /\ puts \in 0 .. MaxPuts
  /\ writes \in Nat
  /\ answered \subseteq Nodes
  /\ read \subseteq DIDs
  /\ last \subseteq Nodes
  /\ stale \in BOOLEAN

-----------------------------------------------------------------------------
Answered(m) == m.ever \/ m.reachable

(* Slips: the merge forgets what the row on file knew; the merge leaves a  *)
(* node that the new scan does not list as it was.                         *)
MergeModules_LastScanOnly(prev, next) ==
  [n \in DOMAIN prev \cup DOMAIN next |->
     [reachable |-> n \in DOMAIN next /\ next[n].reachable,
      ever      |-> n \in DOMAIN next /\ Answered(next[n]),
      dtcs      |-> IF n \in DOMAIN next THEN next[n].dtcs ELSE {}]]

MergeModules_LeavesUnlisted(prev, next) ==
  [n \in DOMAIN prev \cup DOMAIN next |->
     IF n \in DOMAIN next
     THEN [next[n] EXCEPT !.ever = \/ n \in DOMAIN prev /\ Answered(prev[n])
                                   \/ Answered(next[n])]
     ELSE prev[n]]

(* mergeBusModules: a node of the new scan keeps that it ever answered; a  *)
(* node the new scan does not list goes dark and loses its codes.          *)
MergeModules(prev, next) ==
  [n \in DOMAIN prev \cup DOMAIN next |->
     [reachable |-> n \in DOMAIN next /\ next[n].reachable,
      ever      |-> \/ n \in DOMAIN prev /\ Answered(prev[n])
                    \/ n \in DOMAIN next /\ Answered(next[n]),
      dtcs      |-> IF n \in DOMAIN next THEN next[n].dtcs ELSE {}]]

(* mergeBusIdentity: an empty text keeps the one on file.                  *)
MergeIdentity(prev, next) ==
  [d \in DOMAIN prev \cup DOMAIN next |->
     IF d \in DOMAIN next /\ (next[d] # NoText \/ d \notin DOMAIN prev)
     THEN next[d]
     ELSE prev[d]]

NoModules == [n \in {} |-> {}]

(* The row a handler writes: merged into the row it read, or the scan as   *)
(* it came when it read none.                                              *)
Merged(prev, scan) ==
  IF prev = Missing
  THEN [modules |-> MergeModules(NoModules, scan.modules),
        identity |-> scan.identity, scan_count |-> 1]
  ELSE [modules |-> MergeModules(prev.modules, scan.modules),
        identity |-> MergeIdentity(prev.identity, scan.identity),
        scan_count |-> prev.scan_count + 1]

ReachableIn(scan) == {n \in DOMAIN scan.modules : scan.modules[n].reachable}
TextsIn(scan) == {d \in DOMAIN scan.identity : scan.identity[d] # NoText}

-----------------------------------------------------------------------------
Init ==
  /\ row = Missing
  /\ request = [h \in Handlers |-> Idle]
  /\ puts = 0
  /\ writes = 0
  /\ answered = {}
  /\ read = {}
  /\ last = {}
  /\ stale = FALSE

(* The SELECT that a request starts with.                                  *)
ReadCapture(h, scan) ==
  /\ request[h] = Idle
  /\ puts < MaxPuts
  /\ puts' = puts + 1
  /\ request' = [request EXCEPT ![h] =
       [step |-> "read", scan |-> scan, prev |-> row, version |-> writes]]
  /\ UNCHANGED <<row, history>>

Write(h) ==
  LET scan == request[h].scan IN
  /\ row' = Merged(request[h].prev, scan)
  /\ request' = [request EXCEPT ![h] = Idle]
  /\ writes' = writes + 1
  /\ answered' = answered \cup ReachableIn(scan)
  /\ read' = read \cup TextsIn(scan)
  /\ last' = ReachableIn(scan)
  /\ stale' = (stale \/ request[h].version # writes)

(* UPDATE ... WHERE vin and scope; no row affected means no row yet.       *)
UpdateCapture(h) ==
  /\ request[h].step = "read"
  /\ row # Missing
  /\ Write(h)
  /\ UNCHANGED puts

UpdateMisses(h) ==
  /\ request[h].step = "read"
  /\ row = Missing
  /\ request' = [request EXCEPT ![h].step = "missed"]
  /\ UNCHANGED <<row, puts, history>>

(* INSERT; the unique index on the scope and the VIN refuses a second row, *)
(* and the request fails.                                                  *)
InsertCapture(h) ==
  /\ request[h].step = "missed"
  /\ row = Missing
  /\ Write(h)
  /\ UNCHANGED puts

Fail(h) ==
  /\ request[h] # Idle
  /\ request' = [request EXCEPT ![h] = Idle]
  /\ UNCHANGED <<row, puts, history>>

Next ==
  \E h \in Handlers :
    \/ \E scan \in Scans : ReadCapture(h, scan)
    \/ UpdateCapture(h)
    \/ UpdateMisses(h)
    \/ InsertCapture(h)
    \/ Fail(h)

Spec == Init /\ [][Next]_vars

-----------------------------------------------------------------------------
Ever(n) == row # Missing /\ n \in DOMAIN row.modules /\ row.modules[n].ever

(* The map is what the scans observed: as long as no request overwrote a   *)
(* row it had not read, every node that ever answered is on it as          *)
(* ever_reachable, every DID that was ever read has a text, and scan_count *)
(* counts the scans.                                                       *)
NothingForgotten ==
  ~stale =>
    /\ \A n \in answered : Ever(n)
    /\ \A d \in read : d \in DOMAIN row.identity /\ row.identity[d] # NoText
    /\ row.scan_count = writes

(* "Not an invented map", whatever overlapped: a node is ever_reachable    *)
(* only if it answered a scan, a DID has a text only if one read it, and   *)
(* the nodes that are reachable now are those of the scan written last.    *)
NothingInvented ==
  row # Missing =>
    /\ \A n \in Nodes : Ever(n) => n \in answered
    /\ \A d \in DOMAIN row.identity : row.identity[d] # NoText => d \in read
    /\ {n \in DOMAIN row.modules : row.modules[n].reachable} = last
    /\ \A n \in DOMAIN row.modules : row.modules[n].dtcs # {} => n \in last

(* Migration 013: "nodes that ever answered stay ever_reachable".          *)
EverReachableStays == [][\A n \in Nodes : Ever(n) => Ever(n)']_vars
=============================================================================
