--------------------------- MODULE ClearCodesProofs ---------------------------
(***************************************************************************)
(* Proofs about ClearCodes for any modules, codes, profiles and bounds.    *)
(***************************************************************************)
EXTENDS ClearCodes, SequenceTheorems, TLAPS

(* What the list of a scan should say of a module.                         *)
AsStored(m) == [reachable |-> TRUE, dtcs |-> stored[m]]

(* The module that a clear has begun with and not finished.                *)
AtWork(m) ==
  job.cmd = "clear" /\ job.todo # <<>> /\ job.step # "module" /\ m = Current

Sends == {"send", "session", "resend"}

(* What the bay shows of a module leaves no code out.                      *)
Shown(m) ==
  /\ stored[m] \subseteq bay.active
  /\ m \in DOMAIN bay.modules => stored[m] \subseteq bay.modules[m].dtcs

TodoInProfile == job # Idle => ToSet(job.todo) \subseteq ToSet(profile)

(* The entries of a scan and of a clear are of different kinds; nothing is *)
(* left over of a module to which no $14 was sent.                         *)
NodesOfCommand ==
  /\ job.cmd = "scan" => IsMap(nodes, Node)
  /\ job.cmd = "clear" =>
       /\ IsMap(nodes, ReportNode)
       /\ \A m \in DOMAIN nodes : ~nodes[m].attempted => nodes[m].after = {}

(* The scan under way is true so far.                                      *)
ScanTrue ==
  job.cmd = "scan" => \A m \in DOMAIN nodes \cap Fresh : nodes[m] = AsStored(m)

(* The worker's list is true but where a command is at work on it: a scan  *)
(* on its whole profile, a clear on one module.                            *)
ListTrue ==
  \A m \in DOMAIN last \cap Fresh :
    \/ last[m] = AsStored(m)
    \/ job.cmd = "scan" /\ m \in ToSet(profile)
    \/ AtWork(m)

(* A clear knows the codes of the module it is at.                         *)
BeforeTrue ==
  AtModule("clear") /\ job.step \in Sends /\ read[Current] = "fresh" =>
    job.before = stored[Current]

(* The clear's report leaves no code out.                                  *)
ReportTrue ==
  job.cmd = "clear" =>
    \A m \in DOMAIN nodes \cap Fresh : stored[m] \subseteq nodes[m].after \/ AtWork(m)

(* Nor does the bay, but for modules that the clear under way has changed: *)
(* it will not be refused.                                                 *)
BayTrue ==
  job.cmd # "scan" =>
    \A m \in Fresh \cap covered :
      \/ Shown(m)
      \/ AtWork(m)
      \/ job.cmd = "clear" /\ m \in DOMAIN nodes /\ nodes[m].attempted

IInv ==
  /\ TypeOK /\ TodoInProfile /\ NodesOfCommand
  /\ ScanTrue /\ ListTrue /\ BeforeTrue /\ ReportTrue /\ BayTrue
  /\ OnlyNodesWithCodes

-----------------------------------------------------------------------------
LEMMA Todo ==
  ASSUME NEW s \in Seq(Modules), s # <<>>
  PROVE  /\ Head(s) \in Modules /\ Head(s) \in ToSet(s)
         /\ Tail(s) \in Seq(Modules) /\ ToSet(Tail(s)) \subseteq ToSet(s)
BY DEF ToSet

LEMMA ProfileTyped ==
  ASSUME NEW p \in Profiles
  PROVE  p \in Seq(Modules) /\ ToSet(p) \subseteq Modules
BY ProfilesAssumption DEF ToSet

LEMMA ScanningTyped ==
  ASSUME TypeOK, job.cmd = "scan"
  PROVE  job \in ScanJob
BY DEF TypeOK, ScanJob, ClearJob, Idle

LEMMA ClearingTyped ==
  ASSUME TypeOK, job.cmd = "clear"
  PROVE  job \in ClearJob
BY DEF TypeOK, ScanJob, ClearJob, Idle

(* What the next module starts from, one field after the other.            *)
LEMMA StepTyped ==
  ASSUME NEW j \in ClearJob, NEW t \in Seq(Modules)
  PROVE  LET k == [j EXCEPT !.todo = t, !.step = "module"]
         IN  k \in ClearJob /\ k.todo = t /\ k.step = "module"
BY DEF ClearJob

LEMMA GroupTyped ==
  ASSUME NEW j \in ClearJob
  PROVE  LET k == [j EXCEPT !.group = 1]
         IN  k \in ClearJob /\ k.todo = j.todo /\ k.step = j.step
BY DEF ClearJob

LEMMA BeforeTyped ==
  ASSUME NEW j \in ClearJob, NEW codes \in SUBSET Codes
  PROVE  LET k == [j EXCEPT !.before = codes]
         IN  k \in ClearJob /\ k.todo = j.todo /\ k.step = j.step
BY DEF ClearJob

LEMMA NextModuleTyped ==
  ASSUME job \in ClearJob, Tail(job.todo) \in Seq(Modules)
  PROVE  NextModule \in ClearJob /\ NextModule.todo = Tail(job.todo)
         /\ NextModule.step = "module"
<1> DEFINE j1 == [job EXCEPT !.todo = Tail(job.todo), !.step = "module"]
           j2 == [j1 EXCEPT !.group = 1]
           j3 == [j2 EXCEPT !.before = {}]
<1>1. NextModule = j3
  BY DEF NextModule, ClearJob
<1>2. j1 \in ClearJob /\ j1.todo = Tail(job.todo) /\ j1.step = "module"
  BY StepTyped
<1>3. j2 \in ClearJob /\ j2.todo = j1.todo /\ j2.step = j1.step
  <2> HIDE DEF j1
  <2> QED BY <1>2, GroupTyped
<1>4. j3 \in ClearJob /\ j3.todo = j2.todo /\ j3.step = j2.step
  <2> HIDE DEF j2
  <2> QED BY <1>3, BeforeTyped
<1> HIDE DEF j1, j2, j3
<1> QED BY <1>1, <1>2, <1>3, <1>4

LEMMA SpendTyped ==
  ASSUME TypeOK
  PROVE  /\ budget.commands < MaxCommands /\ Spend("commands") => budget' \in
              [commands : 0 .. MaxCommands, misses : 0 .. MaxMisses, faults : 0 .. MaxFaults]
         /\ MayMiss /\ Spend("misses") => budget' \in
              [commands : 0 .. MaxCommands, misses : 0 .. MaxMisses, faults : 0 .. MaxFaults]
         /\ budget.faults < MaxFaults /\ Spend("faults") => budget' \in
              [commands : 0 .. MaxCommands, misses : 0 .. MaxMisses, faults : 0 .. MaxFaults]
BY BoundsAssumption DEF TypeOK, Spend, MayMiss

(* Entering one more node leaves a map a map.                              *)
LEMMA PutTyped ==
  ASSUME NEW f, NEW S, IsMap(f, S), NEW m \in Modules, NEW value \in S
  PROVE  /\ IsMap(Put(f, m, value), S)
         /\ DOMAIN Put(f, m, value) = DOMAIN f \cup {m}
         /\ \A n \in DOMAIN f \cup {m} :
              Put(f, m, value)[n] = IF n = m THEN value ELSE f[n]
BY DEF IsMap, Put

-----------------------------------------------------------------------------
(* The steps of a clear at one module, in two lemmas: those that finish    *)
(* with it and those that do not.                                          *)

LEMMA FinishKeeps ==
  ASSUME IInv, AtModule("clear"), NEW node \in ReportNode, Finish(node),
         ~node.attempted => node.after = {},
         budget' \in [commands : 0 .. MaxCommands, misses : 0 .. MaxMisses,
                      faults : 0 .. MaxFaults],
         NEW how \in Reads, read' = [read EXCEPT ![Current] = how],
         stored' \in [Modules -> SUBSET Codes],
         \A m \in Modules : m # Current => stored'[m] = stored[m],
         how = "fresh" => node.reachable /\ stored'[Current] = node.after
  PROVE  IInv'
<1>0. job \in ClearJob /\ job.todo # <<>> /\ job.cmd = "clear"
  BY ClearingTyped DEF IInv, AtModule
<1>1. /\ Current \in Modules /\ Current \in ToSet(profile)
      /\ Tail(job.todo) \in Seq(Modules)
      /\ ToSet(Tail(job.todo)) \subseteq ToSet(profile)
  BY <1>0, Todo DEF Current, IInv, TodoInProfile, ClearJob, Idle
<1>2. /\ job' \in ClearJob /\ job'.todo = Tail(job.todo) /\ job'.step = "module"
      /\ job'.cmd = "clear" /\ job' # Idle
  <2>1. job' = NextModule
    BY DEF Finish
  <2>2. /\ NextModule \in ClearJob /\ NextModule.todo = Tail(job.todo)
        /\ NextModule.step = "module"
    BY <1>0, <1>1, NextModuleTyped
  <2>3. Idle.cmd = "idle"
    BY DEF Idle
  <2>4. NextModule.cmd = "clear"
    BY <2>2 DEF ClearJob
  <2> QED BY <2>1, <2>2, <2>3, <2>4
<1>3. /\ nodes' = Put(nodes, Current, node) /\ IsMap(nodes, ReportNode)
      /\ profile' = profile /\ bay' = bay /\ covered' = covered
  BY <1>0 DEF Finish, IInv, NodesOfCommand
<1>4. /\ IsMap(nodes', ReportNode) /\ DOMAIN nodes' = DOMAIN nodes \cup {Current}
      /\ \A n \in DOMAIN nodes' : nodes'[n] = IF n = Current THEN node ELSE nodes[n]
  BY <1>1, <1>3 DEF IsMap, Put
<1>5. /\ DOMAIN last' = DOMAIN last
      /\ \A n \in DOMAIN last : n # Current => last'[n] = last[n]
      /\ Current \in DOMAIN last =>
           last'[Current] = [reachable |-> node.reachable \/ last[Current].reachable,
                             dtcs |-> node.after]
  BY DEF Finish
<1>6. IsMap(last', Node)
  BY <1>5 DEF IInv, TypeOK, IsMap, Node, ReportNode
<1>7. /\ read' \in [Modules -> Reads] /\ read'[Current] = how
      /\ \A m \in Modules : m # Current => read'[m] = read[m]
  BY <1>1 DEF IInv, TypeOK
<1>8. ~AtModule("clear")' \/ job'.step = "module"
  BY <1>2
<1>9. \A m : ~AtWork(m)'
  BY <1>2 DEF AtWork
<1>10. \A m \in Modules : m # Current => (AtWork(m) <=> FALSE)
  BY DEF AtWork
<1>11. TypeOK'
  BY <1>2, <1>3, <1>4, <1>6, <1>7 DEF IInv, TypeOK, IsMap
<1>12. TodoInProfile' /\ NodesOfCommand' /\ ScanTrue' /\ BeforeTrue' /\ OnlyNodesWithCodes'
  <2>1. TodoInProfile'
    BY <1>1, <1>2, <1>3 DEF TodoInProfile
  <2>2. NodesOfCommand'
    BY <1>0, <1>2, <1>4 DEF NodesOfCommand, IInv
  <2>3. ScanTrue' /\ BeforeTrue' /\ OnlyNodesWithCodes'
    BY <1>2 DEF ScanTrue, BeforeTrue, OnlyNodesWithCodes, Sends
  <2> QED BY <2>1, <2>2, <2>3
<1>13. ListTrue'
  <2> SUFFICES ASSUME NEW m \in DOMAIN last', m \in Fresh'
               PROVE  last'[m] = AsStored(m)'
    BY DEF ListTrue, AsStored
  <2>1. CASE m = Current
    BY <2>1, <1>1, <1>5, <1>7 DEF AsStored, Fresh
  <2>2. CASE m # Current
    BY <2>2, <1>0, <1>5, <1>7, <1>10 DEF AsStored, Fresh, IInv, ListTrue
  <2> QED BY <2>1, <2>2
<1>14. ReportTrue'
  <2> SUFFICES ASSUME NEW m \in DOMAIN nodes', m \in Fresh'
               PROVE  stored'[m] \subseteq nodes'[m].after
    BY DEF ReportTrue, AtWork
  <2>1. CASE m = Current
    BY <2>1, <1>1, <1>4, <1>7 DEF Fresh
  <2>2. CASE m # Current
    BY <2>2, <1>0, <1>4, <1>7, <1>10 DEF Fresh, IInv, ReportTrue
  <2> QED BY <2>1, <2>2
<1>15. BayTrue'
  <2> SUFFICES ASSUME NEW m \in Fresh', m \in covered'
               PROVE  Shown(m)' \/ (m \in DOMAIN nodes' /\ nodes'[m].attempted)
    BY <1>2 DEF BayTrue
  <2>1. CASE m = Current
    BY <2>1, <1>1, <1>4, <1>7 DEF Fresh, Shown
  <2>2. CASE m # Current
    BY <2>2, <1>0, <1>3, <1>4, <1>7, <1>10 DEF Fresh, Shown, IInv, BayTrue
  <2> QED BY <2>1, <2>2
<1> QED BY <1>11, <1>12, <1>13, <1>14, <1>15 DEF IInv

LEMMA StayKeeps ==
  ASSUME IInv, AtModule("clear"),
         job' \in ClearJob, job'.todo = job.todo, job'.step # "module",
         UNCHANGED <<profile, last, nodes, bay, covered>>,
         budget' \in [commands : 0 .. MaxCommands, misses : 0 .. MaxMisses,
                      faults : 0 .. MaxFaults],
         NEW how \in Reads, read' = [read EXCEPT ![Current] = how],
         stored' \in [Modules -> SUBSET Codes],
         \A m \in Modules : m # Current => stored'[m] = stored[m],
         job'.step \in Sends =>
           /\ job'.before # {}
           /\ Current \in DOMAIN last => last[Current].reachable /\ last[Current].dtcs # {}
           /\ how = "fresh" => job'.before = stored'[Current]
  PROVE  IInv'
<1>0. job \in ClearJob /\ job.todo # <<>> /\ job.cmd = "clear"
  BY ClearingTyped DEF IInv, AtModule
<1>1. Current \in Modules /\ Current' = Current
  BY <1>0, Todo DEF Current, ClearJob
<1>2. job'.cmd = "clear" /\ job # Idle
  BY <1>0 DEF ClearJob, Idle
<1>3. /\ read' \in [Modules -> Reads] /\ read'[Current] = how
      /\ \A m \in Modules : m # Current => read'[m] = read[m]
  BY <1>1 DEF IInv, TypeOK
<1>4. /\ \A m : AtWork(m)' <=> m = Current
      /\ \A m : m # Current => ~AtWork(m)
  BY <1>0, <1>1, <1>2 DEF AtWork
<1>5. TypeOK'
  BY <1>3 DEF IInv, TypeOK, IsMap
<1>6. TodoInProfile' /\ NodesOfCommand' /\ ScanTrue' /\ BeforeTrue' /\ OnlyNodesWithCodes'
  <2>1. TodoInProfile'
    BY <1>2 DEF TodoInProfile, IInv
  <2>2. NodesOfCommand'
    BY <1>0, <1>2 DEF NodesOfCommand, IInv, IsMap
  <2>3. ScanTrue'
    BY <1>2 DEF ScanTrue
  <2>4. BeforeTrue' /\ OnlyNodesWithCodes'
    BY <1>1, <1>3 DEF BeforeTrue, OnlyNodesWithCodes, Sends
  <2> QED BY <2>1, <2>2, <2>3, <2>4
<1>7. ListTrue'
  <2> SUFFICES ASSUME NEW m \in DOMAIN last', m \in Fresh', m # Current
               PROVE  last'[m] = AsStored(m)'
    BY <1>4 DEF ListTrue, AsStored
  <2> QED BY <1>0, <1>3, <1>4 DEF AsStored, Fresh, IInv, ListTrue
<1>8. ReportTrue'
  <2> SUFFICES ASSUME NEW m \in DOMAIN nodes', m \in Fresh', m # Current
               PROVE  stored'[m] \subseteq nodes'[m].after
    BY <1>4 DEF ReportTrue
  <2> QED BY <1>0, <1>3, <1>4 DEF Fresh, IInv, ReportTrue
<1>9. BayTrue'
  <2> SUFFICES ASSUME NEW m \in Fresh', m \in covered', m # Current
               PROVE  Shown(m)' \/ (m \in DOMAIN nodes' /\ nodes'[m].attempted)
    BY <1>2, <1>4 DEF BayTrue
  <2> QED BY <1>0, <1>3, <1>4 DEF Fresh, Shown, IInv, BayTrue
<1> QED BY <1>5, <1>6, <1>7, <1>8, <1>9 DEF IInv

LEMMA Working ==
  ASSUME IInv, AtModule("clear")
  PROVE  /\ job \in ClearJob /\ job.todo # <<>> /\ job.cmd = "clear" /\ job # Idle
         /\ Current \in Modules /\ Current \in ToSet(profile)
         /\ read = [read EXCEPT ![Current] = read[Current]] /\ read[Current] \in Reads
         /\ stored \in [Modules -> SUBSET Codes]
         /\ budget \in [commands : 0 .. MaxCommands, misses : 0 .. MaxMisses,
                        faults : 0 .. MaxFaults]
<1>1. job \in ClearJob /\ job.todo # <<>> /\ job.cmd = "clear" /\ job # Idle
  BY ClearingTyped DEF IInv, AtModule, Idle
<1>2. Current \in Modules /\ Current \in ToSet(profile)
  BY <1>1, Todo DEF Current, IInv, TodoInProfile, ClearJob
<1> QED BY <1>1, <1>2 DEF IInv, TypeOK

LEMMA MovesOn ==
  ASSUME job \in ClearJob
  PROVE  /\ \A step \in {"send", "session", "resend", "reread"} :
              LET k == [job EXCEPT !.step = step]
              IN  /\ k \in ClearJob /\ k.todo = job.todo /\ k.step = step
                  /\ k.before = job.before
         /\ \A codes \in SUBSET Codes :
              LET k == [job EXCEPT !.step = "send", !.before = codes]
              IN  /\ k \in ClearJob /\ k.todo = job.todo /\ k.step = "send"
                  /\ k.before = codes
BY DEF ClearJob

LEMMA GroupMovesOn ==
  ASSUME job \in ClearJob, job.group # 2
  PROVE  LET k == [job EXCEPT !.step = "send", !.group = @ + 1]
         IN  /\ k \in ClearJob /\ k.todo = job.todo /\ k.step = "send"
             /\ k.before = job.before
<1> DEFINE k1 == [job EXCEPT !.step = "send"]
           k == [job EXCEPT !.step = "send", !.group = @ + 1]
<1>1. job.group = 1
  BY DEF ClearJob
<1>2. k1 \in ClearJob /\ k1.todo = job.todo /\ k1.step = "send" /\ k1.before = job.before
  BY MovesOn
<1>3. [k1 EXCEPT !.group = 2] \in ClearJob
  <2> HIDE DEF k1
  <2> QED BY <1>2 DEF ClearJob
<1>4. k = [k1 EXCEPT !.group = 2]
  BY <1>1 DEF ClearJob
<1>5. k.todo = job.todo /\ k.step = "send" /\ k.before = job.before
  BY DEF ClearJob
<1> QED BY <1>3, <1>4, <1>5

LEMMA NotSkipped ==
  ASSUME ~Skipped(Current)
  PROVE  Current \in DOMAIN last => last[Current].reachable /\ last[Current].dtcs # {}
BY DEF Skipped

LEMMA AttemptedTyped ==
  ASSUME NEW cleared \in BOOLEAN, NEW after \in SUBSET Codes
  PROVE  /\ Attempted(cleared, after) \in ReportNode
         /\ Attempted(cleared, after).attempted /\ Attempted(cleared, after).reachable
         /\ Attempted(cleared, after).after = after
BY DEF Attempted, ReportNode

LEMMA ReadBeforeKeeps == ASSUME IInv, ReadBefore PROVE IInv'
<1>1. AtModule("clear") /\ job.step = "module" /\ ~Skipped(Current)
  BY DEF ReadBefore
<1>2. read' = [read EXCEPT ![Current] = "fresh"] /\ stored' = stored /\ budget' = budget
  BY DEF ReadBefore, Mark
<1>3. CASE stored[Current] = {}
  <2> DEFINE node == [reachable |-> TRUE, attempted |-> FALSE, cleared |-> FALSE,
                      after |-> {}]
  <2>1. node \in ReportNode /\ node.reachable /\ node.after = {}
    BY DEF ReportNode
  <2>2. Finish(node)
    BY <1>3 DEF ReadBefore
  <2> HIDE DEF node
  <2> QED BY <1>1, <1>2, <1>3, <2>1, <2>2, Working, FinishKeeps DEF Reads
<1>4. CASE stored[Current] # {}
  <2>1. /\ job' = [job EXCEPT !.step = "send", !.before = stored[Current]]
        /\ UNCHANGED <<profile, last, nodes, bay, covered>>
    BY <1>4 DEF ReadBefore
  <2>2. stored[Current] \in SUBSET Codes
    BY <1>1, Working
  <2>3. /\ job' \in ClearJob /\ job'.todo = job.todo /\ job'.step = "send"
        /\ job'.before = stored[Current]
    BY <1>1, <2>1, <2>2, Working, MovesOn
  <2> QED BY <1>1, <1>2, <1>4, <2>1, <2>3, Working, NotSkipped, StayKeeps DEF Reads
<1> QED BY <1>3, <1>4

LEMMA ReadBeforeMissedKeeps == ASSUME IInv, ReadBeforeMissed PROVE IInv'
<1>1. AtModule("clear") /\ MayMiss /\ Spend("misses") /\ stored' = stored
  BY DEF ReadBeforeMissed
<1>2. PICK reachable \in BOOLEAN :
        Finish([reachable |-> reachable, attempted |-> FALSE, cleared |-> FALSE,
                after |-> {}])
  BY DEF ReadBeforeMissed
<1> DEFINE node == [reachable |-> reachable, attempted |-> FALSE, cleared |-> FALSE,
                    after |-> {}]
<1>3. node \in ReportNode /\ node.after = {} /\ Finish(node)
  BY <1>2 DEF ReportNode
<1>4. read' = [read EXCEPT ![Current] = "unknown"] /\ "unknown" \in Reads
  BY DEF ReadBeforeMissed, Mark, Reads
<1>5. budget' \in [commands : 0 .. MaxCommands, misses : 0 .. MaxMisses,
                   faults : 0 .. MaxFaults]
  BY <1>1, SpendTyped DEF IInv
<1> HIDE DEF node
<1> QED BY <1>1, <1>3, <1>4, <1>5, Working, FinishKeeps

(* The ways out of _clear_dtc.                                             *)
LEMMA RejectedKeeps ==
  ASSUME IInv, AtModule("clear"), job.step \in Sends, Rejected
  PROVE  IInv'
<1>1. /\ Finish(Attempted(FALSE, job.before))
      /\ stored' = stored /\ budget' = budget /\ read' = read
  BY DEF Rejected
<1>2. job.before \in SUBSET Codes
  BY Working DEF ClearJob
<1>3. read[Current] = "fresh" => job.before = stored[Current]
  BY DEF IInv, BeforeTrue
<1> HIDE DEF IInv
<1> QED BY <1>1, <1>2, <1>3, Working, AttemptedTyped, FinishKeeps

LEMMA LostKeeps ==
  ASSUME IInv, AtModule("clear"), Lost,
         stored' \in {stored, [stored EXCEPT ![Current] = {}]}
  PROVE  IInv'
<1>1. /\ Finish(Attempted(FALSE, {})) /\ MayMiss /\ Spend("misses")
      /\ read' = [read EXCEPT ![Current] = "lost"]
  BY DEF Lost, Mark
<1>2. /\ stored' \in [Modules -> SUBSET Codes]
      /\ \A m \in Modules : m # Current => stored'[m] = stored[m]
  BY Working
<1>3. budget' \in [commands : 0 .. MaxCommands, misses : 0 .. MaxMisses,
                   faults : 0 .. MaxFaults]
  BY <1>1, SpendTyped DEF IInv
<1>4. "lost" \in Reads /\ "lost" # "fresh"
  BY DEF Reads
<1> QED BY <1>1, <1>2, <1>3, <1>4, Working, AttemptedTyped, FinishKeeps

LEMMA AcceptedKeeps ==
  ASSUME IInv, AtModule("clear"), Accepted
  PROVE  IInv'
<1>1. /\ stored' = [stored EXCEPT ![Current] = {}] /\ budget' = budget /\ read' = read
      /\ job' = [job EXCEPT !.step = "reread"]
      /\ UNCHANGED <<profile, last, nodes, bay, covered>>
  BY DEF Accepted, GoTo, history
<1>2. job' \in ClearJob /\ job'.todo = job.todo /\ job'.step = "reread"
  BY <1>1, Working, MovesOn
<1>3. /\ stored' \in [Modules -> SUBSET Codes]
      /\ \A m \in Modules : m # Current => stored'[m] = stored[m]
  BY <1>1, Working
<1>4. "reread" \notin Sends
  BY DEF Sends
<1> QED BY <1>1, <1>2, <1>3, <1>4, Working, StayKeeps

(* From one request to the next, with what is known of the module.         *)
LEMMA AgainKeeps ==
  ASSUME IInv, AtModule("clear"), job.step \in Sends,
         job' \in ClearJob, job'.todo = job.todo, job'.step \in Sends,
         job'.before = job.before,
         UNCHANGED <<stored, profile, last, nodes, bay, history>>,
         budget' \in [commands : 0 .. MaxCommands, misses : 0 .. MaxMisses,
                      faults : 0 .. MaxFaults]
  PROVE  IInv'
<1>1. /\ job.before # {}
      /\ Current \in DOMAIN last => last[Current].reachable /\ last[Current].dtcs # {}
      /\ read[Current] = "fresh" => job.before = stored[Current]
  BY DEF IInv, OnlyNodesWithCodes, BeforeTrue, Sends
<1>2. read' = read /\ covered' = covered /\ job'.step # "module"
  BY DEF history, Sends
<1> QED BY <1>1, <1>2, Working, StayKeeps

LEMMA NextGroupKeeps ==
  ASSUME IInv, AtModule("clear"), job.step \in Sends, NextGroup
  PROVE  IInv'
<1>1. CASE job.group = 2
  BY <1>1, RejectedKeeps DEF NextGroup
<1>2. CASE job.group # 2
  <2>1. /\ job' = [job EXCEPT !.step = "send", !.group = @ + 1]
        /\ UNCHANGED <<stored, profile, last, nodes, bay, budget, history>>
    BY <1>2 DEF NextGroup
  <2>2. /\ job' \in ClearJob /\ job'.todo = job.todo /\ job'.step = "send"
        /\ job'.before = job.before
    BY <1>2, <2>1, Working, GroupMovesOn
  <2> QED BY <2>1, <2>2, Working, AgainKeeps DEF Sends
<1> QED BY <1>1, <1>2

LEMMA GoToKeeps ==
  ASSUME IInv, AtModule("clear"), job.step \in Sends, NEW step \in Sends, GoTo(step),
         stored' = stored,
         budget' \in [commands : 0 .. MaxCommands, misses : 0 .. MaxMisses,
                      faults : 0 .. MaxFaults]
  PROVE  IInv'
<1>1. /\ job' = [job EXCEPT !.step = step]
      /\ UNCHANGED <<stored, profile, last, nodes, bay, history>>
  BY DEF GoTo
<1>2. /\ job' \in ClearJob /\ job'.todo = job.todo /\ job'.step = step
      /\ job'.before = job.before
  BY <1>1, Working, MovesOn DEF Sends
<1> QED BY <1>1, <1>2, AgainKeeps

LEMMA SendClearKeeps == ASSUME IInv, SendClear PROVE IInv'
<1>1. AtModule("clear") /\ job.step \in Sends
  BY DEF SendClear, Sends
<1>2. CASE Accepted
  BY <1>1, <1>2, AcceptedKeeps
<1>3. CASE GoTo("session") /\ UNCHANGED <<stored, budget>>
  BY <1>1, <1>3, Working, GoToKeeps DEF Sends
<1>4. CASE NextGroup
  BY <1>1, <1>4, NextGroupKeeps
<1>5. CASE Rejected
  BY <1>1, <1>5, RejectedKeeps
<1>6. CASE LostClear
  BY <1>1, <1>6, LostKeeps DEF LostClear
<1> QED BY <1>2, <1>3, <1>4, <1>5, <1>6 DEF SendClear

LEMMA ChangeSessionKeeps == ASSUME IInv, ChangeSession PROVE IInv'
<1>1. AtModule("clear") /\ job.step \in Sends
  BY DEF ChangeSession, Sends
<1>2. CASE GoTo("resend") /\ UNCHANGED <<stored, budget>>
  BY <1>1, <1>2, Working, GoToKeeps DEF Sends
<1>3. CASE GoTo("resend") /\ MayMiss /\ Spend("misses") /\ UNCHANGED stored
  <2>1. budget' \in [commands : 0 .. MaxCommands, misses : 0 .. MaxMisses,
                     faults : 0 .. MaxFaults]
    BY <1>3, SpendTyped DEF IInv
  <2> QED BY <1>1, <1>3, <2>1, GoToKeeps DEF Sends
<1>4. CASE Rejected
  BY <1>1, <1>4, RejectedKeeps
<1>5. CASE Lost /\ UNCHANGED stored
  BY <1>1, <1>5, LostKeeps
<1> QED BY <1>2, <1>3, <1>4, <1>5 DEF ChangeSession

LEMMA ResendClearKeeps == ASSUME IInv, ResendClear PROVE IInv'
<1>1. AtModule("clear") /\ job.step \in Sends
  BY DEF ResendClear, Sends
<1> QED BY <1>1, AcceptedKeeps, NextGroupKeeps, RejectedKeeps, LostKeeps
        DEF ResendClear, LostClear

LEMMA RereadKeeps == ASSUME IInv, Reread PROVE IInv'
<1>1. /\ AtModule("clear") /\ Finish(Attempted(TRUE, stored[Current]))
      /\ read' = [read EXCEPT ![Current] = "fresh"] /\ stored' = stored /\ budget' = budget
  BY DEF Reread, Mark
<1>2. stored[Current] \in SUBSET Codes /\ "fresh" \in Reads
  BY <1>1, Working DEF Reads
<1> QED BY <1>1, <1>2, Working, AttemptedTyped, FinishKeeps

LEMMA RereadMissedKeeps == ASSUME IInv, RereadMissed PROVE IInv'
<1>1. /\ AtModule("clear") /\ Finish(Attempted(TRUE, {}))
      /\ read' = [read EXCEPT ![Current] = "unknown"] /\ stored' = stored
      /\ MayMiss /\ Spend("misses")
  BY DEF RereadMissed, Mark
<1>2. budget' \in [commands : 0 .. MaxCommands, misses : 0 .. MaxMisses,
                   faults : 0 .. MaxFaults]
  BY <1>1, SpendTyped DEF IInv
<1>3. "unknown" \in Reads /\ "unknown" # "fresh"
  BY DEF Reads
<1> QED BY <1>1, <1>2, <1>3, Working, AttemptedTyped, FinishKeeps

(* The rest of a clear.                                                    *)

LEMMA SkipModuleKeeps == ASSUME IInv, SkipModule PROVE IInv'
<1> DEFINE node == [reachable |-> last[Current].reachable, attempted |-> FALSE,
                    cleared |-> FALSE, after |-> {}]
<1>1. /\ AtModule("clear") /\ job.step = "module" /\ Skipped(Current)
      /\ nodes' = Put(nodes, Current, node) /\ job' = NextModule
      /\ UNCHANGED <<stored, profile, last, bay, budget, read, covered>>
  BY DEF SkipModule, history
<1>2. node \in ReportNode /\ ~node.attempted /\ node.after = {}
  BY <1>1 DEF ReportNode, IInv, TypeOK, IsMap, Node, Skipped
<1> HIDE DEF node
<1>3. /\ Tail(job.todo) \in Seq(Modules) /\ ToSet(Tail(job.todo)) \subseteq ToSet(profile)
  BY <1>1, Working, Todo DEF IInv, TodoInProfile, ClearJob
<1>4. /\ job' \in ClearJob /\ job'.todo = Tail(job.todo) /\ job'.step = "module"
  BY <1>1, <1>3, Working, NextModuleTyped
<1>5. job'.cmd = "clear" /\ job' # Idle
  BY <1>4 DEF ClearJob, Idle
<1>6. /\ IsMap(nodes', ReportNode) /\ DOMAIN nodes' = DOMAIN nodes \cup {Current}
      /\ \A n \in DOMAIN nodes' : nodes'[n] = IF n = Current THEN node ELSE nodes[n]
  BY <1>1, <1>2, Working DEF IsMap, Put, IInv, NodesOfCommand
<1>7. \A m : ~AtWork(m) /\ ~AtWork(m)'
  BY <1>1, <1>4 DEF AtWork
(* The list is true of the module that it lets the clear leave out.        *)
<1>8. read[Current] = "fresh" => stored[Current] = {}
  BY <1>1, <1>7, Working DEF IInv, ListTrue, Fresh, AsStored, Skipped
<1>9. TypeOK'
  BY <1>1, <1>4, <1>6 DEF IInv, TypeOK, IsMap
<1>10. TodoInProfile'
  BY <1>1, <1>3, <1>4 DEF TodoInProfile
<1>11. NodesOfCommand'
  BY <1>2, <1>5, <1>6, <1>1, Working DEF NodesOfCommand, IInv
<1>12. ScanTrue' /\ BeforeTrue' /\ OnlyNodesWithCodes'
  BY <1>4, <1>5 DEF ScanTrue, BeforeTrue, OnlyNodesWithCodes, Sends
<1>13. ListTrue'
  BY <1>1, <1>7, Working DEF ListTrue, IInv, Fresh, AsStored
<1>14. ReportTrue'
  BY <1>1, <1>2, <1>6, <1>7, <1>8, Working DEF ReportTrue, IInv, Fresh
<1>15. BayTrue'
  <2> SUFFICES ASSUME NEW m \in Fresh', m \in covered'
               PROVE  Shown(m)' \/ (m \in DOMAIN nodes' /\ nodes'[m].attempted)
    BY <1>5 DEF BayTrue
  <2>1. CASE m = Current
    BY <2>1, <1>1, <1>8 DEF Fresh, Shown
  <2>2. CASE m # Current
    BY <2>2, <1>1, <1>6, <1>7, Working DEF IInv, BayTrue, Fresh, Shown
  <2> QED BY <2>1, <2>2
<1> QED BY <1>9, <1>10, <1>11, <1>12, <1>13, <1>14, <1>15 DEF IInv

(* What holds between two commands.                                        *)
LEMMA BetweenCommands ==
  ASSUME TypeOK, job = Idle
  PROVE  /\ job.cmd # "scan" /\ job.cmd # "clear"
         /\ TodoInProfile /\ NodesOfCommand /\ ScanTrue /\ BeforeTrue /\ ReportTrue
         /\ OnlyNodesWithCodes
         /\ \A m : ~AtWork(m)
BY DEF Idle, TodoInProfile, NodesOfCommand, ScanTrue, BeforeTrue, ReportTrue,
       OnlyNodesWithCodes, AtWork, AtModule

LEMMA IdentifyKeeps ==
  ASSUME IInv, NEW p \in Profiles, NEW connect \in BOOLEAN, Identify(p, connect)
  PROVE  IInv'
<1>1. /\ job = Idle /\ job' = Idle /\ profile' = p
      /\ last' = last \/ last' = NoModules
      /\ UNCHANGED <<stored, nodes, bay, read, covered>>
  BY DEF Identify, MayCommand, history
<1>2. TypeOK'
  <2>1. budget' \in [commands : 0 .. MaxCommands, misses : 0 .. MaxMisses,
                     faults : 0 .. MaxFaults]
    BY SpendTyped DEF Identify, MayCommand, IInv
  <2> QED BY <1>1, <2>1 DEF IInv, TypeOK, IsMap, NoModules
<1>3. /\ TodoInProfile' /\ NodesOfCommand' /\ ScanTrue' /\ BeforeTrue' /\ ReportTrue'
      /\ OnlyNodesWithCodes' /\ \A m : ~AtWork(m)'
  BY <1>1 DEF Idle, TodoInProfile, NodesOfCommand, ScanTrue, BeforeTrue, ReportTrue,
       OnlyNodesWithCodes, AtWork, AtModule
<1>4. ListTrue'
  BY <1>1, BetweenCommands DEF IInv, ListTrue, Fresh, AsStored, NoModules
<1>5. BayTrue'
  BY <1>1, BetweenCommands DEF IInv, BayTrue, Fresh, Shown
<1> QED BY <1>2, <1>3, <1>4, <1>5 DEF IInv

LEMMA ClearKeeps == ASSUME IInv, Clear PROVE IInv'
<1>1. /\ job = Idle /\ nodes' = NoModules
      /\ job' = [cmd |-> "clear", todo |-> profile, step |-> "module", group |-> 1,
                 before |-> {}, misses |-> budget.misses]
      /\ UNCHANGED <<stored, profile, last, bay, read, covered>>
  BY DEF Clear, MayCommand, history
<1>2. job' \in ClearJob /\ job'.todo = profile /\ job'.step = "module" /\ job'.cmd = "clear"
  <2>1. profile \in Seq(Modules) /\ budget.misses \in 0 .. MaxMisses
    BY ProfileTyped DEF IInv, TypeOK
  <2> QED BY <1>1, <2>1 DEF ClearJob
<1>3. TypeOK'
  <2>1. budget' \in [commands : 0 .. MaxCommands, misses : 0 .. MaxMisses,
                     faults : 0 .. MaxFaults]
    BY SpendTyped DEF Clear, MayCommand, IInv
  <2> QED BY <1>1, <1>2, <2>1 DEF IInv, TypeOK, IsMap, NoModules
<1>4. \A m : ~AtWork(m)'
  BY <1>2 DEF AtWork
<1>5. TodoInProfile' /\ NodesOfCommand' /\ ScanTrue' /\ BeforeTrue' /\ OnlyNodesWithCodes'
  BY <1>1, <1>2 DEF TodoInProfile, NodesOfCommand, ScanTrue, BeforeTrue, Sends,
       OnlyNodesWithCodes, AtModule, IsMap, NoModules
<1>6. ReportTrue'
  BY <1>1 DEF ReportTrue, NoModules
<1>7. ListTrue'
  BY <1>1, BetweenCommands DEF IInv, ListTrue, Fresh, AsStored
<1>8. BayTrue'
  BY <1>1, BetweenCommands DEF IInv, BayTrue, Fresh, Shown
<1> QED BY <1>3, <1>5, <1>6, <1>7, <1>8 DEF IInv

LEMMA ClearDoneKeeps ==
  ASSUME IInv, NEW delivered \in BOOLEAN, ClearDone(delivered)
  PROVE  IInv'
<1>1. /\ job.cmd = "clear" /\ job.todo = <<>> /\ job' = Idle
      /\ UNCHANGED <<stored, profile, last, nodes, budget, read>>
      /\ \/ bay' = AppliedClear /\ covered' = DOMAIN nodes
         \/ covered' = {} /\ bay' = bay
  BY DEF ClearDone, AllProcessed
<1>2. \A m : ~AtWork(m) /\ ~AtWork(m)'
  BY <1>1 DEF AtWork, Idle
<1>3. /\ IsMap(nodes, ReportNode)
      /\ \A m \in DOMAIN nodes : ~nodes[m].attempted => nodes[m].after = {}
  BY <1>1 DEF IInv, NodesOfCommand
<1>4. /\ AppliedClear.active \subseteq Codes
      /\ IsMap(AppliedClear.modules, Node)
      /\ \A m \in DOMAIN nodes : nodes[m].after \subseteq AppliedClear.active
      /\ \A m \in DOMAIN nodes \cap DOMAIN AppliedClear.modules :
           nodes[m].after \subseteq AppliedClear.modules[m].dtcs
  <2>1. AppliedClear.active = UNION {nodes[m].after : m \in DOMAIN nodes}
    BY DEF AppliedClear, AfterClear
  <2>2. /\ DOMAIN AppliedClear.modules = DOMAIN bay.modules
        /\ \A m \in DOMAIN bay.modules :
             m \notin DOMAIN nodes => AppliedClear.modules[m] = bay.modules[m]
        /\ \A m \in DOMAIN bay.modules \cap DOMAIN nodes : nodes[m].attempted =>
             AppliedClear.modules[m].dtcs = nodes[m].after
    BY DEF AppliedClear
  <2>3. ASSUME NEW m \in DOMAIN bay.modules
        PROVE  AppliedClear.modules[m] \in Node
    <3>1. bay.modules[m] \in Node
      BY DEF IInv, TypeOK, IsMap
    <3>2. CASE m \notin DOMAIN nodes
      BY <2>2, <3>1, <3>2
    <3>3. CASE m \in DOMAIN nodes
      <4>1. nodes[m] \in ReportNode
        BY <1>3, <3>3 DEF IsMap
      <4>2. /\ (nodes[m].reachable \/ bay.modules[m].reachable) \in BOOLEAN
            /\ nodes[m].after \in SUBSET Codes /\ bay.modules[m].dtcs \in SUBSET Codes
        BY <3>1, <4>1 DEF Node, ReportNode
      <4>3. PICK reachable \in BOOLEAN, codes \in SUBSET Codes :
              AppliedClear.modules[m] = [reachable |-> reachable, dtcs |-> codes]
        <5>1. CASE nodes[m].attempted
          <6>1. AppliedClear.modules[m] =
                  [reachable |-> nodes[m].reachable \/ bay.modules[m].reachable,
                   dtcs |-> nodes[m].after]
            BY <3>3, <5>1 DEF AppliedClear
          <6> QED BY <4>2, <6>1
        <5>2. CASE ~nodes[m].attempted
          <6>1. AppliedClear.modules[m] =
                  [reachable |-> nodes[m].reachable \/ bay.modules[m].reachable,
                   dtcs |-> bay.modules[m].dtcs]
            BY <3>3, <5>2 DEF AppliedClear
          <6> QED BY <4>2, <6>1
        <5> QED BY <5>1, <5>2
      <4> QED BY <4>3 DEF Node
    <3> QED BY <3>2, <3>3
  <2>4. IsMap(AppliedClear.modules, Node)
    BY <2>2, <2>3 DEF IInv, TypeOK, IsMap
  <2>5. \A m \in DOMAIN nodes : nodes[m].after \in SUBSET Codes
    BY <1>3 DEF IsMap, ReportNode
  <2>6. ASSUME NEW m \in DOMAIN nodes, m \in DOMAIN AppliedClear.modules
        PROVE  nodes[m].after \subseteq AppliedClear.modules[m].dtcs
    <3>1. CASE nodes[m].attempted
      BY <2>2, <2>6, <3>1
    <3>2. CASE ~nodes[m].attempted
      BY <1>3, <3>2
    <3> QED BY <3>1, <3>2
  <2> QED BY <2>1, <2>4, <2>5, <2>6
<1>5. TypeOK'
  <2>1. IsMap(bay'.modules, Node) /\ bay'.active \subseteq Codes
    BY <1>1, <1>4 DEF IInv, TypeOK
  <2>2. covered' \subseteq Modules
    BY <1>1, <1>3 DEF IsMap
  <2> QED BY <1>1, <2>1, <2>2 DEF IInv, TypeOK, IsMap
<1>6. /\ TodoInProfile' /\ NodesOfCommand' /\ ScanTrue' /\ BeforeTrue' /\ ReportTrue'
      /\ OnlyNodesWithCodes'
  BY <1>1 DEF Idle, TodoInProfile, NodesOfCommand, ScanTrue, BeforeTrue, ReportTrue,
       OnlyNodesWithCodes, AtModule
<1>7. ListTrue'
  BY <1>1, <1>2 DEF IInv, ListTrue, Fresh, AsStored
<1>8. BayTrue'
  <2> SUFFICES ASSUME NEW m \in Fresh', m \in covered'
               PROVE  Shown(m)'
    BY DEF BayTrue
  <2>1. bay' = AppliedClear /\ m \in DOMAIN nodes /\ m \in Fresh
    BY <1>1 DEF Fresh
  <2>2. stored[m] \subseteq nodes[m].after
    BY <1>1, <1>2, <2>1 DEF IInv, ReportTrue
  <2> QED BY <1>1, <1>4, <2>1, <2>2 DEF Shown
<1> QED BY <1>5, <1>6, <1>7, <1>8 DEF IInv

LEMMA ClearRefusedKeeps == ASSUME IInv, ClearRefused PROVE IInv'
<1>1. /\ job.cmd = "clear" /\ job.todo = <<>> /\ job' = Idle
      /\ \A m \in DOMAIN nodes : ~nodes[m].attempted
      /\ UNCHANGED <<stored, profile, last, nodes, bay, budget, read, covered>>
  BY DEF ClearRefused, AllProcessed, AnyAttempted, history
<1>2. \A m : ~AtWork(m)
  BY <1>1 DEF AtWork
<1>3. TypeOK'
  BY <1>1 DEF IInv, TypeOK, IsMap
<1>4. /\ TodoInProfile' /\ NodesOfCommand' /\ ScanTrue' /\ BeforeTrue' /\ ReportTrue'
      /\ OnlyNodesWithCodes'
  BY <1>1 DEF Idle, TodoInProfile, NodesOfCommand, ScanTrue, BeforeTrue, ReportTrue,
       OnlyNodesWithCodes, AtModule
<1>5. ListTrue'
  BY <1>1, <1>2 DEF IInv, ListTrue, Fresh, AsStored
<1>6. BayTrue'
  BY <1>1, <1>2 DEF IInv, BayTrue, Fresh, Shown
<1> QED BY <1>3, <1>4, <1>5, <1>6 DEF IInv

-----------------------------------------------------------------------------
(* Scan.                                                                   *)

LEMMA ScanKeeps == ASSUME IInv, NEW p \in Profiles, Scan(p) PROVE IInv'
<1>1. /\ job = Idle /\ nodes' = NoModules /\ profile' = p
      /\ job' = [cmd |-> "scan", todo |-> p, upgraded |-> FALSE]
      /\ UNCHANGED <<stored, last, bay, read, covered>>
  BY DEF Scan, MayCommand, history
<1>2. job' \in ScanJob /\ job'.cmd = "scan" /\ job'.todo = p
  BY <1>1, ProfileTyped DEF ScanJob
<1>3. TypeOK'
  <2>1. budget' \in [commands : 0 .. MaxCommands, misses : 0 .. MaxMisses,
                     faults : 0 .. MaxFaults]
    BY SpendTyped DEF Scan, MayCommand, IInv
  <2> QED BY <1>1, <1>2, <2>1 DEF IInv, TypeOK, IsMap, NoModules
<1>4. TodoInProfile' /\ NodesOfCommand' /\ ScanTrue'
  BY <1>1, <1>2 DEF TodoInProfile, NodesOfCommand, ScanTrue, IsMap, NoModules
<1>5. BeforeTrue' /\ ReportTrue' /\ OnlyNodesWithCodes' /\ BayTrue'
  BY <1>2 DEF BeforeTrue, ReportTrue, OnlyNodesWithCodes, BayTrue, AtModule
<1>6. ListTrue'
  BY <1>1, BetweenCommands DEF IInv, ListTrue, Fresh, AsStored
<1> QED BY <1>3, <1>4, <1>5, <1>6 DEF IInv

(* The scan has asked one more module.                                     *)
LEMMA ProbedKeeps ==
  ASSUME IInv, AtModule("scan"), NEW node \in Node, Probed(node),
         stored' = stored,
         budget' \in [commands : 0 .. MaxCommands, misses : 0 .. MaxMisses,
                      faults : 0 .. MaxFaults],
         NEW how \in Reads, Mark(Current, how),
         how = "fresh" => node = AsStored(Current)
  PROVE  IInv'
<1>1. job \in ScanJob /\ job.todo # <<>> /\ job.cmd = "scan"
  BY ScanningTyped DEF IInv, AtModule
<1>2. /\ Current \in Modules /\ Current \in ToSet(profile)
      /\ Tail(job.todo) \in Seq(Modules)
      /\ ToSet(Tail(job.todo)) \subseteq ToSet(profile)
  BY <1>1, Todo DEF Current, IInv, TodoInProfile, ScanJob, Idle
<1>3. /\ nodes' = Put(nodes, Current, node) /\ job' = [job EXCEPT !.todo = Tail(@)]
      /\ UNCHANGED <<profile, last, bay, covered>>
  BY DEF Probed
<1>4. job' \in ScanJob /\ job'.todo = Tail(job.todo) /\ job'.cmd = "scan"
  BY <1>1, <1>2, <1>3 DEF ScanJob
<1>5. /\ IsMap(nodes', Node) /\ DOMAIN nodes' = DOMAIN nodes \cup {Current}
      /\ \A n \in DOMAIN nodes' : nodes'[n] = IF n = Current THEN node ELSE nodes[n]
  BY <1>1, <1>2, <1>3 DEF IsMap, Put, IInv, NodesOfCommand
<1>6. /\ read' \in [Modules -> Reads] /\ read'[Current] = how
      /\ \A m \in Modules : m # Current => read'[m] = read[m]
  BY <1>2 DEF IInv, TypeOK, Mark
<1>7. TypeOK'
  BY <1>3, <1>4, <1>5, <1>6 DEF IInv, TypeOK, IsMap
<1>8. TodoInProfile' /\ NodesOfCommand'
  BY <1>2, <1>3, <1>4, <1>5 DEF TodoInProfile, NodesOfCommand
<1>9. ScanTrue'
  <2> SUFFICES ASSUME NEW m \in DOMAIN nodes', m \in Fresh'
               PROVE  nodes'[m] = [reachable |-> TRUE, dtcs |-> stored[m]]
    BY DEF ScanTrue, AsStored
  <2>1. CASE m = Current
    BY <2>1, <1>2, <1>5, <1>6 DEF Fresh, AsStored
  <2>2. CASE m # Current
    BY <2>2, <1>1, <1>5, <1>6 DEF Fresh, AsStored, IInv, ScanTrue
  <2> QED BY <2>1, <2>2
<1>10. BeforeTrue' /\ ReportTrue' /\ OnlyNodesWithCodes' /\ BayTrue'
  BY <1>4 DEF BeforeTrue, ReportTrue, OnlyNodesWithCodes, BayTrue, AtModule
<1>11. ListTrue'
  <2> SUFFICES ASSUME NEW m \in DOMAIN last', m \in Fresh', m \notin ToSet(profile)
               PROVE  last'[m] = [reachable |-> TRUE, dtcs |-> stored[m]]
    BY <1>3, <1>4 DEF ListTrue, AsStored
  <2> QED BY <1>1, <1>2, <1>3, <1>6 DEF Fresh, AsStored, IInv, ListTrue, AtWork
<1> QED BY <1>7, <1>8, <1>9, <1>10, <1>11 DEF IInv

LEMMA ProbeAnsweredKeeps == ASSUME IInv, ProbeAnswered PROVE IInv'
<1>1. /\ AtModule("scan") /\ Probed(AsStored(Current)) /\ Mark(Current, "fresh")
      /\ stored' = stored /\ budget' = budget
  BY DEF ProbeAnswered, AsStored, Probed
<1>2. Current \in Modules
  BY <1>1, ScanningTyped, Todo DEF Current, IInv, AtModule, ScanJob
<1>3. AsStored(Current) \in Node
  BY <1>2 DEF AsStored, Node, IInv, TypeOK
<1>4. budget \in [commands : 0 .. MaxCommands, misses : 0 .. MaxMisses,
                  faults : 0 .. MaxFaults]
  BY DEF IInv, TypeOK
<1> QED BY <1>1, <1>3, <1>4, ProbedKeeps DEF Reads

LEMMA ProbeMissedKeeps == ASSUME IInv, ProbeMissed PROVE IInv'
<1>1. PICK reachable \in BOOLEAN : Probed([reachable |-> reachable, dtcs |-> {}])
  BY DEF ProbeMissed
<1>2. /\ AtModule("scan") /\ Mark(Current, "unknown") /\ MayMiss /\ Spend("misses")
      /\ stored' = stored
  BY <1>1 DEF ProbeMissed, Probed
<1>3. [reachable |-> reachable, dtcs |-> {}] \in Node
  BY DEF Node
<1>4. budget' \in [commands : 0 .. MaxCommands, misses : 0 .. MaxMisses,
                   faults : 0 .. MaxFaults]
  BY <1>2, SpendTyped DEF IInv
<1>5. "unknown" \in Reads /\ "unknown" # "fresh"
  BY DEF Reads
<1> QED BY <1>1, <1>2, <1>3, <1>4, <1>5, ProbedKeeps

LEMMA MarkAllTyped ==
  ASSUME TypeOK, MarkAll("unknown")
  PROVE  /\ read' \in [Modules -> Reads]
         /\ \A m \in Modules :
              read'[m] = IF m \in ToSet(profile) THEN "unknown" ELSE read[m]
BY DEF MarkAll, TypeOK, Reads

LEMMA UpgradeProfileKeeps ==
  ASSUME IInv, NEW p \in Profiles, UpgradeProfile(p)
  PROVE  IInv'
<1>1. /\ job.cmd = "scan" /\ profile' = p /\ nodes' = NoModules
      /\ job' = [job EXCEPT !.todo = p, !.upgraded = TRUE]
      /\ MarkAll("unknown")
      /\ UNCHANGED <<stored, last, bay, budget, covered>>
  BY DEF UpgradeProfile
<1>2. job' \in ScanJob /\ job'.cmd = "scan" /\ job'.todo = p
  BY <1>1, ScanningTyped, ProfileTyped DEF ScanJob, IInv
<1>3. TypeOK'
  BY <1>1, <1>2, MarkAllTyped DEF IInv, TypeOK, IsMap, NoModules
<1>4. TodoInProfile' /\ NodesOfCommand' /\ ScanTrue'
  BY <1>1, <1>2 DEF TodoInProfile, NodesOfCommand, ScanTrue, IsMap, NoModules
<1>5. BeforeTrue' /\ ReportTrue' /\ OnlyNodesWithCodes' /\ BayTrue'
  BY <1>2 DEF BeforeTrue, ReportTrue, OnlyNodesWithCodes, BayTrue, AtModule
<1>6. ListTrue'
  BY <1>1, <1>2, MarkAllTyped DEF IInv, ListTrue, Fresh, AsStored, AtWork
<1> QED BY <1>3, <1>4, <1>5, <1>6 DEF IInv

LEMMA ScanDoneKeeps ==
  ASSUME IInv, NEW delivered \in BOOLEAN, ScanDone(delivered)
  PROVE  IInv'
<1>1. /\ job.cmd = "scan" /\ job' = Idle /\ last' = nodes
      /\ UNCHANGED <<stored, profile, nodes, budget, read>>
      /\ \/ /\ bay' = [modules |-> nodes,
                       active |-> UNION {nodes[m].dtcs : m \in DOMAIN nodes}]
            /\ covered' = DOMAIN nodes
         \/ covered' = {} /\ bay' = bay
  BY DEF ScanDone
<1>2. /\ IsMap(nodes, Node)
      /\ \A m \in DOMAIN nodes \cap Fresh : nodes[m] = AsStored(m)
  BY <1>1 DEF IInv, NodesOfCommand, ScanTrue
<1>3. TypeOK'
  <2>1. IsMap(bay'.modules, Node) /\ bay'.active \subseteq Codes
    BY <1>1, <1>2 DEF IInv, TypeOK, IsMap, Node
  <2>2. covered' \subseteq Modules
    BY <1>1, <1>2 DEF IsMap
  <2> QED BY <1>1, <1>2, <2>1, <2>2 DEF IInv, TypeOK, IsMap
<1>4. /\ TodoInProfile' /\ NodesOfCommand' /\ ScanTrue' /\ BeforeTrue' /\ ReportTrue'
      /\ OnlyNodesWithCodes'
  BY <1>1 DEF Idle, TodoInProfile, NodesOfCommand, ScanTrue, BeforeTrue, ReportTrue,
       OnlyNodesWithCodes, AtModule
<1>5. ListTrue'
  BY <1>1, <1>2 DEF ListTrue, Fresh, AsStored
<1>6. BayTrue'
  <2> SUFFICES ASSUME NEW m \in Fresh', m \in covered'
               PROVE  Shown(m)'
    BY DEF BayTrue
  <2>1. /\ bay' = [modules |-> nodes,
                   active |-> UNION {nodes[n].dtcs : n \in DOMAIN nodes}]
        /\ m \in DOMAIN nodes /\ m \in Fresh
    BY <1>1 DEF Fresh
  <2>2. nodes[m].dtcs = stored[m]
    BY <1>2, <2>1 DEF AsStored
  <2> QED BY <1>1, <2>1, <2>2 DEF Shown
<1> QED BY <1>3, <1>4, <1>5, <1>6 DEF IInv

-----------------------------------------------------------------------------
LEMMA AbortKeeps == ASSUME IInv, Abort PROVE IInv'
<1>1. /\ job # Idle /\ job' = Idle /\ MayMiss /\ Spend("misses") /\ MarkAll("unknown")
      /\ covered' = {}
      /\ UNCHANGED <<stored, profile, last, nodes, bay>>
  BY DEF Abort
<1>2. budget' \in [commands : 0 .. MaxCommands, misses : 0 .. MaxMisses,
                   faults : 0 .. MaxFaults]
  BY <1>1, SpendTyped DEF IInv
<1>3. TypeOK'
  BY <1>1, <1>2, MarkAllTyped DEF IInv, TypeOK, IsMap
<1>4. /\ TodoInProfile' /\ NodesOfCommand' /\ ScanTrue' /\ BeforeTrue' /\ ReportTrue'
      /\ OnlyNodesWithCodes' /\ BayTrue'
  BY <1>1 DEF Idle, TodoInProfile, NodesOfCommand, ScanTrue, BeforeTrue, ReportTrue,
       OnlyNodesWithCodes, AtModule, BayTrue
<1>5. ListTrue'
  <2> SUFFICES ASSUME NEW m \in DOMAIN last, m \in Fresh'
               PROVE  last[m] = [reachable |-> TRUE, dtcs |-> stored[m]]
    BY <1>1 DEF ListTrue, AsStored
  <2>1. m \in Fresh /\ m \notin ToSet(profile)
    BY <1>1, MarkAllTyped DEF Fresh, IInv
  <2>2. AtWork(m) => m \in ToSet(profile)
    BY Working DEF AtWork, AtModule
  <2> QED BY <2>1, <2>2 DEF IInv, ListTrue, AsStored
<1> QED BY <1>3, <1>4, <1>5 DEF IInv

LEMMA CarChangesKeeps ==
  ASSUME IInv, NEW m \in Modules, NEW codes \in SUBSET Codes, CarChanges(m, codes)
  PROVE  IInv'
<1>1. /\ stored' = [stored EXCEPT ![m] = codes] /\ read' = [read EXCEPT ![m] = "unknown"]
      /\ UNCHANGED <<profile, last, job, nodes, bay, covered>>
  BY DEF CarChanges, Mark
<1>2. budget' \in [commands : 0 .. MaxCommands, misses : 0 .. MaxMisses,
                   faults : 0 .. MaxFaults]
  BY SpendTyped DEF CarChanges, IInv
<1>3. /\ stored' \in [Modules -> SUBSET Codes] /\ read' \in [Modules -> Reads]
      /\ \A n \in Fresh' : n \in Fresh /\ stored'[n] = stored[n]
  BY <1>1 DEF IInv, TypeOK, Fresh, Reads
<1>4. TypeOK'
  BY <1>1, <1>2, <1>3 DEF IInv, TypeOK, IsMap
<1>5. TodoInProfile' /\ NodesOfCommand' /\ OnlyNodesWithCodes'
  BY <1>1 DEF IInv, TodoInProfile, NodesOfCommand, IsMap, OnlyNodesWithCodes, AtModule,
       Current
<1>6. ScanTrue'
  BY <1>1, <1>3 DEF IInv, ScanTrue, AsStored
<1>7. ListTrue'
  BY <1>1, <1>3 DEF IInv, ListTrue, AsStored, AtWork, Current
<1>8. ReportTrue'
  BY <1>1, <1>3 DEF IInv, ReportTrue, AtWork, Current
<1>9. BayTrue'
  BY <1>1, <1>3 DEF IInv, BayTrue, Shown, AtWork, Current
<1>10. BeforeTrue'
  <2> SUFFICES ASSUME AtModule("clear")', job'.step \in Sends, read'[Current'] = "fresh"
               PROVE  job'.before = stored'[Current']
    BY DEF BeforeTrue
  <2>1. AtModule("clear") /\ Current' = Current
    BY <1>1 DEF AtModule, Current
  <2>2. Current \in Modules
    BY <2>1, Working
  <2>3. Current \in Fresh'
    BY <2>1, <2>2 DEF Fresh
  <2> QED BY <1>1, <1>3, <2>1, <2>3 DEF IInv, BeforeTrue, Fresh
<1> QED BY <1>4, <1>5, <1>6, <1>7, <1>8, <1>9, <1>10 DEF IInv

-----------------------------------------------------------------------------
LEMMA InitInductive == Init => IInv
<1> SUFFICES ASSUME Init PROVE IInv
  OBVIOUS
<1>1. /\ job = Idle /\ last = NoModules /\ covered = {}
  BY DEF Init
<1>2. TypeOK
  BY BoundsAssumption DEF Init, TypeOK, IsMap, NoModules, Reads
<1>3. ListTrue /\ BayTrue
  BY <1>1 DEF ListTrue, BayTrue, NoModules
<1> QED BY <1>1, <1>2, <1>3, BetweenCommands DEF IInv

LEMMA NextInductive == IInv /\ [Next]_vars => IInv'
<1> SUFFICES ASSUME IInv, [Next]_vars PROVE IInv'
  OBVIOUS
<1>1. CASE WorkerStep
  BY <1>1, ProbeAnsweredKeeps, ProbeMissedKeeps, UpgradeProfileKeeps, ScanDoneKeeps,
     ClearDoneKeeps, SkipModuleKeeps, ReadBeforeKeeps, ReadBeforeMissedKeeps,
     SendClearKeeps, ChangeSessionKeeps, ResendClearKeeps, RereadKeeps,
     RereadMissedKeeps, ClearRefusedKeeps, AbortKeeps
  DEF WorkerStep
<1>2. CASE \E p \in Profiles : Scan(p) \/ Identify(p, TRUE) \/ Identify(p, FALSE)
  BY <1>2, ScanKeeps, IdentifyKeeps
<1>3. CASE Clear
  BY <1>3, ClearKeeps
<1>4. CASE \E m \in Modules, codes \in SUBSET Codes : CarChanges(m, codes)
  BY <1>4, CarChangesKeeps
<1>5. CASE UNCHANGED vars
  BY <1>5 DEF vars, history, IInv, TypeOK, IsMap, TodoInProfile, NodesOfCommand,
     ScanTrue, ListTrue, BeforeTrue, ReportTrue, BayTrue, OnlyNodesWithCodes, AtModule,
     AtWork, Current, Fresh, AsStored, Shown
<1> QED BY <1>1, <1>2, <1>3, <1>4, <1>5 DEF Next

LEMMA Inductive == Spec => []IInv
BY InitInductive, NextInductive, PTL DEF Spec

(* The types and bounds hold of the session, the bay and their bookkeeping.*)
THEOREM TypeCorrect == Spec => []TypeOK
<1>1. IInv => TypeOK
  BY DEF IInv
<1> QED BY <1>1, Inductive, PTL

(* No $14 and no $10 goes to a module that has not just answered with      *)
(* codes, or that the last scan found dark or clean                        *)
(* (DiagnosticSession.clear_dtcs).                                         *)
THEOREM DarkNodesNotAddressed == Spec => []OnlyNodesWithCodes
<1>1. IInv => OnlyNodesWithCodes
  BY DEF IInv
<1> QED BY <1>1, Inductive, PTL

(* Between commands _last_modules is what the modules have stored, as far  *)
(* as an exchange that went well can know.                                 *)
THEOREM LastModulesTrue == Spec => []ListIsTrue
<1>1. IInv => ListIsTrue
  BY BetweenCommands DEF IInv, ListIsTrue, ListTrue, AsStored
<1> QED BY <1>1, Inductive, PTL

(* The bay shows every code that such an exchange has seen, however many   *)
(* clears were refused, half done or repeated (applyClearToScan).          *)
THEOREM BayHidesNoCode == Spec => []NoCodeHidden
<1>1. IInv => NoCodeHidden
  BY BetweenCommands DEF IInv, NoCodeHidden, BayTrue, Shown
<1> QED BY <1>1, Inductive, PTL
=============================================================================
