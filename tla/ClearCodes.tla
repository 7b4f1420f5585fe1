------------------------------ MODULE ClearCodes ------------------------------
(***************************************************************************)
(* CLEAR CODES: the worker's DiagnosticSession reads the codes of the      *)
(* modules of the car's profile (UDS $19) and clears the ones that have    *)
(* some (UDS $14), over a bus that loses and garbles frames; the bay shows *)
(* what the worker reports.  One bay drives the worker, which runs the     *)
(* commands of a socket one after the other (ipc.handle).                  *)
(*                                                                         *)
(* Every exchange with a module is one step.  A module answers a $14 or a  *)
(* $10 as it likes: what it accepts depends on the ignition, the engine    *)
(* and the diagnostic session it is in.                                    *)
(***************************************************************************)
EXTENDS Naturals, Sequences, SequencesExt

CONSTANTS
  Modules,      \* the car's modules
  Codes,        \* trouble codes
  Profiles,     \* module lists that the VIN and the hints can select
  MaxCommands,  \* bound: commands of the bay
  MaxMisses,    \* bound: exchanges that go wrong
  MaxFaults     \* bound: times the car sets or heals a code

ASSUME ProfilesAssumption == Profiles \subseteq Seq(Modules)
ASSUME BoundsAssumption == {MaxCommands, MaxMisses, MaxFaults} \subseteq Nat

VARIABLES
  stored,    \* the codes each module has stored
  profile,   \* DiagnosticSession.profile
  last,      \* DiagnosticSession._last_modules, by module
  job,       \* the command the worker is running
  nodes,     \* what the command has found out, by module
  bay,       \* the bay's scan: its modules and its active_codes
  budget,    \* commands, misses and faults so far
  read,      \* history: how the last exchange with each module went
  covered    \* history: the modules that the bay's last result spoke of

history == <<read, covered>>
vars == <<stored, profile, last, job, nodes, bay, budget, history>>

NoModules == [m \in {} |-> {}]

(* "fresh": it answered a $19, nothing went wrong after that, and its      *)
(* codes did not change by themselves; "lost": it answered a $19, and the  *)
(* answer to the $14 or $10 that followed was lost.                        *)
Reads == {"fresh", "lost", "unknown"}

IsMap(f, range) == DOMAIN f \subseteq Modules /\ \A m \in DOMAIN f : f[m] \in range

Node == [reachable : BOOLEAN, dtcs : SUBSET Codes]

(* One entry of the clear report, without its texts.                       *)
ReportNode == [reachable : BOOLEAN, attempted : BOOLEAN, cleared : BOOLEAN,
               after : SUBSET Codes]

Idle == [cmd |-> "idle"]
ScanJob == [cmd : {"scan"}, todo : Seq(Modules), upgraded : BOOLEAN]
ClearJob == [cmd : {"clear"}, todo : Seq(Modules),
             step : {"module", "send", "session", "resend", "reread"},
             group : 1 .. 2, before : SUBSET Codes, misses : 0 .. MaxMisses]

TypeOK ==
  /\ stored \in [Modules -> SUBSET Codes]
  /\ profile \in Profiles
  /\ IsMap(last, Node)
  /\ job \in ScanJob \cup ClearJob \cup {Idle}
  /\ IsMap(nodes, Node \cup ReportNode)
  /\ IsMap(bay.modules, Node)
  /\ bay.active \subseteq Codes
  /\ budget \in [commands : 0 .. MaxCommands, misses : 0 .. MaxMisses,
                 faults : 0 .. MaxFaults]
  /\ read \in [Modules -> Reads]
  /\ covered \subseteq Modules

Put(f, m, value) == [n \in DOMAIN f \cup {m} |-> IF n = m THEN value ELSE f[n]]

Spend(what) == budget' = [budget EXCEPT ![what] = @ + 1]
MayMiss == budget.misses < MaxMisses
MayCommand == job = Idle /\ budget.commands < MaxCommands

Current == Head(job.todo)
Mark(m, how) == read' = [read EXCEPT ![m] = how]
MarkAll(how) == read' = [m \in Modules |-> IF m \in ToSet(profile) THEN how ELSE read[m]]
Fresh == {m \in Modules : read[m] = "fresh"}
AtModule(cmd) == job.cmd = cmd /\ job.todo # <<>>

-----------------------------------------------------------------------------
Init ==
  /\ stored \in [Modules -> SUBSET Codes]
  /\ profile \in Profiles
  /\ last = NoModules
  /\ job = Idle
  /\ nodes = NoModules
  /\ bay = [modules |-> NoModules, active |-> {}]
  /\ budget = [commands |-> 0, misses |-> 0, faults |-> 0]
  /\ read = [m \in Modules |-> "unknown"]
  /\ covered = {}

(* The VIN read (connect, or READ VIN) selects a profile from the VIN      *)
(* alone; connecting also starts a new DiagnosticSession.  The bay keeps   *)
(* its scan of this car either way.                                        *)
Identify(p, connect) ==
  /\ MayCommand
  /\ Spend("commands")
  /\ profile' = p
  /\ last' = IF connect THEN NoModules ELSE last
  /\ UNCHANGED <<stored, job, nodes, bay, history>>

-----------------------------------------------------------------------------
(* Scan.                                                                   *)

Scan(p) ==
  /\ MayCommand
  /\ Spend("commands")
  /\ profile' = p
  /\ job' = [cmd |-> "scan", todo |-> p, upgraded |-> FALSE]
  /\ nodes' = NoModules
  /\ UNCHANGED <<stored, last, bay, history>>

Probed(node) ==
  /\ nodes' = Put(nodes, Current, node)
  /\ job' = [job EXCEPT !.todo = Tail(@)]
  /\ UNCHANGED <<stored, profile, last, bay, covered>>

ProbeAnswered ==
  /\ AtModule("scan")
  /\ Probed([reachable |-> TRUE, dtcs |-> stored[Current]])
  /\ Mark(Current, "fresh")
  /\ UNCHANGED budget

(* A negative response still proves that the node is there; a timeout or a *)
(* garbled answer leaves it dark.                                          *)
ProbeMissed ==
  /\ AtModule("scan")
  /\ MayMiss
  /\ Spend("misses")
  /\ \E reachable \in BOOLEAN :
       Probed([reachable |-> reachable, dtcs |-> {}])
  /\ Mark(Current, "unknown")

(* The VIN the ECM answered selects another profile: probe all over again. *)
UpgradeProfile(p) ==
  /\ job.cmd = "scan"
  /\ job.todo = <<>>
  /\ ~job.upgraded
  /\ p # profile
  /\ profile' = p
  /\ job' = [job EXCEPT !.todo = p, !.upgraded = TRUE]
  /\ nodes' = NoModules
  /\ MarkAll("unknown")
  /\ UNCHANGED <<stored, last, bay, budget, covered>>

(* The bay gets the result unless it has given up on the request (worker   *)
(* timeout, page reloaded).                                                *)
ScanDone(delivered) ==
  /\ job.cmd = "scan"
  /\ job.todo = <<>>
  /\ last' = nodes
  /\ job' = Idle
  /\ IF delivered
     THEN /\ bay' = [modules |-> nodes,
                     active |-> UNION {nodes[m].dtcs : m \in DOMAIN nodes}]
          /\ covered' = DOMAIN nodes
     ELSE /\ covered' = {}
          /\ UNCHANGED bay
  /\ UNCHANGED <<stored, profile, nodes, budget, read>>

-----------------------------------------------------------------------------
(* Clear.  The bay offers it once it has a scan.                           *)

Clear ==
  /\ MayCommand
  /\ bay.modules # NoModules
  /\ Spend("commands")
  /\ job' = [cmd |-> "clear", todo |-> profile, step |-> "module", group |-> 1,
             before |-> {}, misses |-> budget.misses]
  /\ nodes' = NoModules
  /\ UNCHANGED <<stored, profile, last, bay, history>>

(* A slip: only the modules without codes are left out.                    *)
Skipped_DarkIsTried(m) ==
  m \in DOMAIN last /\ last[m].reachable /\ last[m].dtcs = {}

(* A module that the last scan found dark or without codes is left out; a  *)
(* module that it did not list is not.                                     *)
Skipped(m) ==
  m \in DOMAIN last /\ (~last[m].reachable \/ last[m].dtcs = {})

NextModule == [job EXCEPT !.todo = Tail(@), !.step = "module", !.group = 1,
                          !.before = {}]

SkipModule ==
  /\ AtModule("clear")
  /\ job.step = "module"
  /\ Skipped(Current)
  /\ nodes' = Put(nodes, Current,
       [reachable |-> last[Current].reachable, attempted |-> FALSE,
        cleared |-> FALSE, after |-> {}])
  /\ job' = NextModule
  /\ UNCHANGED <<stored, profile, last, bay, budget, history>>

(* A slip: the worker's own list keeps the codes of the scan.              *)
Finish_ListIsStale(node) ==
  /\ nodes' = Put(nodes, Current, node)
  /\ job' = NextModule
  /\ UNCHANGED <<profile, last, bay, covered>>

(* The module is done: the report gets its entry, and the worker's list    *)
(* takes codes_after over, also when nothing was cleared.                  *)
Finish(node) ==
  /\ nodes' = Put(nodes, Current, node)
  /\ last' = IF Current \in DOMAIN last
             THEN [last EXCEPT ![Current] =
                    [reachable |-> node.reachable \/ @.reachable,
                     dtcs |-> node.after]]
             ELSE last
  /\ job' = NextModule
  /\ UNCHANGED <<profile, bay, covered>>

GoTo(step) ==
  /\ job' = [job EXCEPT !.step = step]
  /\ UNCHANGED <<profile, last, nodes, bay, history>>

ReadBefore ==
  /\ AtModule("clear")
  /\ job.step = "module"
  /\ ~Skipped(Current)
  /\ Mark(Current, "fresh")
  /\ IF stored[Current] = {}
     THEN Finish([reachable |-> TRUE, attempted |-> FALSE, cleared |-> FALSE,
                  after |-> {}])
     ELSE /\ job' = [job EXCEPT !.step = "send", !.before = stored[Current]]
          /\ UNCHANGED <<profile, last, nodes, bay, covered>>
  /\ UNCHANGED <<stored, budget>>

ReadBeforeMissed ==
  /\ AtModule("clear")
  /\ job.step = "module"
  /\ ~Skipped(Current)
  /\ MayMiss
  /\ Spend("misses")
  /\ \E reachable \in BOOLEAN :
       Finish([reachable |-> reachable, attempted |-> FALSE,
               cleared |-> FALSE, after |-> {}])
  /\ Mark(Current, "unknown")
  /\ UNCHANGED stored

-----------------------------------------------------------------------------
(* _clear_dtc: group 0xFFFFFF, then 0x000000; a session NRC earns the      *)
(* group one retry in the extended session, a range NRC the next group.    *)

Attempted(cleared, after) ==
  [reachable |-> TRUE, attempted |-> TRUE, cleared |-> cleared, after |-> after]

(* A slip: codes_after is not set on the way out.                          *)
Rejected_NoCodesAfter ==
  /\ Finish(Attempted(FALSE, {}))
  /\ UNCHANGED <<stored, budget, read>>

(* A negative response that earns nothing: "Codes left as read".           *)
Rejected ==
  /\ Finish(Attempted(FALSE, job.before))
  /\ UNCHANGED <<stored, budget, read>>

(* A timeout or a garbled answer leaves _clear_dtc, and the report entry   *)
(* as far as it got.                                                       *)
Lost ==
  /\ MayMiss
  /\ Spend("misses")
  /\ Finish(Attempted(FALSE, {}))
  /\ Mark(Current, "lost")

Accepted ==
  /\ stored' = [stored EXCEPT ![Current] = {}]
  /\ GoTo("reread")
  /\ UNCHANGED budget

(* Slips: the same group is sent again; the groups never run out.          *)
NextGroup_Same ==
  /\ job' = [job EXCEPT !.step = "send"]
  /\ UNCHANGED <<stored, profile, last, nodes, bay, budget, history>>

NextGroup_NoEnd ==
  /\ job' = [job EXCEPT !.step = "send", !.group = @ + 1]
  /\ UNCHANGED <<stored, profile, last, nodes, bay, budget, history>>

NextGroup ==
  IF job.group = 2
  THEN Rejected
  ELSE /\ job' = [job EXCEPT !.step = "send", !.group = @ + 1]
       /\ UNCHANGED <<stored, profile, last, nodes, bay, budget, history>>

(* A $14 whose answer is lost may have been carried out.                   *)
LostClear ==
  /\ Lost
  /\ stored' \in {stored, [stored EXCEPT ![Current] = {}]}

SendClear ==
  /\ AtModule("clear")
  /\ job.step = "send"
  /\ \/ Accepted
     \/ GoTo("session") /\ UNCHANGED <<stored, budget>>
     \/ NextGroup
     \/ Rejected
     \/ LostClear

(* The module refuses the session, grants it, answers garbage (which is    *)
(* taken for a yes) or not at all.                                         *)
ChangeSession ==
  /\ AtModule("clear")
  /\ job.step = "session"
  /\ \/ GoTo("resend") /\ UNCHANGED <<stored, budget>>
     \/ GoTo("resend") /\ MayMiss /\ Spend("misses") /\ UNCHANGED stored
     \/ Rejected
     \/ Lost /\ UNCHANGED stored

ResendClear ==
  /\ AtModule("clear")
  /\ job.step = "resend"
  /\ \/ Accepted
     \/ NextGroup
     \/ Rejected
     \/ LostClear

Reread ==
  /\ AtModule("clear")
  /\ job.step = "reread"
  /\ Finish(Attempted(TRUE, stored[Current]))
  /\ Mark(Current, "fresh")
  /\ UNCHANGED <<stored, budget>>

RereadMissed ==
  /\ AtModule("clear")
  /\ job.step = "reread"
  /\ MayMiss
  /\ Spend("misses")
  /\ Finish(Attempted(TRUE, {}))
  /\ Mark(Current, "unknown")
  /\ UNCHANGED stored

AfterClear == UNION {nodes[m].after : m \in DOMAIN nodes}

(* applyClearToScan: active_codes is codes_after; a module of the scan     *)
(* takes its codes over only when it was attempted.                        *)
AppliedClear ==
  [active |-> AfterClear,
   modules |-> [m \in DOMAIN bay.modules |->
     IF m \notin DOMAIN nodes THEN bay.modules[m]
     ELSE [reachable |-> nodes[m].reachable \/ bay.modules[m].reachable,
           dtcs |-> IF nodes[m].attempted THEN nodes[m].after
                    ELSE bay.modules[m].dtcs]]]

AllProcessed == job.cmd = "clear" /\ job.todo = <<>>
AnyAttempted == \E m \in DOMAIN nodes : nodes[m].attempted

ClearDone(delivered) ==
  /\ AllProcessed
  /\ AnyAttempted
  /\ job' = Idle
  /\ IF delivered
     THEN bay' = AppliedClear /\ covered' = DOMAIN nodes
     ELSE covered' = {} /\ UNCHANGED bay
  /\ UNCHANGED <<stored, profile, last, nodes, budget, read>>

(* "No reachable module currently has codes."  The bay keeps what it has.  *)
ClearRefused ==
  /\ AllProcessed
  /\ ~AnyAttempted
  /\ job' = Idle
  /\ UNCHANGED <<stored, profile, last, nodes, bay, budget, history>>

-----------------------------------------------------------------------------
(* The cable fails under a command (PassThruWriteMsgs): the exception      *)
(* leaves it, and the bay gets an error.                                   *)
Abort ==
  /\ job # Idle
  /\ MayMiss
  /\ Spend("misses")
  /\ job' = Idle
  /\ MarkAll("unknown")
  /\ covered' = {}
  /\ UNCHANGED <<stored, profile, last, nodes, bay>>

(* The car sets codes while it runs, and heals pending ones.               *)
CarChanges(m, codes) ==
  /\ budget.faults < MaxFaults
  /\ Spend("faults")
  /\ codes # stored[m]
  /\ stored' = [stored EXCEPT ![m] = codes]
  /\ Mark(m, "unknown")
  /\ UNCHANGED <<profile, last, job, nodes, bay, covered>>

WorkerStep ==
  \/ ProbeAnswered
  \/ ProbeMissed
  \/ \E p \in Profiles : UpgradeProfile(p)
  \/ \E delivered \in BOOLEAN : ScanDone(delivered) \/ ClearDone(delivered)
  \/ SkipModule
  \/ ReadBefore
  \/ ReadBeforeMissed
  \/ SendClear
  \/ ChangeSession
  \/ ResendClear
  \/ Reread
  \/ RereadMissed
  \/ ClearRefused
  \/ Abort

Next ==
  \/ \E p \in Profiles : Scan(p) \/ Identify(p, TRUE) \/ Identify(p, FALSE)
  \/ Clear
  \/ WorkerStep
  \/ \E m \in Modules, codes \in SUBSET Codes : CarChanges(m, codes)

Spec == Init /\ [][Next]_vars

(* The worker's thread runs on; every exchange ends, with an answer or     *)
(* with a timeout.  Nothing forces the bay to command or the car to fail.  *)
FairSpec == Spec /\ WF_vars(WorkerStep)

-----------------------------------------------------------------------------
(* D12: dark nodes are not addressed.  A $14 or a $10 goes only to a       *)
(* module that has just answered with codes, and that the last scan, if it *)
(* listed the module, found answering with codes too.                      *)
OnlyNodesWithCodes ==
  AtModule("clear") /\ job.step \in {"send", "session", "resend"} =>
    /\ job.before # {}
    /\ Current \in DOMAIN last =>
         last[Current].reachable /\ last[Current].dtcs # {}

(* Between commands the list the worker decides by (_last_modules) holds   *)
(* what the modules have stored, for every module whose last exchange      *)
(* went well and that did not change by itself.                            *)
ListIsTrue ==
  job = Idle =>
    \A m \in DOMAIN last \cap Fresh :
      last[m] = [reachable |-> TRUE, dtcs |-> stored[m]]

(* So does what the technician sees: no such code is missing from the      *)
(* active codes or from its module, however many clears were refused,      *)
(* half done or repeated.                                                  *)
NoCodeHidden ==
  job = Idle =>
    \A m \in Fresh \cap covered :
      /\ stored[m] \subseteq bay.active
      /\ m \in DOMAIN bay.modules => stored[m] \subseteq bay.modules[m].dtcs

(* session.clear_dtcs: "No reachable module currently has codes".  Said by *)
(* a command in which every exchange went well, of modules that answered   *)
(* with codes when they were last asked.                                   *)
RefusalIsTrue ==
  AllProcessed /\ ~AnyAttempted /\ budget.misses = job.misses =>
    \A m \in ToSet(profile) :
      read[m] \in {"fresh", "lost"} => stored[m] = {}

(* No command hangs, whatever the modules answer and the bus loses.        *)
CommandEnds == job # Idle ~> job = Idle
=============================================================================
