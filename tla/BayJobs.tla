--------------------------------- MODULE BayJobs ---------------------------------
(***************************************************************************)
(* The one screen of the bay and the jobs parked beside it.  A technician  *)
(* moves between cars with NEW JOB, the chips of parked jobs, LOAD (or its *)
(* timer) and READ VIN, while scans, playbooks, reports and clears are     *)
(* still under way.  An asynchronous handler keeps the state of the render *)
(* it was clicked in (the closure) and, when its answer comes, sets the    *)
(* state of whatever job is on the screen then.                            *)
(*                                                                         *)
(* A piece of work is the VIN of the car it is of.  Left out, since they   *)
(* change no piece modelled: the answers of decodeVin and fetchHistory,    *)
(* the closeout, tabs and pages.  The checks, mileage and root cause are   *)
(* left out too: READ VIN and a typed VIN carry them to the next car, so   *)
(* nothing below could be said of them.  One tab, so React's list of       *)
(* chips is what localStorage holds.                                       *)
(***************************************************************************)
EXTENDS JobLists

CONSTANTS
  Cars,        \* VINs of 17 characters
  None,        \* an incomplete VIN field, no piece, an unnamed car
  MaxStalls,   \* jobs that may be parked (8 in the code)
  MaxPending,  \* bound: handlers under way at once
  MaxBegun     \* bound: handlers begun in one behaviour

ASSUME NoneAssumption == None \notin Cars
ASSUME BayBoundAssumption == MaxStalls \in Nat \ {0} /\ MaxPending \in Nat /\ MaxBegun \in Nat

VARIABLES
  field,    \* the VIN field: a whole VIN or None
  screen,   \* the work on the screen
  stalls,   \* parked jobs, newest first, in localStorage
  busy,     \* a label is shown; any handler that ends takes it down
  pending,  \* handlers that await an answer, with what they captured
  begun,    \* how many handlers have begun
  scanned,  \* history: the cars whose scan came to the screen
  ways      \* history: what has happened that loses or mixes work

bayVars == <<field, screen, stalls, busy, pending, begun, scanned, ways>>

Vins == Cars \cup {None}
NoScan == [of |-> None, said |-> None]

(* said is result.vin: most cars stay dark and the scan is of the VIN that *)
(* was typed.                                                              *)
Scan == [of : Vins, said : Vins]
Work == [scan : {NoScan} \cup Scan, session : Vins, book : Vins]
NoWork == [scan |-> NoScan, session |-> None, book |-> None]
Stall == [vin : Cars, work : Work]

Handler ==
  [kind : {"scan", "log", "report", "book"}, vin : Vins]
  \cup [kind : {"read"}, vin : Vins, work : Work]
  \cup [kind : {"clear"}, vin : Vins, scan : Scan]

Ways == {"no_vin", "typed_over", "late", "swapped", "pushed_out", "crash"}

BayTypeOK ==
  /\ field \in Vins /\ screen \in Work
  /\ stalls \in Seq(Stall) /\ Len(stalls) <= MaxStalls
  /\ \A i, j \in DOMAIN stalls : stalls[i].vin = stalls[j].vin => i = j
  /\ busy \in BOOLEAN /\ begun \in 0 .. MaxBegun
  /\ pending \subseteq [id : 1 .. MaxBegun, handler : Handler]
  /\ scanned \subseteq Cars /\ ways \subseteq Ways

BayInit ==
  /\ field = None /\ screen = NoWork /\ stalls = <<>> /\ busy = FALSE
  /\ pending = {} /\ begun = 0 /\ scanned = {} /\ ways = {}

-----------------------------------------------------------------------------
(* jobStall.ts and the functions of Bay.tsx that park and unpark.          *)

(* A slip: a visit that has only been scanned counts as clean.             *)
Dirty_NoScan(work) == work.session # None \/ work.book # None

Dirty(work) == work # NoWork

Cut(rows) == SubSeq(rows, 1, IF Len(rows) < MaxStalls THEN Len(rows) ELSE MaxStalls)

Without(rows, vin) == Dropping(rows, {i \in DOMAIN rows : rows[i].vin = vin})

(* A slip: the row goes in front of the others and nothing is cut.         *)
Upserted_Uncut(rows, row) == <<row>> \o Without(rows, row.vin)

Upserted(rows, row) == Cut(<<row>> \o Without(rows, row.vin))

(* parkHeld: nothing without a whole VIN or without work.                  *)
Parked(vin, work) ==
  IF vin # None /\ Dirty(work) THEN Upserted(stalls, [vin |-> vin, work |-> work])
                               ELSE stalls

(* A slip: the report's session of the job before stays on the screen.     *)
Applied_SessionStays(row) ==
  [row.work EXCEPT !.session = IF screen.session = None THEN @ ELSE screen.session]

(* The pieces applyStall puts on the screen.                               *)
Applied(row) == row.work

(* The cars a piece of work is of.                                         *)
CarsOf(work) == {work.scan.of, work.session, work.book} \ {None}

(* The VIN that loadTypedVin takes the work on the screen to be of: a dark *)
(* scan does not say.                                                      *)
Held == IF screen.scan.said # None THEN screen.scan.said ELSE screen.session

-----------------------------------------------------------------------------
(* What can lose or mix work, noted as it happens.                         *)
TypedOver ==
  IF field = None \/ CarsOf(screen) \subseteq {field} THEN {} ELSE {"typed_over"}
LeftUnnamed(vin, work) == IF vin = None /\ Dirty(work) THEN {"no_vin"} ELSE {}
(* A parked job is cut, or replaced by a second visit of its VIN.           *)
PushedOut(rows) ==
  IF \E i \in DOMAIN stalls : \A j \in DOMAIN rows : rows[j] # stalls[i]
  THEN {"pushed_out"} ELSE {}
Note(what) == ways' = ways \cup what

-----------------------------------------------------------------------------
(* The field takes any text; a whole VIN is one of Cars.                   *)
TypeVin(vin) ==
  /\ vin # field
  /\ field' = vin
  /\ UNCHANGED <<screen, stalls, busy, pending, begun, scanned, ways>>

NewJob ==
  /\ ~busy
  /\ stalls' = Parked(field, screen)
  /\ field' = None /\ screen' = NoWork
  /\ Note(TypedOver \cup LeftUnnamed(field, screen) \cup PushedOut(stalls'))
  /\ UNCHANGED <<busy, pending, begun, scanned>>

(* A chip, shown for every parked job but the one of the field's VIN.      *)
ResumeStall(i) ==
  LET row == stalls[i] rest == Parked(field, screen) IN
  /\ row.vin # field
  /\ field' = row.vin /\ screen' = Applied(row)
  /\ stalls' = Without(rest, row.vin)
  /\ Note(TypedOver \cup LeftUnnamed(field, screen)
          \cup PushedOut(<<row>> \o rest))
  /\ UNCHANGED <<busy, pending, begun, scanned>>

(* LOAD runs under a label, which is taken down when its history arrives;  *)
(* the timer runs without one.  Offline neither runs.                      *)
LoadTypedVin ==
  LET rest == Parked(Held, screen)
      found == {i \in DOMAIN rest : rest[i].vin = field} IN
  /\ field # None
  /\ busy' \in {busy, FALSE}
  /\ IF Held # None /\ Held # field
     THEN /\ Note((IF CarsOf(screen) = {Held} THEN {} ELSE {"typed_over"})
                  \cup PushedOut(rest))
          /\ IF found = {} THEN screen' = NoWork /\ stalls' = rest
             ELSE \E i \in found :
                    /\ screen' = Applied(rest[i])
                    /\ stalls' = Without(rest, field)
     ELSE Note(TypedOver) /\ UNCHANGED <<screen, stalls>>
  /\ UNCHANGED <<field, pending, begun, scanned>>

(* The page is left in order (beforeunload, logout) or the browser dies.   *)
Reload(inOrder) ==
  /\ IF inOrder
     THEN /\ stalls' = Parked(field, screen)
          /\ Note(TypedOver \cup LeftUnnamed(field, screen) \cup PushedOut(stalls'))
     ELSE UNCHANGED stalls /\ Note(IF Dirty(screen) THEN {"crash"} ELSE {})
  /\ field' = None /\ screen' = NoWork /\ busy' = FALSE /\ pending' = {}
  /\ UNCHANGED <<begun, scanned>>

-----------------------------------------------------------------------------
(* Handlers: run shows the label, and each captures what it will use.      *)
Begins(handler) ==
  /\ begun < MaxBegun /\ Cardinality(pending) < MaxPending
  /\ begun' = begun + 1
  /\ pending' = pending \cup {[id |-> begun + 1, handler |-> handler]}
  /\ busy' = TRUE
  /\ Note(TypedOver)
  /\ UNCHANGED <<field, screen, stalls, scanned>>

BeginScan == ~busy /\ Begins([kind |-> "scan", vin |-> field])
BeginRead == Begins([kind |-> "read", vin |-> field, work |-> screen])

(* The car the scan is logged, cleared and advised under.                  *)
ScanVin == IF screen.scan.said # None THEN screen.scan.said ELSE field

BeginLog ==
  /\ screen.scan # NoScan
  /\ ScanVin # None
  /\ Begins([kind |-> "log", vin |-> ScanVin])
BeginReport == field # None /\ Begins([kind |-> "report", vin |-> field])
BeginClear ==
  /\ screen.scan # NoScan
  /\ Begins([kind |-> "clear", vin |-> field, scan |-> screen.scan])
BeginRebuild ==
  /\ ~busy /\ field # None
  /\ \/ screen.scan # NoScan /\ Begins([kind |-> "book", vin |-> ScanVin])
     \/ /\ screen.scan = NoScan /\ screen.session # None
        /\ Begins([kind |-> "book", vin |-> screen.session])

-----------------------------------------------------------------------------
(* Answers.                                                                *)
(* An answer about car comes to a job of another field or another car.     *)
Astray(p, car) ==
  TypedOver \cup (IF field = p.handler.vin THEN {} ELSE {"late"})
            \cup (IF CarsOf(screen) \subseteq {car} THEN {} ELSE {"swapped"})

(* The end of run; a handler that goes on to the playbook stays pending.   *)
Ends(p) == busy' = FALSE /\ pending' = pending \ {p}
GoesOn(p, vin) ==
  /\ busy' = TRUE
  /\ pending' = (pending \ {p})
                  \cup {[id |-> p.id, handler |-> [kind |-> "book", vin |-> vin]]}

(* A handler whose call fails shows the error and changes nothing else.    *)
Fails(p) == Ends(p) /\ UNCHANGED <<field, screen, stalls, begun, scanned, ways>>

(* deepScan replaces the scan and the playbook, and sets the field only    *)
(* when the car says another VIN than the one captured.                    *)
ScanLands(p, said) ==
  LET v == p.handler.vin
      car == IF said # None THEN said ELSE v IN
  /\ p.handler.kind = "scan"
  /\ screen' = [screen EXCEPT !.scan = [of |-> car, said |-> said], !.book = None]
  /\ field' = IF said \in {None, v} THEN field ELSE said
  /\ scanned' = scanned \cup ({car} \ {None})
  /\ \/ Ends(p)
     \/ car # None /\ GoesOn(p, car)
  /\ Note(Astray(p, car))
  /\ UNCHANGED <<stalls, begun>>

(* readVinFromKit parks the work it captured, and clears the screen.       *)
ReadLands(p, said) ==
  LET h == p.handler IN
  /\ h.kind = "read"
  /\ Ends(p)
  /\ IF said \in {None, h.vin}
     THEN /\ field' = IF said = None THEN field ELSE said
          /\ UNCHANGED <<screen, stalls>>
          /\ Note(IF said = None THEN {} ELSE Astray(p, said))
     ELSE /\ stalls' = Parked(h.vin, h.work)
          /\ screen' = NoWork /\ field' = said
          /\ Note(TypedOver \cup LeftUnnamed(h.vin, h.work) \cup PushedOut(stalls')
                  \cup IF field = h.vin /\ screen = h.work THEN {} ELSE {"late"})
  /\ UNCHANGED <<begun, scanned>>

(* LOG SESSION, or an attached report that goes on to its playbook.        *)
SessionLands(p) ==
  /\ \/ p.handler.kind = "log" /\ Ends(p)
     \/ p.handler.kind = "report" /\ (Ends(p) \/ GoesOn(p, p.handler.vin))
  /\ screen' = [screen EXCEPT !.session = p.handler.vin]
  /\ Note(Astray(p, p.handler.vin))
  /\ UNCHANGED <<field, stalls, begun, scanned>>

(* The clear is applied to the scan that was captured.                     *)
ClearLands(p) ==
  /\ p.handler.kind = "clear"
  /\ Ends(p)
  /\ screen' = [screen EXCEPT !.scan = p.handler.scan]
  /\ Note(Astray(p, p.handler.scan.of))
  /\ UNCHANGED <<field, stalls, begun, scanned>>

BookLands(p) ==
  /\ p.handler.kind = "book"
  /\ Ends(p)
  /\ screen' = [screen EXCEPT !.book = p.handler.vin]
  /\ Note(Astray(p, p.handler.vin))
  /\ UNCHANGED <<field, stalls, begun, scanned>>

-----------------------------------------------------------------------------
BayNext ==
  \/ \E vin \in Vins : TypeVin(vin)
  \/ NewJob
  \/ \E i \in DOMAIN stalls : ResumeStall(i)
  \/ LoadTypedVin
  \/ \E inOrder \in BOOLEAN : Reload(inOrder)
  \/ BeginScan \/ BeginRead \/ BeginLog \/ BeginReport \/ BeginClear \/ BeginRebuild
  \/ \E p \in pending :
       \/ Fails(p) \/ SessionLands(p) \/ ClearLands(p) \/ BookLands(p)
       \/ \E said \in Vins : ScanLands(p, said) \/ ReadLands(p, said)

BaySpec == BayInit /\ [][BayNext]_bayVars

-----------------------------------------------------------------------------
(* No visit disappears: a car that was scanned has its scan on the screen  *)
(* or in the parked job of its VIN, whatever the order of NEW JOB, chips,  *)
(* LOAD, READ VIN, reloads and answers, unless one of Ways has happened:   *)
(* the VIN field was incomplete or named another car than the work when    *)
(* the technician went on, an answer came to another job than it was asked *)
(* for, the kit was found in another car, a job was parked beyond the      *)
(* limit or over an older visit of its VIN, or the browser died.           *)
WorkKept ==
  ways = {} =>
    \A car \in scanned :
      \/ screen.scan.of = car
      \/ \E i \in DOMAIN stalls : stalls[i].vin = car /\ stalls[i].work.scan.of = car

(* No visit is made of two cars: the scan, the session and the playbook on *)
(* the screen are of one car, and those of a parked job are of its VIN,    *)
(* so that CLOSE JOB and REBUILD act on the car they name, unless one of   *)
(* Ways has happened.                                                      *)
OneCarPerVisit ==
  ways = {} =>
    /\ Cardinality(CarsOf(screen)) <= 1
    /\ \A i \in DOMAIN stalls : CarsOf(stalls[i].work) \subseteq {stalls[i].vin}
=============================================================================
