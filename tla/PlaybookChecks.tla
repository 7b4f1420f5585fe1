---------------------------- MODULE PlaybookChecks ----------------------------
(***************************************************************************)
(* The bay checks of one vehicle at one shop: rows of playbook_checks, one *)
(* per fingerprint.  Two kinds of request write them.  A tick (PUT         *)
(* .../checks) upserts the status the technician chose.  A playbook        *)
(* (POST .../playbook) ends with SyncPlaybookSteps, which opens a row for  *)
(* every step of the new book and leaves settled rows alone.  Both go      *)
(* through UpsertPlaybookCheck, an UPDATE and, when it met no row, an      *)
(* INSERT; no two statements share a transaction.                          *)
(*                                                                         *)
(* A row is its status: the note travels with it, and the other columns    *)
(* are the text of the step.                                               *)
(***************************************************************************)
EXTENDS Naturals, Sequences

CONSTANTS
  Fingerprints,  \* kind|title of a step
  Books,         \* the step lists a playbook may come with
  Handlers,      \* request goroutines
  MaxRequests    \* bound: requests in one behaviour

ASSUME BooksAssumption == Books \subseteq Seq(Fingerprints)
ASSUME RequestsAssumption == MaxRequests \in Nat

Settled == {"done", "ruled_out"}
Statuses == Settled \cup {"open"}
NoRow == "none"

VARIABLES
  checks,    \* status of each fingerprint's row, or NoRow
  request,   \* what each handler is doing
  requests,  \* requests so far
  version,   \* history: writes to each row so far
  ticked,    \* history: the status of the tick that was stored last
  overtaken  \* history: rows a sync wrote that changed after it had read them

history == <<version, ticked, overtaken>>
vars == <<checks, request, requests, history>>

Idle == [step |-> "idle"]

(* todo holds the steps that are left.  A tick is a request whose only     *)
(* step is the one it ticks; a sync reads the row of each step first.      *)
Request == [kind : {"tick", "sync"}, step : {"next", "update", "insert"},
            book : Seq(Fingerprints), todo : Seq(Fingerprints),
            status : Statuses, read : Nat]

TypeOK ==
  /\ checks \in [Fingerprints -> Statuses \cup {NoRow}]
  /\ request \in [Handlers -> Request \cup {Idle}]
  /\ requests \in 0 .. MaxRequests
  /\ version \in [Fingerprints -> Nat]
  /\ ticked \in [Fingerprints -> Statuses \cup {NoRow}]
  /\ overtaken \subseteq Fingerprints

Current(h) == Head(request[h].todo)

(* What a request may carry as a status: the server knows some aliases,    *)
(* and takes anything else for "open".                                     *)
Sent == Statuses \cup {"not_this", "ruled-out", "unknown"}

(* normalizeCheckStatus.                                                   *)
Normalize(status) ==
  CASE status \in {"ruled_out", "not_this", "ruled-out"} -> "ruled_out"
    [] status = "done" -> "done"
    [] OTHER -> "open"

-----------------------------------------------------------------------------
Init ==
  /\ checks = [f \in Fingerprints |-> NoRow]
  /\ request = [h \in Handlers |-> Idle]
  /\ requests = 0
  /\ version = [f \in Fingerprints |-> 0]
  /\ ticked = [f \in Fingerprints |-> NoRow]
  /\ overtaken = {}

Tick(h, f, sent) ==
  /\ request[h] = Idle
  /\ requests < MaxRequests
  /\ requests' = requests + 1
  /\ request' = [request EXCEPT ![h] =
       [kind |-> "tick", step |-> "update", book |-> <<f>>, todo |-> <<f>>,
        status |-> Normalize(sent), read |-> version[f]]]
  /\ UNCHANGED <<checks, history>>

(* The playbook is back from the hosted model; its steps are synced.       *)
Sync(h, book) ==
  /\ request[h] = Idle
  /\ requests < MaxRequests
  /\ requests' = requests + 1
  /\ request' = [request EXCEPT ![h] =
       [kind |-> "sync", step |-> "next", book |-> book, todo |-> book,
        status |-> "open", read |-> 0]]
  /\ UNCHANGED <<checks, history>>

(* A slip: the row's status is not looked at.                              *)
Keeps_Nothing(f) == FALSE

(* Settled ticks are kept.                                                 *)
Keeps(f) == checks[f] \in Settled

(* checkByFingerprint: a settled row is skipped; an open or a missing row  *)
(* is upserted as open.                                                    *)
ReadCheck(h) ==
  /\ request[h].step = "next"
  /\ request[h].todo # <<>>
  /\ request' =
       IF Keeps(Current(h))
       THEN [request EXCEPT ![h].todo = Tail(@)]
       ELSE [request EXCEPT ![h].step = "update",
                            ![h].status = "open",
                            ![h].read = version[Current(h)]]
  /\ UNCHANGED <<checks, requests, history>>

(* The list of the vehicle's checks is read and returned with the book.    *)
SyncDone(h) ==
  /\ request[h].step = "next"
  /\ request[h].todo = <<>>
  /\ request' = [request EXCEPT ![h] = Idle]
  /\ UNCHANGED <<checks, requests, history>>

(* After its write a tick answers, and a sync goes on to the next step.    *)
(* Between the two the row is read back; where that SELECT fails, the sync *)
(* stops after the write, as it does when Fail comes next.                 *)
Continue(h) ==
  request' = IF request[h].kind = "tick"
             THEN [request EXCEPT ![h] = Idle]
             ELSE [request EXCEPT ![h].step = "next", ![h].todo = Tail(@)]

Write(h) ==
  LET f == Current(h)
      r == request[h] IN
  /\ checks' = [checks EXCEPT ![f] = r.status]
  /\ version' = [version EXCEPT ![f] = @ + 1]
  /\ ticked' = IF r.kind = "tick" THEN [ticked EXCEPT ![f] = r.status] ELSE ticked
  /\ overtaken' =
       IF r.kind = "tick" THEN overtaken \ {f}
       ELSE IF r.read # version[f] THEN overtaken \cup {f}
       ELSE overtaken
  /\ Continue(h)
  /\ UNCHANGED requests

UpdateCheck(h) ==
  /\ request[h].step = "update"
  /\ checks[Current(h)] # NoRow
  /\ Write(h)

(* A slip: an UPDATE that met no row is taken for a success.               *)
UpdateMisses_IsDone(h) ==
  /\ request[h].step = "update"
  /\ checks[Current(h)] = NoRow
  /\ Continue(h)
  /\ UNCHANGED <<checks, requests, history>>

UpdateMisses(h) ==
  /\ request[h].step = "update"
  /\ checks[Current(h)] = NoRow
  /\ request' = [request EXCEPT ![h].step = "insert"]
  /\ UNCHANGED <<checks, requests, history>>

(* The unique index on scope, VIN and fingerprint refuses a second row.    *)
InsertCheck(h) ==
  /\ request[h].step = "insert"
  /\ checks[Current(h)] = NoRow
  /\ Write(h)

InsertRefused(h) ==
  /\ request[h].step = "insert"
  /\ checks[Current(h)] # NoRow
  /\ request' = [request EXCEPT ![h] = Idle]
  /\ UNCHANGED <<checks, requests, history>>

(* A statement fails: a lost connection, a cancelled request.  A sync      *)
(* stops where it is; what it wrote stays.                                 *)
Fail(h) ==
  /\ request[h] # Idle
  /\ request' = [request EXCEPT ![h] = Idle]
  /\ UNCHANGED <<checks, requests, history>>

Step(h) ==
  \/ ReadCheck(h)
  \/ SyncDone(h)
  \/ UpdateCheck(h)
  \/ UpdateMisses(h)
  \/ InsertCheck(h)
  \/ InsertRefused(h)

Next ==
  \E h \in Handlers :
    \/ \E f \in Fingerprints, sent \in Sent : Tick(h, f, sent)
    \/ \E book \in Books : Sync(h, book)
    \/ Step(h)
    \/ Fail(h)

Spec == Init /\ [][Next]_vars

-----------------------------------------------------------------------------
(* A check shows the tick that was stored last, whatever syncs and other   *)
(* ticks ran at once.  The only row that may not is one a sync overwrote   *)
(* as open after the tick had slipped in behind its read; and no row is    *)
(* ever settled by a playbook.                                             *)
TickIsKept ==
  \A f \in Fingerprints :
    \/ checks[f] = ticked[f]
    \/ checks[f] = "open" /\ (ticked[f] = NoRow \/ f \in overtaken)

(* "Playbook steps become checks": whatever else runs, a sync has a row on *)
(* file for every step it has passed, so a book that is returned has one   *)
(* for each of its steps.                                                  *)
Passed(r) == Len(r.book) - Len(r.todo)

SyncedStepsHaveRows ==
  \A h \in Handlers :
    request[h] # Idle =>
      \A i \in 1 .. Passed(request[h]) : checks[request[h].book[i]] # NoRow

(* docs/playbook.md: "A ruled-out step stays ruled out across rebuilds."   *)
RuledOutStays ==
  \A f \in Fingerprints : ticked[f] = "ruled_out" => checks[f] = "ruled_out"
=============================================================================
