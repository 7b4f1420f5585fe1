------------------------------- MODULE JobLedger -------------------------------
(***************************************************************************)
(* The job file of the Go ledger: POST /api/v1/sessions opens a visit and  *)
(* POST /api/v1/sessions/{id}/closeout closes it.  The closeout is one     *)
(* PostgreSQL transaction at READ COMMITTED, and it is modelled statement  *)
(* by statement: several requests run at once, a row that a transaction    *)
(* has updated stays locked until the transaction ends, and what it wrote  *)
(* is invisible to the others until it commits.                            *)
(*                                                                         *)
(* The model is the file of one vehicle, so the VIN columns are left out.  *)
(***************************************************************************)
EXTENDS Naturals, FiniteSets

CONSTANTS
  SessionIds,       \* ids that diagnostic_sessions rows may get
  Technicians,      \* technicians.id
  NoTech,           \* the opener of a session that does not exist
  Handlers,         \* request goroutines that may run a closeout at once
  StartReputation,  \* technicians.reputation_score of a new technician
  Reward,           \* what a verified fix adds to it
  MaxClock          \* bound: transactions begun in one behaviour

ASSUME NoTechAssumption == NoTech \notin Technicians
ASSUME ScoreAssumption == StartReputation \in Nat /\ Reward \in Nat
ASSUME ClockAssumption == MaxClock \in Nat

VARIABLES
  sessions,     \* diagnostic_sessions by id; outcome "none" = no such row
  resolutions,  \* committed confirmed_resolutions rows
  reputation,   \* technicians.reputation_score by technician, committed
  tx,           \* the closeout transaction of each handler
  clock         \* database clock: ticks at each BEGIN

vars == <<sessions, resolutions, reputation, tx, clock>>

Outcomes == {"success", "failed"}
Times == 0 .. MaxClock
Steps == {"begun", "checked", "updated", "resolved", "rewarded"}

SessionRow == [opener : Technicians \cup {NoTech},
               outcome : Outcomes \cup {"none", "open"}]

ResolutionRow == [session : SessionIds, tech : Technicians,
                  verified : BOOLEAN, began : Times, ended : Times]

NoTransaction == [step |-> "idle"]

Transaction == [step : Steps, session : SessionIds, tech : Technicians,
                outcome : Outcomes, began : Times, score : Nat]

TypeOK ==
  /\ sessions \in [SessionIds -> SessionRow]
  /\ resolutions \subseteq ResolutionRow
  /\ reputation \in [Technicians -> Nat]
  /\ tx \in [Handlers -> Transaction \cup {NoTransaction}]
  /\ clock \in Times

-----------------------------------------------------------------------------
(* The rows a transaction has locked.  PostgreSQL keeps the lock an UPDATE *)
(* takes on a row until COMMIT or ROLLBACK.                                *)

LocksSession(h, s) ==
  /\ tx[h].step \in {"updated", "resolved", "rewarded"}
  /\ tx[h].session = s

LocksTechnician(h, t) ==
  /\ tx[h].step = "rewarded"
  /\ tx[h].tech = t

SessionFree(s) == \A h \in Handlers : ~LocksSession(h, s)
TechnicianFree(t) == \A h \in Handlers : ~LocksTechnician(h, t)

(* is_verified_fix is set exactly for the outcome "success".               *)
Verified(h) == tx[h].outcome = "success"

Advance(h, to) == tx' = [tx EXCEPT ![h].step = to]
End(h) == tx' = [tx EXCEPT ![h] = NoTransaction]

ResolutionsOf(s) == {r \in resolutions : r.session = s}

-----------------------------------------------------------------------------
Init ==
  /\ sessions = [s \in SessionIds |-> [opener |-> NoTech, outcome |-> "none"]]
  /\ resolutions = {}
  /\ reputation = [t \in Technicians |-> StartReputation]
  /\ tx = [h \in Handlers |-> NoTransaction]
  /\ clock = 0

(* InsertSession: one INSERT, committed by itself, with outcome 'open'.    *)
OpenSession(s, t) ==
  /\ sessions[s].outcome = "none"
  /\ sessions' = [sessions EXCEPT ![s] = [opener |-> t, outcome |-> "open"]]
  /\ UNCHANGED <<resolutions, reputation, tx, clock>>

(* A closeout request: its outcome is validated before BEGIN, so only the  *)
(* two legal outcomes start a transaction.  The session may not exist, and *)
(* the technician (from the cookie) need not be the one who opened it.     *)
Begin(h, s, t, outcome) ==
  /\ tx[h].step = "idle"
  /\ clock < MaxClock
  /\ clock' = clock + 1
  /\ tx' = [tx EXCEPT ![h] = [step |-> "begun", session |-> s, tech |-> t,
                              outcome |-> outcome, began |-> clock + 1,
                              score |-> 0]]
  /\ UNCHANGED <<sessions, resolutions, reputation>>

(* A slip: whoever is logged in may close the session.                     *)
MayClose_Anyone(h) == sessions[tx[h].session].outcome # "none"

(* The plain SELECT of the row takes no lock; a missing session and a      *)
(* technician other than the opener return, and the deferred Rollback ends *)
(* the transaction.                                                        *)
MayClose(h) ==
  /\ sessions[tx[h].session].outcome # "none"
  /\ sessions[tx[h].session].opener = tx[h].tech

(* A slip: the early return leaves the transaction open.                   *)
SelectSession_NoRollback(h) ==
  /\ tx[h].step = "begun"
  /\ MayClose(h)
  /\ Advance(h, "checked")
  /\ UNCHANGED <<sessions, resolutions, reputation, clock>>

SelectSession(h) ==
  /\ tx[h].step = "begun"
  /\ IF MayClose(h) THEN Advance(h, "checked") ELSE End(h)
  /\ UNCHANGED <<sessions, resolutions, reputation, clock>>

(* A slip: the UPDATE runs on the pool and not on the transaction.         *)
UpdateOutcome_OnPool(h) ==
  /\ tx[h].step = "checked"
  /\ SessionFree(tx[h].session)
  /\ sessions' = [sessions EXCEPT ![tx[h].session].outcome = tx[h].outcome]
  /\ Advance(h, "updated")
  /\ UNCHANGED <<resolutions, reputation, clock>>

UpdateOutcome(h) ==
  /\ tx[h].step = "checked"
  /\ SessionFree(tx[h].session)
  /\ Advance(h, "updated")
  /\ UNCHANGED <<sessions, resolutions, reputation, clock>>

InsertResolution(h) ==
  /\ tx[h].step = "updated"
  /\ Advance(h, "resolved")
  /\ UNCHANGED <<sessions, resolutions, reputation, clock>>

(* The score as the UPDATE of a verified fix leaves it: reputation_score   *)
(* is read and written under the row lock, never in the program.           *)
RewardedScore(h) == reputation[tx[h].tech] + Reward

(* A slip: the program reads the score, adds to it and writes it back.     *)
UpdateReputation_InProgram(h) ==
  /\ tx[h].step = "resolved"
  /\ Verified(h)
  /\ tx' = [tx EXCEPT ![h].step = "rewarded", ![h].score = RewardedScore(h)]
  /\ UNCHANGED <<sessions, resolutions, reputation, clock>>

UpdateReputation(h) ==
  /\ tx[h].step = "resolved"
  /\ Verified(h)
  /\ TechnicianFree(tx[h].tech)
  /\ tx' = [tx EXCEPT ![h].step = "rewarded", ![h].score = RewardedScore(h)]
  /\ UNCHANGED <<sessions, resolutions, reputation, clock>>

(* created_at is NOW(), the time of BEGIN; ended is the history of when    *)
(* the row became visible.                                                 *)
NewResolution(h) ==
  [session |-> tx[h].session, tech |-> tx[h].tech, verified |-> Verified(h),
   began |-> tx[h].began, ended |-> clock]

ReadyToCommit(h) ==
  \/ tx[h].step = "rewarded"
  \/ tx[h].step = "resolved" /\ ~Verified(h)

Commit(h) ==
  /\ ReadyToCommit(h)
  /\ sessions' = [sessions EXCEPT ![tx[h].session].outcome = tx[h].outcome]
  /\ resolutions' = resolutions \cup {NewResolution(h)}
  /\ reputation' = IF Verified(h)
                   THEN [reputation EXCEPT ![tx[h].tech] = tx[h].score]
                   ELSE reputation
  /\ End(h)
  /\ UNCHANGED clock

(* A statement fails, the client goes away (the request context is         *)
(* cancelled) or the server dies: nothing of the transaction stays.        *)
Rollback(h) ==
  /\ tx[h].step # "idle"
  /\ End(h)
  /\ UNCHANGED <<sessions, resolutions, reputation, clock>>

Step(h) ==
  \/ SelectSession(h)
  \/ UpdateOutcome(h)
  \/ InsertResolution(h)
  \/ UpdateReputation(h)
  \/ Commit(h)

Next ==
  \/ \E s \in SessionIds, t \in Technicians : OpenSession(s, t)
  \/ \E h \in Handlers, s \in SessionIds, t \in Technicians, o \in Outcomes :
       Begin(h, s, t, o)
  \/ \E h \in Handlers : Step(h) \/ Rollback(h)

Spec == Init /\ [][Next]_vars

(* A request goroutine runs on: neither Go nor PostgreSQL starves a        *)
(* statement whose row locks are free.  Nothing forces a failure.          *)
FairSpec == Spec /\ \A h \in Handlers : WF_vars(Step(h))

-----------------------------------------------------------------------------
(* Reputation is earned: a technician's score is the starting score plus   *)
(* the reward of every verified fix on file, whatever closeouts ran at     *)
(* once, failed, or closed the same visit again (ledger.Closeout).         *)
RewardMatchesFixes ==
  \A t \in Technicians :
    reputation[t] = StartReputation
      + Reward * Cardinality({r \in resolutions : r.tech = t /\ r.verified})

(* The two tables tell one story: a session is closed exactly when it has  *)
(* a resolution, its outcome is the verdict of one of them, and each was   *)
(* recorded by the technician who opened it.  What History and             *)
(* NetworkMatches join is therefore never an open visit.                   *)
Verdict(r) == IF r.verified THEN "success" ELSE "failed"

OutcomeHasResolution ==
  /\ \A s \in SessionIds :
       IF sessions[s].outcome \in Outcomes
       THEN \E r \in ResolutionsOf(s) : sessions[s].outcome = Verdict(r)
       ELSE ResolutionsOf(s) = {}
  /\ \A r \in resolutions : r.tech = sessions[r.session].opener

(* A slip: ORDER BY created_at without DESC.                               *)
NewestResolution_Ascending(s) ==
  CHOOSE r \in ResolutionsOf(s) :
    \A q \in ResolutionsOf(s) : r.began <= q.began

(* History shows sessions.outcome beside the resolution with the newest    *)
(* created_at.  created_at is the time of BEGIN and not of COMMIT, so the  *)
(* two can disagree, but only when another closeout of the same session    *)
(* was under way at the same time as the shown one.                        *)
NewestResolution(s) ==
  CHOOSE r \in ResolutionsOf(s) :
    \A q \in ResolutionsOf(s) : q.began <= r.began

HistoryAgreesUnlessOverlap ==
  \A s \in SessionIds :
    LET shown == NewestResolution(s) IN
    ResolutionsOf(s) # {} =>
      \/ sessions[s].outcome = Verdict(shown)
      \/ \E r \in ResolutionsOf(s) \ {shown} :
           r.began <= shown.ended /\ shown.began <= r.ended

(* Every closeout is atomic: the steps of the transaction refine the one   *)
(* step of AtomicCloseouts, and only COMMIT is visible.                    *)
Atomic == INSTANCE AtomicCloseouts WITH
  sessions <- sessions, resolutions <- resolutions, reputation <- reputation
CloseoutIsAtomic == Atomic!Spec

(* No closeout hangs: each transaction that began commits or rolls back,   *)
(* whoever holds the row locks it waits for.                               *)
CloseoutEnds ==
  \A h \in Handlers : tx[h].step # "idle" ~> tx[h].step = "idle"
=============================================================================
