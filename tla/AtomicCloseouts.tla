--------------------------- MODULE AtomicCloseouts ---------------------------
(***************************************************************************)
(* What closing a job promises: the visit's outcome, the resolution that   *)
(* explains it and the technician's reputation change together or not at   *)
(* all, and only the technician who opened the session can make them       *)
(* change.  JobLedger shows that the transaction in ledger.Closeout keeps  *)
(* this promise.                                                           *)
(***************************************************************************)
EXTENDS Naturals

CONSTANTS
  SessionIds,       \* ids of diagnostic_sessions rows
  Technicians,      \* ids of technicians rows
  NoTech,           \* the opener of a session that does not exist
  Times,            \* values of confirmed_resolutions.created_at
  StartReputation,  \* technicians.reputation_score of a new technician
  Reward            \* what one verified fix adds to it

VARIABLES
  sessions,     \* diagnostic_sessions by id
  resolutions,  \* confirmed_resolutions
  reputation    \* technicians.reputation_score by technician

ledger == <<sessions, resolutions, reputation>>

VerdictOf(verified) == IF verified THEN "success" ELSE "failed"

Init ==
  /\ sessions = [s \in SessionIds |-> [opener |-> NoTech, outcome |-> "none"]]
  /\ resolutions = {}
  /\ reputation = [t \in Technicians |-> StartReputation]

Open(s, t) ==
  /\ sessions[s].outcome = "none"
  /\ sessions' = [sessions EXCEPT ![s] = [opener |-> t, outcome |-> "open"]]
  /\ UNCHANGED <<resolutions, reputation>>

Close(s, verified, began, ended) ==
  LET t == sessions[s].opener IN
  /\ sessions[s].outcome # "none"
  /\ sessions' = [sessions EXCEPT ![s].outcome = VerdictOf(verified)]
  /\ resolutions' = resolutions \cup
       {[session |-> s, tech |-> t, verified |-> verified,
         began |-> began, ended |-> ended]}
  /\ reputation' = IF verified
                   THEN [reputation EXCEPT ![t] = @ + Reward]
                   ELSE reputation

Next ==
  \/ \E s \in SessionIds, t \in Technicians : Open(s, t)
  \/ \E s \in SessionIds, verified \in BOOLEAN, began, ended \in Times :
       Close(s, verified, began, ended)

Spec == Init /\ [][Next]_ledger
=============================================================================
