---------------------------- MODULE JobLedgerProofs ----------------------------
(***************************************************************************)
(* Proofs about JobLedger for any number of visits, technicians and        *)
(* concurrent requests.                                                    *)
(***************************************************************************)
EXTENDS JobLedger, FiniteSetTheorems, TLAPS

Active(h) == tx[h].step # "idle"

(* What an open transaction has established, and still holds.              *)
TransactionInv ==
  \A h \in Handlers : Active(h) =>
    /\ tx[h].began \in 1 .. clock
    /\ tx[h].step # "begun" => MayClose(h)
    /\ tx[h].step = "rewarded" =>
         Verified(h) /\ tx[h].score = reputation[tx[h].tech] + Reward
    /\ \A r \in resolutions : r.began # tx[h].began

(* BEGIN times tell transactions apart, and one of them at a time holds    *)
(* the row lock of a technician.                                           *)
DistinctInv ==
  \A g, h \in Handlers : g # h =>
    /\ Active(g) /\ Active(h) => tx[g].began # tx[h].began
    /\ tx[g].step = "rewarded" /\ tx[h].step = "rewarded" => tx[g].tech # tx[h].tech

(* The file is finite, and a row became visible after its BEGIN and not    *)
(* in the future.                                                          *)
FileInv ==
  /\ IsFiniteSet(resolutions)
  /\ \A r \in resolutions :
       /\ r.began <= r.ended
       /\ r.ended <= clock
       /\ r.tech = sessions[r.session].opener

(* A closed session has a resolution that committed last, whose verdict is *)
(* the session's outcome, and one that began last.                         *)
LastCommitted(s, r) ==
  /\ sessions[s].outcome = Verdict(r)
  /\ \A q \in ResolutionsOf(s) : q.ended <= r.ended

LastBegun(s, r) == \A q \in ResolutionsOf(s) : q.began <= r.began

SessionInv ==
  \A s \in SessionIds :
    IF sessions[s].outcome \in Outcomes
    THEN /\ \E r \in ResolutionsOf(s) : LastCommitted(s, r)
         /\ \E r \in ResolutionsOf(s) : LastBegun(s, r)
    ELSE ResolutionsOf(s) = {}

IInv ==
  /\ TypeOK
  /\ TransactionInv
  /\ DistinctInv
  /\ FileInv
  /\ SessionInv
  /\ RewardMatchesFixes

-----------------------------------------------------------------------------
(* The pieces of TypeOK that the steps below use: an open transaction is a *)
(* full record.                                                            *)
LEMMA OpenIsTransaction ==
  ASSUME TypeOK, NEW h \in Handlers, Active(h)
  PROVE  tx[h] \in Transaction
BY DEF TypeOK, Active, NoTransaction

(* The state of every table keeps its type (ledger.InsertSession and       *)
(* ledger.Closeout).                                                       *)
THEOREM TypeCorrect == Spec => []TypeOK
<1>1. Init => TypeOK
  BY NoTechAssumption, ScoreAssumption, ClockAssumption
     DEF Init, TypeOK, SessionRow, ResolutionRow, Times, NoTransaction
<1>2. TypeOK /\ [Next]_vars => TypeOK'
  <2> SUFFICES ASSUME TypeOK, [Next]_vars PROVE TypeOK'
    OBVIOUS
  <2> USE DEF TypeOK
  <2>1. ASSUME NEW s \in SessionIds, NEW t \in Technicians, OpenSession(s, t)
        PROVE  TypeOK'
    BY <2>1 DEF OpenSession, SessionRow
  <2>2. ASSUME NEW h \in Handlers, NEW s \in SessionIds, NEW t \in Technicians,
               NEW o \in Outcomes, Begin(h, s, t, o)
        PROVE  TypeOK'
    <3>1. clock + 1 \in Times
      BY <2>2, ClockAssumption DEF Begin, Times
    <3>2. [step |-> "begun", session |-> s, tech |-> t, outcome |-> o,
           began |-> clock + 1, score |-> 0] \in Transaction
      BY <3>1 DEF Transaction, Steps
    <3>3. QED
      BY <2>2, <3>1, <3>2 DEF Begin
  <2>3. ASSUME NEW h \in Handlers, SelectSession(h)
        PROVE  TypeOK'
    <3>1. tx[h] \in Transaction
      BY <2>3, OpenIsTransaction DEF SelectSession, Active
    <3>2. QED
      BY <2>3, <3>1 DEF SelectSession, Advance, End, Transaction, Steps
  <2>4. ASSUME NEW h \in Handlers, UpdateOutcome(h)
        PROVE  TypeOK'
    <3>1. tx[h] \in Transaction
      BY <2>4, OpenIsTransaction DEF UpdateOutcome, Active
    <3>2. QED
      BY <2>4, <3>1 DEF UpdateOutcome, Advance, Transaction, Steps
  <2>5. ASSUME NEW h \in Handlers, InsertResolution(h)
        PROVE  TypeOK'
    <3>1. tx[h] \in Transaction
      BY <2>5, OpenIsTransaction DEF InsertResolution, Active
    <3>2. QED
      BY <2>5, <3>1 DEF InsertResolution, Advance, Transaction, Steps
  <2>6. ASSUME NEW h \in Handlers, UpdateReputation(h)
        PROVE  TypeOK'
    <3>1. tx[h] \in Transaction
      BY <2>6, OpenIsTransaction DEF UpdateReputation, Active
    <3>2. RewardedScore(h) \in Nat
      BY <3>1, ScoreAssumption DEF RewardedScore, Transaction
    <3>3. QED
      BY <2>6, <3>1, <3>2 DEF UpdateReputation, Transaction, Steps
  <2>7. ASSUME NEW h \in Handlers, Commit(h)
        PROVE  TypeOK'
    <3>1. tx[h] \in Transaction
      BY <2>7, OpenIsTransaction DEF Commit, ReadyToCommit, Active
    <3>2. NewResolution(h) \in ResolutionRow
      BY <3>1 DEF NewResolution, ResolutionRow, Transaction, Verified
    <3>3. sessions' \in [SessionIds -> SessionRow]
      BY <2>7, <3>1 DEF Commit, SessionRow, Transaction
    <3>4. reputation' \in [Technicians -> Nat]
      BY <2>7, <3>1 DEF Commit, Transaction
    <3>5. QED
      BY <2>7, <3>2, <3>3, <3>4 DEF Commit, End
  <2>8. ASSUME NEW h \in Handlers, Rollback(h)
        PROVE  TypeOK'
    BY <2>8 DEF Rollback, End
  <2>9. CASE UNCHANGED vars
    BY <2>9 DEF vars
  <2>10. QED
    BY <2>1, <2>2, <2>3, <2>4, <2>5, <2>6, <2>7, <2>8, <2>9 DEF Next, Step
<1>3. QED
  BY <1>1, <1>2, PTL DEF Spec

-----------------------------------------------------------------------------
(* Steps that touch no table and move one transaction from one step to a   *)
(* later one, or end it.                                                   *)
LEMMA QuietStep ==
  ASSUME IInv, TypeOK', NEW h \in Handlers, Active(h),
         UNCHANGED <<sessions, resolutions, reputation, clock>>,
         \/ End(h)
         \/ /\ \E to \in Steps \ {"begun", "rewarded"} : Advance(h, to)
            /\ MayClose(h)
  PROVE  IInv'
<1>1. tx[h] \in Transaction
  BY OpenIsTransaction DEF IInv
<1>2. \A g \in Handlers : g # h => tx'[g] = tx[g]
  BY DEF End, Advance, IInv, TypeOK
<1>3. \/ tx'[h] = NoTransaction
      \/ /\ tx'[h].step \in Steps \ {"begun", "rewarded"}
         /\ tx'[h].began = tx[h].began
         /\ tx'[h].session = tx[h].session
         /\ tx'[h].tech = tx[h].tech
         /\ MayClose(h)
  <2>1. CASE End(h)
    BY <2>1 DEF End, IInv, TypeOK
  <2>2. CASE /\ \E to \in Steps \ {"begun", "rewarded"} : Advance(h, to)
             /\ MayClose(h)
    <3>1. PICK to \in Steps \ {"begun", "rewarded"} : Advance(h, to)
      BY <2>2
    <3>2. tx'[h] = [tx[h] EXCEPT !.step = to]
      BY <3>1 DEF Advance, IInv, TypeOK
    <3>3. QED
      BY <1>1, <2>2, <3>2 DEF Transaction
  <2>3. QED
    BY <2>1, <2>2
<1>4. TransactionInv'
  BY <1>2, <1>3 DEF IInv, TransactionInv, Active, MayClose, Verified, NoTransaction, Steps
<1>5. DistinctInv'
  BY <1>2, <1>3 DEF IInv, DistinctInv, Active, NoTransaction, Steps
<1>6. FileInv' /\ SessionInv' /\ RewardMatchesFixes'
  BY DEF IInv, FileInv, SessionInv, RewardMatchesFixes, LastCommitted, LastBegun,
         ResolutionsOf
<1>7. QED
  BY <1>4, <1>5, <1>6 DEF IInv

(* A new visit has no resolution, and no transaction has selected it.      *)
LEMMA OpenSessionStep ==
  ASSUME IInv, TypeOK', NEW s \in SessionIds, NEW t \in Technicians, OpenSession(s, t)
  PROVE  IInv'
<1> USE DEF OpenSession
<1>1. /\ sessions'[s] = [opener |-> t, outcome |-> "open"]
      /\ \A z \in SessionIds : z # s => sessions'[z] = sessions[z]
  BY DEF IInv, TypeOK
<1>2. /\ "open" \notin Outcomes
      /\ ResolutionsOf(s) = {}
  BY DEF IInv, SessionInv, Outcomes
<1>3. \A r \in resolutions : r.session \in SessionIds /\ r.session # s
  BY <1>2 DEF IInv, TypeOK, ResolutionRow, ResolutionsOf
<1>4. TransactionInv'
  <2> SUFFICES ASSUME NEW h \in Handlers, Active(h)
               PROVE  /\ tx[h].began \in 1 .. clock
                      /\ tx[h].step # "begun" => MayClose(h)'
                      /\ tx[h].step = "rewarded" =>
                           Verified(h) /\ tx[h].score = reputation[tx[h].tech] + Reward
                      /\ \A r \in resolutions : r.began # tx[h].began
    BY DEF TransactionInv, Active, Verified
  <2>1. tx[h].session \in SessionIds
    BY OpenIsTransaction DEF IInv, Transaction
  <2>2. tx[h].step # "begun" => MayClose(h)'
    BY <1>1, <2>1 DEF IInv, TransactionInv, MayClose
  <2>3. QED
    BY <2>2 DEF IInv, TransactionInv
<1>5. DistinctInv'
  BY DEF IInv, DistinctInv, Active
<1>6. FileInv'
  BY <1>1, <1>3 DEF IInv, FileInv
<1>7. SessionInv'
  BY <1>1, <1>2 DEF IInv, SessionInv, LastCommitted, LastBegun, ResolutionsOf
<1>8. RewardMatchesFixes'
  BY DEF IInv, RewardMatchesFixes
<1>9. QED
  BY <1>4, <1>5, <1>6, <1>7, <1>8 DEF IInv

(* BEGIN takes a time nobody has had.                                      *)
LEMMA BeginStep ==
  ASSUME IInv, TypeOK', NEW h \in Handlers, NEW s \in SessionIds,
         NEW t \in Technicians, NEW o \in Outcomes, Begin(h, s, t, o)
  PROVE  IInv'
<1> USE DEF Begin
<1>1. /\ tx'[h].step = "begun"
      /\ tx'[h].began = clock + 1
      /\ \A g \in Handlers : g # h => tx'[g] = tx[g]
  BY DEF IInv, TypeOK
<1>2. clock \in Nat /\ clock' = clock + 1
  BY ClockAssumption DEF IInv, TypeOK, Times
<1>3. \A r \in resolutions : /\ r.began \in Nat /\ r.ended \in Nat
                            /\ r.began <= clock
  BY <1>2 DEF IInv, TypeOK, ResolutionRow, FileInv, Times
<1>4. TransactionInv'
  BY <1>1, <1>2, <1>3 DEF IInv, TransactionInv, Active, MayClose, Verified
<1>5. DistinctInv'
  BY <1>1, <1>2 DEF IInv, TransactionInv, DistinctInv, Active
<1>6. FileInv'
  BY <1>2, <1>3 DEF IInv, FileInv
<1>7. SessionInv' /\ RewardMatchesFixes'
  BY DEF IInv, SessionInv, RewardMatchesFixes, LastCommitted, LastBegun, ResolutionsOf
<1>8. QED
  BY <1>4, <1>5, <1>6, <1>7 DEF IInv

(* The reputation row is free when a transaction locks it.                 *)
LEMMA UpdateReputationStep ==
  ASSUME IInv, TypeOK', NEW h \in Handlers, UpdateReputation(h)
  PROVE  IInv'
<1>1. tx[h] \in Transaction /\ Active(h) /\ MayClose(h) /\ Verified(h)
  BY OpenIsTransaction DEF UpdateReputation, IInv, TransactionInv, Active
<1>2. /\ tx'[h].step = "rewarded"
      /\ tx'[h].score = reputation[tx[h].tech] + Reward
      /\ tx'[h].began = tx[h].began
      /\ tx'[h].session = tx[h].session
      /\ tx'[h].tech = tx[h].tech
      /\ tx'[h].outcome = tx[h].outcome
      /\ \A g \in Handlers : g # h => tx'[g] = tx[g]
  <2>1. tx'[h] = [tx[h] EXCEPT !.step = "rewarded", !.score = RewardedScore(h)]
    BY DEF UpdateReputation, IInv, TypeOK
  <2>2. \A g \in Handlers : g # h => tx'[g] = tx[g]
    BY DEF UpdateReputation, IInv, TypeOK
  <2>3. QED
    BY <1>1, <2>1, <2>2 DEF Transaction, RewardedScore
<1>3. UNCHANGED <<sessions, resolutions, reputation, clock>> /\ TechnicianFree(tx[h].tech)
  BY DEF UpdateReputation
<1>4. TransactionInv'
  BY <1>1, <1>2, <1>3 DEF IInv, TransactionInv, Active, MayClose, Verified
<1>5. DistinctInv'
  BY <1>1, <1>2, <1>3 DEF IInv, DistinctInv, Active, TechnicianFree, LocksTechnician
<1>6. FileInv' /\ SessionInv' /\ RewardMatchesFixes'
  BY <1>3 DEF IInv, FileInv, SessionInv, RewardMatchesFixes, LastCommitted, LastBegun,
              ResolutionsOf
<1>7. QED
  BY <1>4, <1>5, <1>6 DEF IInv

(* What COMMIT does, with the record updates unfolded.                     *)
LEMMA CommitEffect ==
  ASSUME IInv, NEW h \in Handlers, Commit(h)
  PROVE  /\ tx[h] \in Transaction /\ Active(h) /\ MayClose(h)
         /\ sessions'[tx[h].session].outcome = tx[h].outcome
         /\ sessions'[tx[h].session].opener = tx[h].tech
         /\ \A s \in SessionIds : s # tx[h].session => sessions'[s] = sessions[s]
         /\ \A s \in SessionIds : sessions'[s].opener = sessions[s].opener
         /\ tx'[h] = NoTransaction
         /\ \A g \in Handlers : g # h => tx'[g] = tx[g]
         /\ reputation' = IF Verified(h)
                          THEN [reputation EXCEPT ![tx[h].tech] = @ + Reward]
                          ELSE reputation
         /\ NewResolution(h) \notin resolutions
         /\ NewResolution(h).session = tx[h].session
         /\ NewResolution(h).tech = tx[h].tech
         /\ NewResolution(h).verified = Verified(h)
         /\ NewResolution(h).began = tx[h].began
         /\ NewResolution(h).ended = clock
         /\ Verdict(NewResolution(h)) = tx[h].outcome
<1>1. tx[h] \in Transaction /\ Active(h) /\ MayClose(h)
  BY OpenIsTransaction DEF Commit, ReadyToCommit, IInv, TransactionInv, Active
<1>2. sessions' = [sessions EXCEPT ![tx[h].session] =
                     [sessions[tx[h].session] EXCEPT !.outcome = tx[h].outcome]]
  BY DEF Commit
<1>3. tx[h].session \in SessionIds /\ tx[h].tech \in Technicians
      /\ tx[h].outcome \in Outcomes
  BY <1>1 DEF Transaction
<1>4. sessions'[tx[h].session] =
        [sessions[tx[h].session] EXCEPT !.outcome = tx[h].outcome]
  BY <1>2, <1>3 DEF IInv, TypeOK
<1>5. /\ sessions'[tx[h].session].outcome = tx[h].outcome
      /\ sessions'[tx[h].session].opener = tx[h].tech
  <2>1. sessions[tx[h].session] \in SessionRow
    BY <1>3 DEF IInv, TypeOK
  <2>2. QED
    BY <1>1, <1>4, <2>1 DEF SessionRow, MayClose
<1>6. \A s \in SessionIds : s # tx[h].session => sessions'[s] = sessions[s]
  BY <1>2 DEF IInv, TypeOK
<1>7. \A s \in SessionIds : sessions'[s].opener = sessions[s].opener
  BY <1>1, <1>5, <1>6 DEF MayClose
<1>8. /\ tx'[h] = NoTransaction
      /\ \A g \in Handlers : g # h => tx'[g] = tx[g]
  BY DEF Commit, End, IInv, TypeOK
<1>9. reputation' = IF Verified(h)
                    THEN [reputation EXCEPT ![tx[h].tech] = @ + Reward]
                    ELSE reputation
  <2>1. CASE Verified(h)
    <3>1. tx[h].step = "rewarded"
      BY <2>1 DEF Commit, ReadyToCommit
    <3>2. tx[h].score = reputation[tx[h].tech] + Reward
      BY <1>1, <3>1 DEF IInv, TransactionInv
    <3>3. QED
      BY <2>1, <3>2 DEF Commit
  <2>2. CASE ~Verified(h)
    BY <2>2 DEF Commit
  <2>3. QED
    BY <2>1, <2>2
<1>10. /\ NewResolution(h).session = tx[h].session
       /\ NewResolution(h).tech = tx[h].tech
       /\ NewResolution(h).verified = Verified(h)
       /\ NewResolution(h).began = tx[h].began
       /\ NewResolution(h).ended = clock
  BY DEF NewResolution
<1>11. NewResolution(h) \notin resolutions
  BY <1>1, <1>10 DEF IInv, TransactionInv
<1>12. Verdict(NewResolution(h)) = tx[h].outcome
  BY <1>3, <1>10 DEF Verdict, Verified, Outcomes
<1>13. QED
  BY <1>1, <1>5, <1>6, <1>7, <1>8, <1>9, <1>10, <1>11, <1>12

(* The committed resolution is one fix more when it is verified.           *)
LEMMA CommitRewards ==
  ASSUME IInv, NEW h \in Handlers, Commit(h)
  PROVE  RewardMatchesFixes'
<1> DEFINE Fixes(t) == {r \in resolutions : r.tech = t /\ r.verified}
<1> DEFINE new == NewResolution(h)
<1>1. resolutions' = resolutions \cup {new}
  BY DEF Commit
<1>2. new \notin resolutions /\ new.tech = tx[h].tech /\ new.verified = Verified(h)
  BY CommitEffect
<1>3. tx[h].tech \in Technicians
  BY CommitEffect DEF Transaction
<1>4. \A t \in Technicians : IsFiniteSet(Fixes(t)) /\ Cardinality(Fixes(t)) \in Nat
  BY FS_Subset, FS_CardinalityType DEF IInv, FileInv
<1>5. reputation' = IF Verified(h)
                    THEN [reputation EXCEPT ![tx[h].tech] = @ + Reward]
                    ELSE reputation
  BY CommitEffect
<1>6. SUFFICES ASSUME NEW t \in Technicians
               PROVE  reputation'[t] = StartReputation + Reward * Cardinality(Fixes(t)')
  BY DEF RewardMatchesFixes
<1>7. reputation[t] = StartReputation + Reward * Cardinality(Fixes(t))
  BY DEF IInv, RewardMatchesFixes
<1>8. CASE t = tx[h].tech /\ Verified(h)
  <2>1. Fixes(t)' = Fixes(t) \cup {new}
    BY <1>1, <1>2, <1>8
  <2>2. Cardinality(Fixes(t)') = Cardinality(Fixes(t)) + 1
    BY <1>2, <1>4, <2>1, FS_AddElement
  <2>3. reputation'[t] = reputation[t] + Reward
    BY <1>3, <1>5, <1>8 DEF IInv, TypeOK
  <2> DEFINE n == Cardinality(Fixes(t))
  <2>4. n \in Nat /\ Reward \in Nat /\ StartReputation \in Nat
    BY <1>4, ScoreAssumption
  <2>5. Cardinality(Fixes(t)') = n + 1 /\ reputation[t] = StartReputation + Reward * n
    BY <1>7, <2>2
  <2> HIDE DEF n
  <2>6. Reward * (n + 1) = Reward * n + Reward
    BY <2>4
  <2>7. Reward * n \in Nat
    BY <2>4
  <2>8. QED
    BY <2>3, <2>4, <2>5, <2>6, <2>7
<1>9. CASE ~(t = tx[h].tech /\ Verified(h))
  <2>1. Fixes(t)' = Fixes(t)
    BY <1>1, <1>2, <1>9
  <2>2. reputation'[t] = reputation[t]
    BY <1>3, <1>5, <1>9 DEF IInv, TypeOK
  <2>3. QED
    BY <1>7, <2>1, <2>2
<1>10. QED
  BY <1>8, <1>9

(* The row that COMMIT makes visible committed last, so the outcome it     *)
(* sets is the one of the session's last committed resolution.             *)
LEMMA CommitSession ==
  ASSUME IInv, TypeOK', NEW h \in Handlers, Commit(h)
  PROVE  SessionInv'
<1>0. PICK new : new = NewResolution(h)
  OBVIOUS
<1>1. /\ tx[h].session \in SessionIds /\ tx[h].outcome \in Outcomes
      /\ sessions'[tx[h].session].outcome = tx[h].outcome
      /\ \A s \in SessionIds : s # tx[h].session => sessions'[s] = sessions[s]
      /\ new.session = tx[h].session /\ new.ended = clock /\ new.began = tx[h].began
      /\ Verdict(new) = tx[h].outcome
  BY <1>0, CommitEffect DEF Transaction
<1>2. resolutions' = resolutions \cup {new} /\ clock' = clock
  BY <1>0 DEF Commit
<1>3. \A r \in resolutions' : r.began \in Nat /\ r.ended \in Nat
  BY DEF TypeOK, ResolutionRow, Times
<1>4. \A r \in resolutions : r.ended <= clock
  BY DEF IInv, FileInv
<1>5. clock \in Nat
  BY DEF IInv, TypeOK, Times
<1> SUFFICES ASSUME NEW s \in SessionIds
             PROVE  IF sessions'[s].outcome \in Outcomes
                    THEN /\ \E r \in ResolutionsOf(s)' : LastCommitted(s, r)'
                         /\ \E r \in ResolutionsOf(s)' : LastBegun(s, r)'
                    ELSE ResolutionsOf(s)' = {}
  BY DEF SessionInv
<1>6. CASE s = tx[h].session
  <2>1. ResolutionsOf(s)' = ResolutionsOf(s) \cup {new} /\ new \in ResolutionsOf(s)'
    BY <1>1, <1>2, <1>6 DEF ResolutionsOf
  <2>2. \A q \in ResolutionsOf(s)' : q \in resolutions'
    BY DEF ResolutionsOf
  <2>3. LastCommitted(s, new)'
    <3>1. \A q \in ResolutionsOf(s)' : q.ended <= new.ended
      BY <1>1, <1>2, <1>4, <1>5, <2>1, <2>2
    <3>2. sessions'[s].outcome = Verdict(new)
      BY <1>1, <1>6
    <3>3. QED
      BY <3>1, <3>2 DEF LastCommitted
  <2>4. \E r \in ResolutionsOf(s)' : LastBegun(s, r)'
    <3>1. CASE ResolutionsOf(s) = {}
      BY <1>3, <2>1, <2>2, <3>1 DEF LastBegun
    <3>2. CASE ResolutionsOf(s) # {}
      <4>1. PICK r \in ResolutionsOf(s) : LastBegun(s, r)
        BY <3>2 DEF IInv, SessionInv
      <4>2. CASE new.began <= r.began
        BY <1>3, <2>1, <2>2, <4>1, <4>2 DEF LastBegun
      <4>3. CASE r.began < new.began
        <5>1. \A q \in ResolutionsOf(s)' : q.began <= new.began
          BY <1>3, <2>1, <2>2, <4>1, <4>3 DEF LastBegun
        <5>2. QED
          BY <2>1, <5>1 DEF LastBegun
      <4>4. QED
        BY <1>3, <2>1, <2>2, <4>1, <4>2, <4>3
    <3>3. QED
      BY <3>1, <3>2
  <2>5. QED
    BY <1>1, <1>6, <2>1, <2>3, <2>4
<1>7. CASE s # tx[h].session
  <2>1. ResolutionsOf(s)' = ResolutionsOf(s) /\ sessions'[s] = sessions[s]
    BY <1>1, <1>2, <1>7 DEF ResolutionsOf
  <2>2. QED
    BY <2>1 DEF IInv, SessionInv, LastCommitted, LastBegun
<1>8. QED
  BY <1>6, <1>7

LEMMA CommitStep ==
  ASSUME IInv, TypeOK', NEW h \in Handlers, Commit(h)
  PROVE  IInv'
<1> DEFINE new == NewResolution(h)
<1>1. /\ tx[h] \in Transaction /\ Active(h)
      /\ tx'[h] = NoTransaction
      /\ \A g \in Handlers : g # h => tx'[g] = tx[g]
      /\ sessions'[tx[h].session].outcome = tx[h].outcome
      /\ \A s \in SessionIds : s # tx[h].session => sessions'[s] = sessions[s]
      /\ \A s \in SessionIds : sessions'[s].opener = sessions[s].opener
      /\ sessions'[tx[h].session].opener = tx[h].tech
      /\ new.session = tx[h].session /\ new.tech = tx[h].tech
      /\ new.began = tx[h].began /\ new.ended = clock
  BY CommitEffect
<1>2. resolutions' = resolutions \cup {new} /\ clock' = clock
  BY DEF Commit
<1>3. tx[h].session \in SessionIds /\ tx[h].outcome \in Outcomes
      /\ tx[h].tech \in Technicians
  BY <1>1 DEF Transaction
<1>4. TransactionInv'
  <2> SUFFICES ASSUME NEW g \in Handlers, Active(g)'
               PROVE  /\ tx'[g].began \in 1 .. clock'
                      /\ tx'[g].step # "begun" => MayClose(g)'
                      /\ tx'[g].step = "rewarded" =>
                           /\ Verified(g)'
                           /\ tx'[g].score = reputation'[tx'[g].tech] + Reward
                      /\ \A r \in resolutions' : r.began # tx'[g].began
    BY DEF TransactionInv
  <2>1. g # h /\ tx'[g] = tx[g] /\ Active(g)
    BY <1>1 DEF Active, NoTransaction
  <2>2. tx[g] \in Transaction
    BY <2>1, OpenIsTransaction DEF IInv
  <2>3. tx[g].began \in 1 .. clock /\ \A r \in resolutions' : r.began # tx[g].began
    BY <1>1, <1>2, <2>1 DEF IInv, TransactionInv, DistinctInv
  <2>4. tx[g].step # "begun" => MayClose(g)'
    <3>1. "none" \notin Outcomes
      BY DEF Outcomes
    <3>2. tx[g].session \in SessionIds
      BY <2>2 DEF Transaction
    <3>3. QED
      BY <1>1, <1>3, <2>1, <3>1, <3>2 DEF IInv, TransactionInv, MayClose
  <2>5. tx[g].step = "rewarded" => reputation'[tx[g].tech] = reputation[tx[g].tech]
    <3>1. SUFFICES ASSUME tx[g].step = "rewarded", Verified(h)
                   PROVE  reputation'[tx[g].tech] = reputation[tx[g].tech]
      BY CommitEffect
    <3>2. tx[h].step = "rewarded"
      BY <3>1 DEF Commit, ReadyToCommit
    <3>3. tx[g].tech # tx[h].tech
      BY <2>1, <3>1, <3>2 DEF IInv, DistinctInv
    <3>4. reputation' = [reputation EXCEPT ![tx[h].tech] = @ + Reward]
      BY <3>1, CommitEffect
    <3>5. tx[g].tech \in Technicians
      BY <2>2 DEF Transaction
    <3>6. QED
      BY <3>3, <3>4, <3>5 DEF IInv, TypeOK
  <2>6. QED
    BY <1>2, <2>1, <2>3, <2>4, <2>5 DEF IInv, TransactionInv, Verified
<1>5. DistinctInv'
  BY <1>1 DEF IInv, DistinctInv, Active, NoTransaction
<1>6. FileInv'
  <2>1. IsFiniteSet(resolutions')
    BY <1>2, FS_AddElement DEF IInv, FileInv
  <2>2. \A r \in resolutions : r.session \in SessionIds
    BY DEF IInv, TypeOK, ResolutionRow
  <2>3. new.began <= new.ended
    BY <1>1 DEF IInv, TransactionInv
  <2>4. clock <= clock
    BY DEF IInv, TypeOK, Times
  <2>5. QED
    BY <1>1, <1>2, <1>3, <2>1, <2>2, <2>3, <2>4 DEF IInv, FileInv
<1>7. QED
  BY <1>4, <1>5, <1>6, CommitSession, CommitRewards DEF IInv

-----------------------------------------------------------------------------
(* IInv holds in every reachable state.                                    *)
THEOREM IndInvariant == Spec => []IInv
<1>1. Init => IInv
  <2> SUFFICES ASSUME Init PROVE IInv
    OBVIOUS
  <2>1. TypeOK
    BY NoTechAssumption, ScoreAssumption, ClockAssumption
       DEF Init, TypeOK, SessionRow, ResolutionRow, Times, NoTransaction
  <2>2. TransactionInv /\ DistinctInv
    BY DEF Init, TransactionInv, DistinctInv, Active, NoTransaction
  <2>3. FileInv
    BY FS_EmptySet DEF Init, FileInv
  <2>4. SessionInv
    BY DEF Init, SessionInv, ResolutionsOf, Outcomes
  <2>5. RewardMatchesFixes
    <3>1. \A t \in Technicians : {r \in resolutions : r.tech = t /\ r.verified} = {}
      BY DEF Init
    <3>2. Cardinality({}) = 0
      BY FS_EmptySet
    <3>3. \A t \in Technicians : reputation[t] = StartReputation
      BY DEF Init
    <3>4. StartReputation + Reward * 0 = StartReputation
      BY ScoreAssumption
    <3>5. QED
      BY <3>1, <3>2, <3>3, <3>4 DEF RewardMatchesFixes
  <2>6. QED
    BY <2>1, <2>2, <2>3, <2>4, <2>5 DEF IInv
<1>2. IInv /\ TypeOK' /\ [Next]_vars => IInv'
  <2> SUFFICES ASSUME IInv, TypeOK', [Next]_vars PROVE IInv'
    OBVIOUS
  <2>1. ASSUME NEW s \in SessionIds, NEW t \in Technicians, OpenSession(s, t)
        PROVE  IInv'
    BY <2>1, OpenSessionStep
  <2>2. ASSUME NEW h \in Handlers, NEW s \in SessionIds, NEW t \in Technicians,
               NEW o \in Outcomes, Begin(h, s, t, o)
        PROVE  IInv'
    BY <2>2, BeginStep
  <2>3. ASSUME NEW h \in Handlers, SelectSession(h)
        PROVE  IInv'
    <3>1. Active(h) /\ UNCHANGED <<sessions, resolutions, reputation, clock>>
      BY <2>3 DEF SelectSession, Active
    <3>2. End(h) \/ (Advance(h, "checked") /\ MayClose(h))
      BY <2>3 DEF SelectSession
    <3>3. QED
      BY <3>1, <3>2, QuietStep DEF Steps
  <2>4. ASSUME NEW h \in Handlers, UpdateOutcome(h)
        PROVE  IInv'
    <3>1. Active(h) /\ UNCHANGED <<sessions, resolutions, reputation, clock>>
          /\ Advance(h, "updated")
      BY <2>4 DEF UpdateOutcome, Active
    <3>2. MayClose(h)
      BY <2>4, <3>1 DEF UpdateOutcome, IInv, TransactionInv
    <3>3. QED
      BY <3>1, <3>2, QuietStep DEF Steps
  <2>5. ASSUME NEW h \in Handlers, InsertResolution(h)
        PROVE  IInv'
    <3>1. Active(h) /\ UNCHANGED <<sessions, resolutions, reputation, clock>>
          /\ Advance(h, "resolved")
      BY <2>5 DEF InsertResolution, Active
    <3>2. MayClose(h)
      BY <2>5, <3>1 DEF InsertResolution, IInv, TransactionInv
    <3>3. QED
      BY <3>1, <3>2, QuietStep DEF Steps
  <2>6. ASSUME NEW h \in Handlers, UpdateReputation(h)
        PROVE  IInv'
    BY <2>6, UpdateReputationStep
  <2>7. ASSUME NEW h \in Handlers, Commit(h)
        PROVE  IInv'
    BY <2>7, CommitStep
  <2>8. ASSUME NEW h \in Handlers, Rollback(h)
        PROVE  IInv'
    BY <2>8, QuietStep DEF Rollback, Active
  <2>9. CASE UNCHANGED vars
    BY <2>9 DEF vars, IInv, TransactionInv, DistinctInv, FileInv, SessionInv,
                RewardMatchesFixes, Active, MayClose, Verified, LastCommitted,
                LastBegun, ResolutionsOf
  <2>10. QED
    BY <2>1, <2>2, <2>3, <2>4, <2>5, <2>6, <2>7, <2>8, <2>9 DEF Next, Step
<1>3. QED
  BY <1>1, <1>2, TypeCorrect, PTL DEF Spec

(* Whatever the interleaving of closeouts and failures, a technician's     *)
(* reputation_score is the starting score plus the reward of each verified *)
(* fix on file (ledger.Closeout).                                          *)
THEOREM ReputationEarned == Spec => []RewardMatchesFixes
<1>1. IInv => RewardMatchesFixes
  BY DEF IInv
<1>2. QED
  BY <1>1, IndInvariant, PTL

(* A session is closed exactly when it has a resolution with its verdict,  *)
(* and every resolution is its opener's (ledger.Closeout).                 *)
THEOREM OutcomeExplained == Spec => []OutcomeHasResolution
<1>1. IInv => OutcomeHasResolution
  BY DEF IInv, SessionInv, FileInv, LastCommitted, OutcomeHasResolution
<1>2. QED
  BY <1>1, IndInvariant, PTL

(* History shows a resolution whose verdict is not the session's outcome   *)
(* only if another closeout of the session was under way at the same time  *)
(* (the lateral join of ledger.History).                                   *)
THEOREM HistoryAgrees == Spec => []HistoryAgreesUnlessOverlap
<1>1. IInv => HistoryAgreesUnlessOverlap
  <2> SUFFICES ASSUME IInv, NEW s \in SessionIds, ResolutionsOf(s) # {},
                      sessions[s].outcome # Verdict(NewestResolution(s))
               PROVE  \E r \in ResolutionsOf(s) \ {NewestResolution(s)} :
                        /\ r.began <= NewestResolution(s).ended
                        /\ NewestResolution(s).began <= r.ended
    BY DEF HistoryAgreesUnlessOverlap
  <2> DEFINE shown == NewestResolution(s)
  <2>1. sessions[s].outcome \in Outcomes
    BY DEF IInv, SessionInv
  <2>2. PICK last \in ResolutionsOf(s) : LastCommitted(s, last)
    BY <2>1 DEF IInv, SessionInv
  <2>3. shown \in ResolutionsOf(s) /\ LastBegun(s, shown)
    <3>1. \E r \in ResolutionsOf(s) : \A q \in ResolutionsOf(s) : q.began <= r.began
      BY <2>1 DEF IInv, SessionInv, LastBegun
    <3>2. QED
      BY <3>1 DEF NewestResolution, LastBegun
  <2>4. last # shown
    BY <2>2 DEF LastCommitted
  <2>5. shown.ended <= last.ended
    BY <2>2, <2>3 DEF LastCommitted
  <2>6. shown.began <= shown.ended
    BY <2>3 DEF IInv, FileInv, ResolutionsOf
  <2>7. /\ shown.began \in Nat /\ shown.ended \in Nat
        /\ last.began \in Nat /\ last.ended \in Nat
    BY <2>2, <2>3 DEF IInv, TypeOK, ResolutionsOf, ResolutionRow, Times
  <2>8. last.began <= shown.began
    BY <2>2, <2>3 DEF LastBegun
  <2> HIDE DEF shown
  <2>9. shown.began <= last.ended /\ last.began <= shown.ended
    BY <2>5, <2>6, <2>7, <2>8
  <2>10. QED
    BY <2>2, <2>4, <2>9 DEF shown
<1>2. QED
  BY <1>1, IndInvariant, PTL

(* The transaction of ledger.Closeout implements one atomic step: every    *)
(* step of it but COMMIT leaves the file as it was.                        *)
THEOREM CloseoutImplementsAtomic == Spec => CloseoutIsAtomic
<1>1. Init => Atomic!Init
  BY DEF Init, Atomic!Init
<1>2. IInv /\ [Next]_vars => [Atomic!Next]_(Atomic!ledger)
  <2> SUFFICES ASSUME IInv, [Next]_vars, ~UNCHANGED <<sessions, resolutions, reputation>>
               PROVE  Atomic!Next
    BY DEF Atomic!ledger
  <2>1. ASSUME NEW s \in SessionIds, NEW t \in Technicians, OpenSession(s, t)
        PROVE  Atomic!Next
    BY <2>1 DEF OpenSession, Atomic!Open, Atomic!Next
  <2>2. ASSUME NEW h \in Handlers, Commit(h)
        PROVE  Atomic!Next
    <3>1. tx[h] \in Transaction /\ MayClose(h)
      BY <2>2, CommitEffect
    <3>2. Atomic!VerdictOf(Verified(h)) = tx[h].outcome
      BY <3>1 DEF Atomic!VerdictOf, Verified, Transaction, Outcomes
    <3>3. reputation' = IF Verified(h)
                        THEN [reputation EXCEPT ![tx[h].tech] = @ + Reward]
                        ELSE reputation
      BY <2>2, CommitEffect
    <3>4. /\ sessions' = [sessions EXCEPT ![tx[h].session].outcome = tx[h].outcome]
          /\ resolutions' = resolutions \cup
               {[session |-> tx[h].session, tech |-> tx[h].tech,
                 verified |-> Verified(h), began |-> tx[h].began, ended |-> clock]}
      BY <2>2 DEF Commit, NewResolution
    <3>5. Atomic!Close(tx[h].session, Verified(h), tx[h].began, clock)
      BY <3>1, <3>2, <3>3, <3>4 DEF Atomic!Close, MayClose
    <3>6. /\ tx[h].session \in SessionIds /\ Verified(h) \in BOOLEAN
          /\ tx[h].began \in Times /\ clock \in Times
      BY <3>1 DEF Transaction, Verified, IInv, TypeOK
    <3>7. QED
      BY <3>5, <3>6 DEF Atomic!Next
  <2>3. QED
    BY <2>1, <2>2 DEF Next, Step, Begin, SelectSession, UpdateOutcome, InsertResolution,
                      UpdateReputation, Rollback, vars
<1>3. QED
  BY <1>1, <1>2, IndInvariant, PTL DEF Spec, CloseoutIsAtomic, Atomic!Spec
=============================================================================
