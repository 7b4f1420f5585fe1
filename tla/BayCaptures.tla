------------------------------ MODULE BayCaptures ------------------------------
(***************************************************************************)
(* From the scan in the bay to the bus map in the ledger: the bay's queue  *)
(* (OfflineQueue, here with the capture path of one vehicle) in front of   *)
(* the handler that merges a capture into its row (BusCapture).  A fetch   *)
(* is a request at the ledger until it is answered; when the bay gives up  *)
(* on it, or is reloaded, the request goes on and may still write.         *)
(***************************************************************************)
EXTENDS BusCapture, Sequences

CONSTANTS
  Path,       \* /api/v1/vehicles/{vin}/capture
  Post,       \* the path of sessions and closeouts: not used here
  Flushes,    \* flushes that may overlap
  MaxSaves,   \* bound: scans saved
  MaxLosses,  \* bound: answers and requests lost
  MaxEvents,  \* bound: the ledger going down or up, and page reloads
  Nobody      \* the bay no longer awaits the request

ASSUME PathAssumption == Post # Path
ASSUME SavesAssumption == {MaxSaves, MaxLosses, MaxEvents} \subseteq Nat

VARIABLES
  queue, flush, direct, online, up, posted, stored, budget,  \* as in
  queued, exposed, doubled, latest, raced,                   \*   OfflineQueue
  scanOf,    \* the scan of each save
  carries,   \* the save that a request at the ledger carries
  awaits,    \* the flush, or the number of the direct PUT, that awaits it
  onTheWay,  \* saves sent in a fetch that the bay gave up on, not yet read
  replaced,  \* history: saves that a newer one replaced in the queue
  cut,       \* history: direct PUTs that a reload cut off
  orphaned   \* history: a request wrote that nobody awaited

bayState == <<queue, flush, direct, online, up, posted, stored, budget,
              queued, exposed, doubled, latest, raced>>
fetches == <<carries, awaits, onTheWay>>
losses == <<replaced, cut, orphaned>>
allVars == <<vars, bayState, scanOf, fetches, losses>>

Bay == INSTANCE OfflineQueue WITH Keys <- {Path}

Senders == Flushes \cup Bay!Saves

ASSUME SendersAssumption == Flushes \cap Bay!Saves = {} /\ Nobody \notin Senders

CapturesInit ==
  /\ Init /\ Bay!Init
  /\ scanOf \in [Bay!Saves -> Scans]
  /\ carries = [h \in Handlers |-> 0]
  /\ awaits = [h \in Handlers |-> Nobody]
  /\ onTheWay = {}
  /\ replaced = {} /\ cut = {} /\ orphaned = FALSE

-----------------------------------------------------------------------------
Fetching(s) == \E h \in Handlers : request[h] # Idle /\ awaits[h] = s

(* The job that a flush or a direct PUT has in hand.                       *)
InHand(s) ==
  IF s \in Flushes THEN {Head(flush[f].todo) : f \in {s} \cap Bay!Running}
  ELSE {job \in direct : job.n = s}

SenderOk(s) ==
  IF s \in Flushes THEN Bay!SendOk(s) ELSE \E job \in InHand(s) : Bay!DirectOk(job)
SenderFails(s) ==
  IF s \in Flushes THEN Bay!SendFails(s) ELSE \E job \in InHand(s) : Bay!DirectFails(job)

(* What a save, or a PUT that failed, pushes out of the queue.             *)
NoteReplaced == replaced' = replaced \cup (queued \ queued')

(* persistBusCapture.                                                      *)
SaveScan ==
  /\ Bay!SaveOffline(Path, FALSE) \/ Bay!SaveOnline(Path, FALSE)
  /\ NoteReplaced
  /\ UNCHANGED <<vars, scanOf, fetches, cut, orphaned>>

(* A fetch reaches the ledger.                                             *)
Arrives(s, h) ==
  /\ up /\ ~Fetching(s)
  /\ \E job \in InHand(s) :
       /\ ReadCapture(h, scanOf[job.n])
       /\ carries' = [carries EXCEPT ![h] = job.n]
  /\ awaits' = [awaits EXCEPT ![h] = s]
  /\ UNCHANGED <<bayState, scanOf, onTheWay, losses>>

(* One that the bay no longer awaits.                                      *)
ArrivesLate(n, h) ==
  /\ ReadCapture(h, scanOf[n])
  /\ carries' = [carries EXCEPT ![h] = n]
  /\ awaits' = [awaits EXCEPT ![h] = Nobody]
  /\ onTheWay' = onTheWay \ {n}
  /\ UNCHANGED <<bayState, scanOf, losses>>

Writes(h) == UpdateCapture(h) \/ InsertCapture(h)

(* The row is written and the bay hears of it.                             *)
AnswerArrives(h) ==
  /\ awaits[h] # Nobody
  /\ Writes(h)
  /\ SenderOk(awaits[h])
  /\ UNCHANGED <<scanOf, fetches, losses>>

(* The row is written and the answer is lost.                              *)
AnswerLost(h) ==
  /\ awaits[h] # Nobody
  /\ Writes(h)
  /\ stored' = [stored EXCEPT ![Path] = carries[h]] /\ SenderFails(awaits[h])
  /\ NoteReplaced
  /\ UNCHANGED <<scanOf, fetches, cut, orphaned>>

(* A statement fails and the bay is told: 500.                             *)
RequestFails(h) ==
  /\ awaits[h] # Nobody
  /\ Fail(h)
  /\ UNCHANGED stored /\ SenderFails(awaits[h])
  /\ NoteReplaced
  /\ UNCHANGED <<scanOf, fetches, cut, orphaned>>

(* The bay gives up on a fetch, whether or not it has arrived; if not, it  *)
(* may still do so.                                                        *)
GivesUp(s) ==
  /\ UNCHANGED stored /\ SenderFails(s)
  /\ awaits' = [h \in Handlers |-> IF awaits[h] = s THEN Nobody ELSE awaits[h]]
  /\ \/ UNCHANGED onTheWay
     \/ up /\ ~Fetching(s) /\ onTheWay' = onTheWay \cup {job.n : job \in InHand(s)}
  /\ NoteReplaced
  /\ UNCHANGED <<vars, scanOf, carries, cut, orphaned>>

(* What became of a request that nobody awaits.                            *)
OrphanWrites(h) ==
  /\ awaits[h] = Nobody
  /\ Writes(h)
  /\ orphaned' = TRUE
  /\ UNCHANGED <<bayState, scanOf, fetches, replaced, cut>>

OrphanFails(h) ==
  /\ awaits[h] = Nobody
  /\ Fail(h)
  /\ UNCHANGED <<bayState, scanOf, fetches, losses>>

Misses(h) == UpdateMisses(h) /\ UNCHANGED <<bayState, scanOf, fetches, losses>>

TimerTicks(f) == Bay!Tick(f) /\ UNCHANGED <<vars, scanOf, fetches, losses>>

LedgerFlips == Bay!LedgerFlips /\ UNCHANGED <<vars, scanOf, fetches, losses>>

(* The page is gone; what it has sent is not.                              *)
Unread == {job.n : job \in UNION {InHand(s) : s \in {t \in Senders : ~Fetching(t)}}}

ReloadBay ==
  /\ Bay!Reload
  /\ awaits' = [h \in Handlers |-> Nobody]
  /\ cut' = cut \cup {job.n : job \in direct}
  /\ onTheWay' \in {onTheWay, onTheWay \cup Unread}
  /\ UNCHANGED <<vars, scanOf, carries, replaced, orphaned>>

CapturesNext ==
  \/ SaveScan
  \/ \E s \in Senders : (\E h \in Handlers : Arrives(s, h)) \/ GivesUp(s)
  \/ \E h \in Handlers :
       \/ \E n \in onTheWay : ArrivesLate(n, h)
       \/ AnswerArrives(h) \/ AnswerLost(h) \/ RequestFails(h)
       \/ OrphanWrites(h) \/ OrphanFails(h) \/ Misses(h)
  \/ \E f \in Flushes : TimerTicks(f)
  \/ LedgerFlips
  \/ ReloadBay

CapturesSpec == CapturesInit /\ [][CapturesNext]_allVars

-----------------------------------------------------------------------------
(* Nothing is on its way from the bay to the row.                          *)
Arrived ==
  /\ Bay!Running = {} /\ direct = {} /\ queue = <<>>
  /\ onTheWay = {} /\ \A h \in Handlers : request[h] = Idle

(* The nodes that the bay shows as reachable.                              *)
Reachable == {n \in Nodes : /\ row # Missing
                           /\ n \in DOMAIN row.modules /\ row.modules[n].reachable}

(* Once nothing is on its way, the map follows the bay's scans, through    *)
(* lost answers, repeated PUTs, reloads and requests that outlive them:    *)
(* each node that answered a scan is ever_reachable, unless the scan was   *)
(* replaced in the queue, queued under a running flush or cut off, or a    *)
(* request overwrote a row it had not read; and the nodes shown as         *)
(* reachable are the newest scan's, unless an older one was under way when *)
(* it was taken or a request outlived its fetch (persistBusCapture,        *)
(* enqueue, flushQueue, UpsertBusCapture).                                 *)
MapFollowsScans ==
  Arrived =>
    /\ ~stale =>
         \A n \in (1 .. budget.saves) \ (replaced \cup exposed \cup cut) :
           \A node \in ReachableIn(scanOf[n]) : Ever(node)
    /\ Path \notin raced /\ ~orphaned /\ budget.saves > 0 =>
         Reachable = ReachableIn(scanOf[budget.saves])
=============================================================================
