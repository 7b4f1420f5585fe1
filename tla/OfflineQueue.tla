----------------------------- MODULE OfflineQueue -----------------------------
(***************************************************************************)
(* The bay's offline queue (client/src/queue.ts) between the technician    *)
(* who saves work and the ledger that stores it.  A save is sent at once   *)
(* while the ledger is believed to be online and queued in localStorage    *)
(* otherwise; a timer probes the ledger and flushes the queue.  The timer  *)
(* does not wait for the flush it started, so flushes overlap, and a flush *)
(* awaits every answer, so saves come between its steps.                   *)
(*                                                                         *)
(* A save is a session or closeout (POST: every delivery makes a row) or   *)
(* the record of a key, a customer, a capture or a check (PUT: the last    *)
(* delivery wins).  Its number stands for its body.                        *)
(***************************************************************************)
EXTENDS JobLists, SequencesExt

CONSTANTS
  Keys,       \* paths (and fingerprints) that are PUT
  Post,       \* the path that is POSTed
  Flushes,    \* flushes that may overlap
  MaxSaves,   \* bound: saves in one behaviour
  MaxLosses,  \* bound: answers and requests lost
  MaxEvents   \* bound: the ledger going down or up, and page reloads

ASSUME PostAssumption == Post \notin Keys
ASSUME BoundsAssumption == {MaxSaves, MaxLosses, MaxEvents} \subseteq Nat

VARIABLES
  queue,    \* localStorage["mechazone.sync_queue"]
  flush,    \* what each running flush has yet to send, and what it keeps
  direct,   \* PUTs sent at once that await their answer
  online,   \* what the bay believes
  up,       \* whether the ledger can be reached
  posted,   \* rows the ledger made of each POST
  stored,   \* the save whose body the ledger has under each key, 0 for none
  budget,   \* saves, losses and events so far
  queued,   \* history: saves that wait in the queue to be delivered
  exposed,  \* history: saves that were queued while a flush was running
  doubled,  \* history: saves whose answer was lost, that two flushes held,
            \*   or that a reload caught in a flush
  latest,   \* history: the newest save of each key
  raced     \* history: keys saved while an older save of theirs was pending,
            \*   or queued under a running flush, or lost to a reload

history == <<queued, exposed, doubled, latest, raced>>
vars == <<queue, flush, direct, online, up, posted, stored, budget, history>>

Saves == 1 .. MaxSaves
Job == [n : Saves, key : Keys \cup {Post}, refused : BOOLEAN]
NoFlush == [running |-> FALSE]
Flush == [running : {TRUE}, todo : Seq(Job), remain : Seq(Job)]

TypeOK ==
  /\ queue \in Seq(Job)
  /\ flush \in [Flushes -> Flush \cup {NoFlush}]
  /\ direct \subseteq Job
  /\ online \in BOOLEAN /\ up \in BOOLEAN
  /\ posted \in [Saves -> Nat]
  /\ stored \in [Keys -> 0 .. MaxSaves]
  /\ budget \in [saves : 0 .. MaxSaves, losses : 0 .. MaxLosses,
                 events : 0 .. MaxEvents]
  /\ queued \cup exposed \cup doubled \subseteq Saves
  /\ latest \in [Keys -> 0 .. MaxSaves]
  /\ raced \subseteq Keys

Running == {f \in Flushes : flush[f].running}
Numbers(jobs) == {jobs[i].n : i \in DOMAIN jobs}
Spend(what) == budget' = [budget EXCEPT ![what] = @ + 1]

-----------------------------------------------------------------------------
Init ==
  /\ queue = <<>>
  /\ flush = [f \in Flushes |-> NoFlush]
  /\ direct = {}
  /\ online \in BOOLEAN /\ up \in BOOLEAN
  /\ posted = [n \in Saves |-> 0]
  /\ stored = [k \in Keys |-> 0]
  /\ budget = [saves |-> 0, losses |-> 0, events |-> 0]
  /\ queued = {} /\ exposed = {} /\ doubled = {} /\ raced = {}
  /\ latest = [k \in Keys |-> 0]

(* A slip: a queued job of the same path is dropped, whatever its kind.    *)
Supersedes_AnyPath(job, old) == job.key = old.key

(* A PUT replaces the queued PUT of its key; POSTs are all kept.           *)
Supersedes(job, old) == job.key = old.key /\ job.key # Post

(* A slip: the job that is already queued wins.                            *)
Enqueued_FirstWins(job) ==
  IF \E i \in DOMAIN queue : Supersedes(job, queue[i])
  THEN queue ELSE Append(queue, job)

Enqueued(job) ==
  Append(Dropping(queue, {i \in DOMAIN queue : Supersedes(job, queue[i])}), job)

(* What the ledger no longer needs once job is queued: the older bodies of *)
(* the record that it replaces.                                            *)
Replaced(job) ==
  {old.n : old \in {q \in ToSet(queue) : q.key = job.key /\ q.key \in Keys}}

Enqueue(job) ==
  /\ queue' = Enqueued(job)
  /\ queued' = (queued \ Replaced(job)) \cup {job.n}
  /\ exposed' = IF Running # {} THEN exposed \cup {job.n} ELSE exposed

(* Something older of the same key is still on its way to the ledger.      *)
Pending(key) ==
  \/ Running # {}
  \/ \E job \in direct : job.key = key
  \/ online /\ \E i \in DOMAIN queue : queue[i].key = key

(* A slip: the id is the length of the queue.                              *)
NewJob_FromLength(key, refused) ==
  [n |-> Len(queue), key |-> key, refused |-> refused]

(* The ledger may refuse the body for good (a VIN that is not one, a phone *)
(* number in a note).                                                      *)
NewJob(key, refused) ==
  [n |-> budget.saves + 1, key |-> key, refused |-> refused]

Saved(key) ==
  /\ budget.saves < MaxSaves
  /\ Spend("saves")
  /\ IF key = Post
     THEN UNCHANGED <<latest, raced>>
     ELSE /\ latest' = [latest EXCEPT ![key] = budget.saves + 1]
          /\ raced' = IF Pending(key) THEN raced \cup {key} ELSE raced

SaveOffline(key, refused) ==
  /\ ~online
  /\ Saved(key)
  /\ Enqueue(NewJob(key, refused))
  /\ UNCHANGED <<flush, direct, online, up, posted, stored, doubled>>

(* persistCheck and persistBusCapture do not wait for the answer.  The     *)
(* sessions and closeouts of an online bay, and its customer edits, are    *)
(* awaited and shown as failed when they fail: they never meet the queue.  *)
SaveOnline(key, refused) ==
  /\ online
  /\ key # Post
  /\ Saved(key)
  /\ direct' = direct \cup {NewJob(key, refused)}
  /\ UNCHANGED <<queue, flush, online, up, posted, stored, queued, exposed,
                 doubled>>

(* What a delivered request does to the ledger.                            *)
Deliver(job) ==
  IF job.key = Post
  THEN /\ posted' = [posted EXCEPT ![job.n] = @ + 1]
       /\ UNCHANGED stored
  ELSE /\ stored' = [stored EXCEPT ![job.key] = job.n]
       /\ UNCHANGED posted

DirectOk(job) ==
  /\ up
  /\ ~job.refused
  /\ Deliver(job)
  /\ direct' = direct \ {job}
  /\ UNCHANGED <<queue, flush, online, up, budget, history>>

(* The request fails, or only its answer does; the catch queues the job.   *)
DirectFails(job) ==
  /\ \/ ~up /\ UNCHANGED <<posted, stored, budget>>
     \/ job.refused /\ UNCHANGED <<posted, stored, budget>>
     \/ /\ up /\ ~job.refused
        /\ budget.losses < MaxLosses
        /\ Spend("losses")
        /\ Deliver(job) \/ UNCHANGED <<posted, stored>>
  /\ Enqueue(job)
  /\ direct' = direct \ {job}
  /\ raced' = IF Running # {} THEN raced \cup {job.key} ELSE raced
  /\ UNCHANGED <<flush, online, up, doubled, latest>>

-----------------------------------------------------------------------------
(* The timer: /healthz answers and a flush starts from what localStorage   *)
(* holds now, or it does not.  An empty queue is flushed on the spot.      *)
Tick(f) ==
  /\ ~flush[f].running
  /\ online' = up
  /\ IF up /\ queue # <<>>
     THEN /\ flush' = [flush EXCEPT ![f] =
                        [running |-> TRUE, todo |-> queue, remain |-> <<>>]]
          /\ doubled' = IF Running # {} THEN doubled \cup Numbers(queue)
                        ELSE doubled
     ELSE UNCHANGED <<flush, doubled>>
  /\ UNCHANGED <<queue, direct, up, posted, stored, budget, queued, exposed,
                 latest, raced>>

(* A slip: the job is kept before its answer is known.                     *)
Remain_KeptFirst(f, ok) == Append(flush[f].remain, Head(flush[f].todo))

Remain(f, ok) ==
  IF ok THEN flush[f].remain ELSE Append(flush[f].remain, Head(flush[f].todo))

Rest(f) == Tail(flush[f].todo)

(* A slip: the first job that fails ends the round.                        *)
Advance_StopsAtFailure(f, ok) ==
  IF ~ok \/ Rest(f) = <<>>
  THEN /\ queue' = Remain(f, ok) \o Rest(f)
       /\ flush' = [flush EXCEPT ![f] = NoFlush]
  ELSE /\ flush' = [flush EXCEPT ![f].todo = Rest(f), ![f].remain = Remain(f, ok)]
       /\ UNCHANGED queue

(* The answer to the job at the head is in; behind the last one, without   *)
(* another await, the queue becomes what this flush could not send.        *)
Advance(f, ok) ==
  IF Rest(f) = <<>>
  THEN /\ queue' = Remain(f, ok)
       /\ flush' = [flush EXCEPT ![f] = NoFlush]
  ELSE /\ flush' = [flush EXCEPT ![f].todo = Rest(f), ![f].remain = Remain(f, ok)]
       /\ UNCHANGED queue

SendOk(f) ==
  LET job == Head(flush[f].todo) IN
  /\ flush[f].running
  /\ up
  /\ ~job.refused
  /\ Deliver(job)
  /\ queued' = queued \ {job.n}
  /\ Advance(f, TRUE)
  /\ UNCHANGED <<direct, online, up, budget, exposed, doubled, latest, raced>>

SendFails(f) ==
  LET job == Head(flush[f].todo) IN
  /\ flush[f].running
  /\ \/ (~up \/ job.refused) /\ UNCHANGED <<posted, stored, budget, doubled>>
     \/ /\ up /\ ~job.refused
        /\ budget.losses < MaxLosses
        /\ Spend("losses")
        /\ doubled' = doubled \cup {job.n}
        /\ Deliver(job) \/ UNCHANGED <<posted, stored>>
  /\ Advance(f, FALSE)
  /\ UNCHANGED <<direct, online, up, queued, exposed, latest, raced>>

-----------------------------------------------------------------------------
LedgerFlips ==
  /\ budget.events < MaxEvents
  /\ Spend("events")
  /\ up' = ~up
  /\ UNCHANGED <<queue, flush, direct, online, posted, stored, history>>

(* The page is reloaded or crashes: localStorage stays, requests under way *)
(* and their catch blocks do not.                                          *)
Reload ==
  /\ budget.events < MaxEvents
  /\ Spend("events")
  /\ flush' = [f \in Flushes |-> NoFlush]
  /\ direct' = {}
  /\ raced' = raced \cup {job.key : job \in direct}
  /\ doubled' = IF Running # {} THEN doubled \cup Numbers(queue) ELSE doubled
  /\ UNCHANGED <<queue, online, up, posted, stored, queued, exposed, latest>>

FlushStep(f) == Tick(f) \/ SendOk(f) \/ SendFails(f)

Next ==
  \/ \E key \in Keys \cup {Post}, refused \in BOOLEAN :
       SaveOffline(key, refused) \/ SaveOnline(key, refused)
  \/ \E job \in direct : DirectOk(job) \/ DirectFails(job)
  \/ \E f \in Flushes : FlushStep(f)
  \/ LedgerFlips
  \/ Reload

Spec == Init /\ [][Next]_vars

(* The browser runs its timer and every fetch ends.                        *)
FairSpec == Spec /\ \A f \in Flushes : WF_vars(FlushStep(f))

-----------------------------------------------------------------------------
(* Work that is queued stays queued until the ledger has answered it or a  *)
(* newer save of the same key replaced it, through overlapping flushes,    *)
(* losses, refusals and reloads, unless a flush was running when it was    *)
(* queued.                                                                 *)
KeptUntilDelivered == queued \ exposed \subseteq Numbers(queue)

(* "Offline - work queues until reconnect" (Bay.tsx).                      *)
WorkStaysQueued == queued \subseteq Numbers(queue)

(* A queued visit makes one row, unless its answer was lost, two flushes   *)
(* had it in hand or the page went away under the flush.                   *)
PostedOnce == \A n \in Saves \ doubled : posted[n] <= 1

(* Once nothing of a key is under way the ledger has its newest save,      *)
(* unless the technician saved while an older one of it was pending, a     *)
(* save that failed was queued under a running flush, or the page went     *)
(* away with a request.                                                    *)
Settled(key) ==
  Running = {} /\ \A job \in direct \cup ToSet(queue) : job.key # key

SettlesOnLatest ==
  \A key \in Keys \ raced : Settled(key) => stored[key] = latest[key]

(* When the ledger stays up, everything it does not refuse leaves the      *)
(* queue: a refused job does not hold up the others.                       *)
Waiting(n) == \E i \in DOMAIN queue : queue[i].n = n /\ ~queue[i].refused

Drains == <>[]up => \A n \in Saves : Waiting(n) ~> ~Waiting(n)
=============================================================================
