---------------------------- MODULE OfflineQueueProofs ----------------------------
(***************************************************************************)
(* What of the offline queue holds for every number of keys, overlapping   *)
(* flushes, saves, losses and reloads: queued work stays queued until the  *)
(* ledger has answered it, a visit makes one row, and the ledger ends with *)
(* the newest save of a key, each but for the cases the history variables  *)
(* name.                                                                   *)
(***************************************************************************)
EXTENDS OfflineQueue, JobListsProofs, SequenceTheorems

(* What a flush has in hand: what it has yet to send and what it keeps.    *)
Todo(f) == ToSet(flush[f].todo)
Kept(f) == ToSet(flush[f].remain)
Hand(f) == Todo(f) \cup Kept(f)

NumbersOf(jobs) == {job.n : job \in jobs}
PostsOf(jobs) == {job.n : job \in {j \in jobs : j.key = Post}}
HasKey(jobs, key) == \E job \in jobs : job.key = key

(* No POST stands twice in a list.                                         *)
PostsOnce(list) ==
  \A i, j \in DOMAIN list :
    list[i].key = Post /\ list[j].key = Post /\ list[i].n = list[j].n => i = j

FlushHasWork == \A f \in Running : flush[f].todo # <<>>

DirectAreKeys == \A job \in direct : job.key # Post

(* The saves that have not been made have left no trace.                   *)
NoneFromTheFuture ==
  /\ \A n \in Saves : n > budget.saves => posted[n] = 0
  /\ \A job \in ToSet(queue) \cup direct : job.n <= budget.saves
  /\ \A f \in Running : \A job \in Hand(f) : job.n <= budget.saves

(* A running flush will write a queue that still has what waits.           *)
KeptInHand == \A f \in Running : queued \ exposed \subseteq NumbersOf(Hand(f))

(* What a flush has in hand has made no row yet, two flushes share only    *)
(* doubled work, and no list has a POST twice.                             *)
HandsUnposted ==
  \A f \in Running : \A n \in PostsOf(Hand(f)) \ doubled : posted[n] = 0
HandsApart ==
  \A f, g \in Running : f # g => PostsOf(Hand(f)) \cap PostsOf(Hand(g)) \subseteq doubled
QueueUnposted ==
  Running = {} => \A n \in PostsOf(ToSet(queue)) \ doubled : posted[n] = 0
ListsOnce ==
  /\ PostsOnce(queue)
  /\ \A f \in Running :
       /\ PostsOnce(flush[f].todo) /\ PostsOnce(flush[f].remain)
       /\ PostsOf(Todo(f)) \cap PostsOf(Kept(f)) = {}

(* Without a race every job of a key is its newest save, and the ledger    *)
(* lacks it only while the job is under way in everyone's hands.           *)
OnlyLatest ==
  \A key \in Keys \ raced :
    /\ \A job \in ToSet(queue) \cup direct : job.key = key => job.n = latest[key]
    /\ \A f \in Running : \A job \in Hand(f) : job.key = key => job.n = latest[key]
OnItsWay ==
  \A key \in Keys \ raced :
    stored[key] # latest[key] =>
      \/ HasKey(direct, key)
      \/ HasKey(ToSet(queue), key) /\ \A f \in Running : HasKey(Hand(f), key)

Sound == TypeOK /\ FlushHasWork /\ DirectAreKeys /\ NoneFromTheFuture
NothingLost == KeptUntilDelivered /\ KeptInHand
NoneTwice == PostedOnce /\ HandsUnposted /\ HandsApart /\ QueueUnposted /\ ListsOnce
NewestWins == OnlyLatest /\ OnItsWay

IInv == Sound /\ NothingLost /\ NoneTwice /\ NewestWins

-----------------------------------------------------------------------------
(* Lists, their ends, and the entries that filter() lets through.          *)

LEMMA HeadAndTail ==
  ASSUME NEW S, NEW s \in Seq(S), s # <<>>
  PROVE  /\ Head(s) \in S /\ Tail(s) \in Seq(S)
         /\ Head(s) = s[1] /\ 1 \in DOMAIN s
         /\ \A i \in DOMAIN Tail(s) : i + 1 \in DOMAIN s /\ Tail(s)[i] = s[i + 1]
         /\ \A i \in DOMAIN s :
              i = 1 \/ (i - 1 \in DOMAIN Tail(s) /\ s[i] = Tail(s)[i - 1])
<1>1. Len(s) \in Nat /\ Len(s) # 0 /\ DOMAIN s = 1 .. Len(s)
  BY EmptySeq, LenProperties
<1>2. Head(s) = s[1] /\ 1 \in DOMAIN s
  BY <1>1
<1>3. /\ Head(s) \in S /\ Tail(s) \in Seq(S)
      /\ DOMAIN Tail(s) = 1 .. Len(s) - 1
      /\ \A i \in 1 .. Len(s) - 1 : Tail(s)[i] = s[i + 1]
  BY HeadTailProperties, LenProperties
<1>4. \A i \in DOMAIN Tail(s) : i + 1 \in DOMAIN s /\ Tail(s)[i] = s[i + 1]
  BY <1>1, <1>3
<1>5. ASSUME NEW i \in DOMAIN s, i # 1
      PROVE  i - 1 \in DOMAIN Tail(s) /\ s[i] = Tail(s)[i - 1]
  <2>1. i - 1 \in 1 .. Len(s) - 1 /\ (i - 1) + 1 = i
    BY <1>1, <1>5
  <2> QED BY <2>1, <1>3
<1> QED BY <1>2, <1>3, <1>4, <1>5

LEMMA EntriesOfTail ==
  ASSUME NEW S, NEW s \in Seq(S), s # <<>>
  PROVE  ToSet(s) = {Head(s)} \cup ToSet(Tail(s))
<1> DEFINE t == Tail(s)
<1>1. /\ Head(s) = s[1] /\ 1 \in DOMAIN s
      /\ \A i \in DOMAIN t : i + 1 \in DOMAIN s /\ t[i] = s[i + 1]
      /\ \A i \in DOMAIN s : i = 1 \/ (i - 1 \in DOMAIN t /\ s[i] = t[i - 1])
  BY HeadAndTail
<1> HIDE DEF t
<1>2. \A i \in DOMAIN s : s[i] \in {Head(s)} \cup ToSet(t)
  BY <1>1 DEF ToSet
<1>3. Head(s) \in ToSet(s) /\ \A i \in DOMAIN t : t[i] \in ToSet(s)
  BY <1>1 DEF ToSet
<1>4. ToSet(s) = {Head(s)} \cup ToSet(t)
  BY <1>2, <1>3 DEF ToSet
<1> QED BY <1>4 DEF t

LEMMA EntriesOfAppend ==
  ASSUME NEW S, NEW s \in Seq(S), NEW e \in S
  PROVE  Append(s, e) \in Seq(S) /\ ToSet(Append(s, e)) = ToSet(s) \cup {e}
<1>1. Append(s, e) \in Seq(S) /\ DOMAIN Append(s, e) = 1 .. Len(s) + 1
      /\ DOMAIN s = 1 .. Len(s) /\ Len(s) \in Nat
  OBVIOUS
<1>2. \A i \in 1 .. Len(s) : Append(s, e)[i] = s[i]
  OBVIOUS
<1>3. Append(s, e)[Len(s) + 1] = e
  OBVIOUS
<1> QED BY <1>1, <1>2, <1>3 DEF ToSet

LEMMA NumbersAreOfEntries ==
  ASSUME NEW s PROVE Numbers(s) = NumbersOf(ToSet(s))
  BY DEF Numbers, NumbersOf, ToSet

LEMMA EntriesAreJobs ==
  ASSUME NEW s \in Seq(Job)
  PROVE  ToSet(s) \subseteq Job
  BY DEF ToSet

LEMMA PostsOnceInTail ==
  ASSUME NEW s \in Seq(Job), s # <<>>, PostsOnce(s)
  PROVE  /\ PostsOnce(Tail(s))
         /\ Head(s).key = Post => Head(s).n \notin PostsOf(ToSet(Tail(s)))
<1>1. Tail(s) \in Seq(Job) /\ Head(s) = s[1] /\ 1 \in DOMAIN s
      /\ \A i \in DOMAIN Tail(s) : i + 1 \in DOMAIN s /\ Tail(s)[i] = s[i + 1]
  BY HeadAndTail
<1>2. \A i \in DOMAIN Tail(s) : i \in Nat /\ i # 0
  BY <1>1
<1>3. PostsOnce(Tail(s))
  <2> SUFFICES ASSUME NEW i \in DOMAIN Tail(s), NEW j \in DOMAIN Tail(s),
                      Tail(s)[i].key = Post, Tail(s)[j].key = Post,
                      Tail(s)[i].n = Tail(s)[j].n
               PROVE  i = j
    BY DEF PostsOnce
  <2>1. i + 1 = j + 1
    BY <1>1 DEF PostsOnce
  <2> QED BY <2>1, <1>2
<1>4. ASSUME Head(s).key = Post, Head(s).n \in PostsOf(ToSet(Tail(s)))
      PROVE  FALSE
  <2>1. PICK i \in DOMAIN Tail(s) : Tail(s)[i].key = Post /\ Tail(s)[i].n = Head(s).n
    BY <1>4 DEF PostsOf, ToSet
  <2>2. i + 1 = 1
    BY <2>1, <1>1, <1>4 DEF PostsOnce
  <2> QED BY <2>2, <1>2
<1> QED BY <1>3, <1>4

LEMMA PostsOnceInAppend ==
  ASSUME NEW s \in Seq(Job), NEW e \in Job, PostsOnce(s),
         e.key = Post => e.n \notin PostsOf(ToSet(s))
  PROVE  PostsOnce(Append(s, e))
<1>1. DOMAIN Append(s, e) = DOMAIN s \cup {Len(s) + 1} /\ Len(s) + 1 \notin DOMAIN s
      /\ Append(s, e)[Len(s) + 1] = e
  OBVIOUS
<1>2. \A i \in DOMAIN s : Append(s, e)[i] = s[i]
  OBVIOUS
<1>3. \A i \in DOMAIN s : s[i].key = Post /\ e.key = Post => s[i].n # e.n
  BY DEF PostsOf, ToSet
<1> QED BY <1>1, <1>2, <1>3 DEF PostsOnce

LEMMA EnqueuedKeeps ==
  ASSUME queue \in Seq(Job), NEW job \in Job
  PROVE  /\ Enqueued(job) \in Seq(Job)
         /\ ToSet(Enqueued(job)) = {q \in ToSet(queue) : ~Supersedes(job, q)} \cup {job}
         /\ PostsOnce(queue) /\ (job.key = Post => job.n \notin PostsOf(ToSet(queue)))
              => PostsOnce(Enqueued(job))
<1> DEFINE gone == {i \in DOMAIN queue : Supersedes(job, queue[i])}
           d == Dropping(queue, gone)
<1>1. d \in Seq(Job) /\ \E g : KeptPlaces(queue, gone, g)
  BY DroppingKeeps
<1>2. PICK g : KeptPlaces(queue, gone, g)
  BY <1>1
<1>3. /\ \A k \in DOMAIN d : g[k] \in DOMAIN queue \ gone /\ d[k] = queue[g[k]]
      /\ \A k, l \in DOMAIN d : g[k] = g[l] => k = l
      /\ \A i \in DOMAIN queue \ gone : \E k \in DOMAIN d : g[k] = i
  BY <1>2 DEF KeptPlaces
<1>4. Enqueued(job) = Append(d, job)
  BY DEF Enqueued
<1> HIDE DEF d
<1>5. ToSet(d) = {q \in ToSet(queue) : ~Supersedes(job, q)}
  <2>1. \A k \in DOMAIN d : d[k] \in ToSet(queue) /\ ~Supersedes(job, d[k])
    BY <1>3 DEF ToSet
  <2>2. \A i \in DOMAIN queue : ~Supersedes(job, queue[i]) => \E k \in DOMAIN d : d[k] = queue[i]
    BY <1>3
  <2> QED BY <2>1, <2>2 DEF ToSet
<1>6. Enqueued(job) \in Seq(Job) /\ ToSet(Enqueued(job)) = ToSet(d) \cup {job}
  BY <1>1, <1>4, EntriesOfAppend
<1>7. ASSUME PostsOnce(queue), job.key = Post => job.n \notin PostsOf(ToSet(queue))
      PROVE  PostsOnce(Enqueued(job))
  <2>1. PostsOnce(d)
    BY <1>3, <1>7 DEF PostsOnce
  <2>2. job.key = Post => job.n \notin PostsOf(ToSet(d))
    BY <1>5, <1>7 DEF PostsOf
  <2> QED BY <2>1, <2>2, <1>1, <1>4, PostsOnceInAppend
<1> QED BY <1>5, <1>6, <1>7

-----------------------------------------------------------------------------
(* What the parts of the handlers do to the lists.                         *)

LEMMA FlushShape ==
  ASSUME TypeOK
  PROVE  \A f \in Flushes :
           /\ f \in Running => /\ flush[f] \in Flush
                               /\ flush[f].todo \in Seq(Job)
                               /\ flush[f].remain \in Seq(Job)
                               /\ Hand(f) \subseteq Job
           /\ f \notin Running => flush[f] = NoFlush
<1> SUFFICES ASSUME NEW f \in Flushes
             PROVE  /\ f \in Running => /\ flush[f] \in Flush
                                        /\ flush[f].todo \in Seq(Job)
                                        /\ flush[f].remain \in Seq(Job)
                                        /\ Hand(f) \subseteq Job
                    /\ f \notin Running => flush[f] = NoFlush
  OBVIOUS
<1>1. flush[f] \in Flush \/ flush[f] = NoFlush
  BY DEF TypeOK
<1>2. flush[f] \in Flush => /\ f \in Running
                            /\ flush[f].todo \in Seq(Job) /\ flush[f].remain \in Seq(Job)
  BY DEF Flush, Running
<1>3. flush[f] = NoFlush => f \notin Running
  BY DEF NoFlush, Running
<1>4. flush[f] \in Flush => Hand(f) \subseteq Job
  BY <1>2, EntriesAreJobs DEF Hand, Todo, Kept
<1> QED BY <1>1, <1>2, <1>3, <1>4

(* The flushes that run are seen from flush alone.                         *)
LEMMA SameFlushes ==
  ASSUME flush' = flush
  PROVE  /\ Running' = Running
         /\ \A f : Hand(f)' = Hand(f) /\ Todo(f)' = Todo(f) /\ Kept(f)' = Kept(f)
  BY DEF Running, Hand, Todo, Kept

LEMMA JobFields ==
  ASSUME NEW job \in Job
  PROVE  /\ job.n \in Saves /\ job.n \in Nat /\ job.key \in Keys \cup {Post}
         /\ job.refused \in BOOLEAN
  BY BoundsAssumption DEF Job, Saves

LEMMA EnqueueStep ==
  ASSUME TypeOK, NEW job \in Job, Enqueue(job)
  PROVE  /\ queue' \in Seq(Job)
         /\ ToSet(queue') = {q \in ToSet(queue) : ~Supersedes(job, q)} \cup {job}
         /\ PostsOnce(queue) /\ (job.key = Post => job.n \notin PostsOf(ToSet(queue)))
              => PostsOnce(queue')
  BY EnqueuedKeeps DEF Enqueue, TypeOK

(* One answer moves the head of the list out of the hand of the flush, or  *)
(* over to what it keeps; behind the last one the queue is what it keeps.  *)
LEMMA AdvanceStep ==
  ASSUME TypeOK, FlushHasWork, NEW f \in Running, NEW ok \in BOOLEAN, Advance(f, ok)
  PROVE  LET h == Head(flush[f].todo) r == Remain(f, ok) t == Rest(f) IN
         /\ h \in Job /\ r \in Seq(Job) /\ t \in Seq(Job)
         /\ Todo(f) = {h} \cup ToSet(t)
         /\ ToSet(r) = Kept(f) \cup (IF ok THEN {} ELSE {h})
         /\ flush' \in [Flushes -> Flush \cup {NoFlush}] /\ queue' \in Seq(Job)
         /\ \A g \in Flushes \ {f} : flush'[g] = flush[g]
         /\ \/ /\ Running' = Running \ {f} /\ queue' = r /\ ToSet(t) = {}
            \/ /\ Running' = Running /\ queue' = queue /\ t # <<>>
               /\ flush'[f].todo = t /\ flush'[f].remain = r
<1> DEFINE h == Head(flush[f].todo)
           r == Remain(f, ok)
           t == Rest(f)
           moved == [flush[f] EXCEPT !.todo = t, !.remain = r]
<1>0. f \in Flushes
  BY DEF Running
<1>1. /\ flush[f] \in Flush /\ flush[f].todo \in Seq(Job) /\ flush[f].remain \in Seq(Job)
      /\ flush[f].todo # <<>>
  BY <1>0, FlushShape DEF FlushHasWork
<1>2. h \in Job /\ t \in Seq(Job) /\ Todo(f) = {h} \cup ToSet(t)
  BY <1>1, HeadAndTail, EntriesOfTail DEF Rest, Todo
<1>3. r \in Seq(Job) /\ ToSet(r) = Kept(f) \cup (IF ok THEN {} ELSE {h})
  BY <1>1, <1>2, EntriesOfAppend DEF Remain, Kept
<1>4. flush \in [Flushes -> Flush \cup {NoFlush}] /\ queue \in Seq(Job)
  BY DEF TypeOK
<1>5. CASE t = <<>>
  <2>1. queue' = r /\ flush' = [flush EXCEPT ![f] = NoFlush]
    BY <1>5 DEF Advance
  <2>2. ToSet(t) = {}
    BY <1>5 DEF ToSet
  <2>3. /\ flush' \in [Flushes -> Flush \cup {NoFlush}]
        /\ flush'[f] = NoFlush /\ \A g \in Flushes \ {f} : flush'[g] = flush[g]
    BY <2>1, <1>0, <1>4
  <2>4. Running' = Running \ {f}
    BY <2>3 DEF Running, NoFlush
  <2> HIDE DEF h, r, t
  <2>5. queue' \in Seq(Job)
    BY <2>1, <1>3
  <2> QED BY <2>1, <2>2, <2>3, <2>4, <2>5, <1>2, <1>3 DEF h, r, t
<1>6. CASE t # <<>>
  <2>1. /\ flush' = [flush EXCEPT ![f].todo = t, ![f].remain = r] /\ queue' = queue
    BY <1>6 DEF Advance
  <2> HIDE DEF h, r, t
  <2>2. /\ flush'[f] = moved /\ \A g \in Flushes \ {f} : flush'[g] = flush[g]
        /\ DOMAIN flush' = Flushes
    BY <2>1, <1>0, <1>4
  <2>3. /\ moved.todo = t /\ moved.remain = r /\ moved.running = TRUE
        /\ moved \in Flush
    BY <1>1, <1>2, <1>3 DEF Flush
  <2>4. flush' \in [Flushes -> Flush \cup {NoFlush}]
    BY <2>1, <2>2, <2>3, <1>4, <1>0
  <2>5. Running' = Running
    BY <2>2, <2>3, <1>0, <1>4 DEF Running
  <2>6. queue' \in Seq(Job)
    BY <2>1, <1>4
  <2> QED BY <2>1, <2>2, <2>3, <2>4, <2>5, <2>6, <1>2, <1>3, <1>6 DEF h, r, t
<1> QED BY <1>5, <1>6

(* A flush starts with the whole queue in hand.                            *)
LEMMA TickStep ==
  ASSUME TypeOK, NEW f \in Flushes, Tick(f)
  PROVE  /\ f \notin Running
         /\ flush' \in [Flushes -> Flush \cup {NoFlush}]
         /\ \A g \in Flushes \ {f} : flush'[g] = flush[g]
         /\ \/ Running' = Running /\ flush' = flush /\ doubled' = doubled
            \/ /\ Running' = Running \cup {f}
               /\ queue # <<>> /\ flush'[f].todo = queue /\ flush'[f].remain = <<>>
               /\ Hand(f)' = ToSet(queue) /\ Todo(f)' = ToSet(queue) /\ Kept(f)' = {}
               /\ doubled' = IF Running # {} THEN doubled \cup Numbers(queue)
                                             ELSE doubled
<1> DEFINE fresh == [running |-> TRUE, todo |-> queue, remain |-> <<>>]
<1>1. flush \in [Flushes -> Flush \cup {NoFlush}] /\ queue \in Seq(Job)
  BY DEF TypeOK
<1>2. f \notin Running
  BY DEF Tick, Running
<1>3. CASE up /\ queue # <<>>
  <2>1. /\ flush' = [flush EXCEPT ![f] = fresh]
        /\ doubled' = IF Running # {} THEN doubled \cup Numbers(queue) ELSE doubled
    BY <1>3 DEF Tick
  <2>2. fresh \in Flush /\ fresh.running /\ fresh.todo = queue /\ fresh.remain = <<>>
    BY <1>1 DEF Flush
  <2> HIDE DEF fresh
  <2>3. /\ flush'[f] = fresh /\ \A g \in Flushes \ {f} : flush'[g] = flush[g]
        /\ flush' \in [Flushes -> Flush \cup {NoFlush}]
    BY <2>1, <2>2, <1>1
  <2>4. Running' = Running \cup {f}
    BY <2>2, <2>3 DEF Running
  <2>5. Todo(f)' = ToSet(queue) /\ Kept(f)' = {} /\ Hand(f)' = ToSet(queue)
    BY <2>2, <2>3 DEF Todo, Kept, Hand, ToSet
  <2> QED BY <2>1, <2>2, <2>3, <2>4, <2>5, <1>2, <1>3
<1>4. CASE ~(up /\ queue # <<>>)
  <2>1. flush' = flush /\ doubled' = doubled
    BY <1>4 DEF Tick
  <2> QED BY <2>1, <1>1, <1>2, SameFlushes
<1> QED BY <1>3, <1>4

(* What the ledger stores of a request.                                    *)
LEMMA DeliverStep ==
  ASSUME TypeOK, NEW job \in Job, Deliver(job) \/ UNCHANGED <<posted, stored>>
  PROVE  /\ posted' \in [Saves -> Nat] /\ stored' \in [Keys -> 0 .. MaxSaves]
         /\ \A n \in Saves : n # job.n => posted'[n] = posted[n]
         /\ job.key # Post => posted' = posted
         /\ Deliver(job) /\ job.key = Post => posted'[job.n] = posted[job.n] + 1
         /\ \A key \in Keys : key # job.key => stored'[key] = stored[key]
         /\ \A key \in Keys : Deliver(job) /\ job.key = key => stored'[key] = job.n
         /\ \A key \in Keys : stored'[key] = stored[key] \/ (job.key = key /\ stored'[key] = job.n)
<1>1. posted \in [Saves -> Nat] /\ stored \in [Keys -> 0 .. MaxSaves]
  BY DEF TypeOK
<1>2. job.n \in Saves /\ job.n \in 0 .. MaxSaves /\ job.key \in Keys \cup {Post}
  BY JobFields, BoundsAssumption DEF Saves
<1>3. CASE Deliver(job) /\ job.key = Post
  BY <1>1, <1>2, <1>3, PostAssumption DEF Deliver
<1>4. CASE Deliver(job) /\ job.key # Post
  BY <1>1, <1>2, <1>4 DEF Deliver
<1>5. CASE UNCHANGED <<posted, stored>> /\ ~Deliver(job)
  BY <1>1, <1>5
<1> QED BY <1>3, <1>4, <1>5

-----------------------------------------------------------------------------
(* Types, and the saves that have not been made.                           *)

LEMMA InitHolds == Init => IInv
<1> SUFFICES ASSUME Init PROVE IInv
  OBVIOUS
<1>1. /\ queue = <<>> /\ direct = {} /\ Running = {}
      /\ \A n \in Saves : posted[n] = 0
      /\ \A key \in Keys : stored[key] = latest[key]
      /\ queued = {}
  BY DEF Init, Running, NoFlush
<1>2. ToSet(queue) = {} /\ DOMAIN queue = {}
  BY <1>1 DEF ToSet
<1>3. budget \in [saves : 0 .. MaxSaves, losses : 0 .. MaxLosses, events : 0 .. MaxEvents]
  BY BoundsAssumption DEF Init
<1>4. TypeOK
  <2>1. 0 \in 0 .. MaxSaves
    BY BoundsAssumption
  <2>2. queue \in Seq(Job) /\ flush \in [Flushes -> Flush \cup {NoFlush}]
    BY DEF Init
  <2>3. posted \in [Saves -> Nat] /\ stored \in [Keys -> 0 .. MaxSaves]
        /\ latest \in [Keys -> 0 .. MaxSaves]
    BY <2>1 DEF Init
  <2> QED BY <1>3, <2>2, <2>3 DEF TypeOK, Init
<1>5. Sound
  BY <1>1, <1>2, <1>4 DEF Sound, FlushHasWork, DirectAreKeys, NoneFromTheFuture
<1>6. NothingLost
  BY <1>1 DEF NothingLost, KeptUntilDelivered, KeptInHand
<1>7. NoneTwice
  BY <1>1, <1>2 DEF NoneTwice, PostedOnce, HandsUnposted, HandsApart, QueueUnposted,
                    ListsOnce, PostsOnce, PostsOf
<1>8. NewestWins
  BY <1>1, <1>2 DEF NewestWins, OnlyLatest, OnItsWay
<1> QED BY <1>5, <1>6, <1>7, <1>8 DEF IInv

LEMMA SpendType ==
  ASSUME TypeOK
  PROVE  /\ budget.saves \in Nat
         /\ budget.saves < MaxSaves /\ Spend("saves")
              => budget' \in [saves : 0 .. MaxSaves, losses : 0 .. MaxLosses,
                              events : 0 .. MaxEvents]
                 /\ budget'.saves = budget.saves + 1
         /\ budget.losses < MaxLosses /\ Spend("losses")
              => budget' \in [saves : 0 .. MaxSaves, losses : 0 .. MaxLosses,
                              events : 0 .. MaxEvents]
                 /\ budget'.saves = budget.saves
         /\ budget.events < MaxEvents /\ Spend("events")
              => budget' \in [saves : 0 .. MaxSaves, losses : 0 .. MaxLosses,
                              events : 0 .. MaxEvents]
                 /\ budget'.saves = budget.saves
<1> DEFINE Budgets == [saves : 0 .. MaxSaves, losses : 0 .. MaxLosses, events : 0 .. MaxEvents]
<1>1. budget \in Budgets /\ budget.saves \in 0 .. MaxSaves
      /\ budget.losses \in 0 .. MaxLosses /\ budget.events \in 0 .. MaxEvents
  BY DEF TypeOK
<1>2. MaxSaves \in Nat /\ MaxLosses \in Nat /\ MaxEvents \in Nat
  BY BoundsAssumption
<1>3. ASSUME budget.saves < MaxSaves, Spend("saves")
      PROVE  budget' \in Budgets /\ budget'.saves = budget.saves + 1
  <2>1. budget' = [budget EXCEPT !.saves = budget.saves + 1]
    BY <1>3 DEF Spend
  <2>2. budget.saves + 1 \in 0 .. MaxSaves
    BY <1>1, <1>2, <1>3
  <2> QED BY <1>1, <2>1, <2>2
<1>4. ASSUME budget.losses < MaxLosses, Spend("losses")
      PROVE  budget' \in Budgets /\ budget'.saves = budget.saves
  <2>1. budget' = [budget EXCEPT !.losses = budget.losses + 1]
    BY <1>4 DEF Spend
  <2>2. budget.losses + 1 \in 0 .. MaxLosses
    BY <1>1, <1>2, <1>4
  <2> QED BY <1>1, <2>1, <2>2
<1>5. ASSUME budget.events < MaxEvents, Spend("events")
      PROVE  budget' \in Budgets /\ budget'.saves = budget.saves
  <2>1. budget' = [budget EXCEPT !.events = budget.events + 1]
    BY <1>5 DEF Spend
  <2>2. budget.events + 1 \in 0 .. MaxEvents
    BY <1>1, <1>2, <1>5
  <2> QED BY <1>1, <2>1, <2>2
<1> QED BY <1>1, <1>2, <1>3, <1>4, <1>5

(* A new save has the next number.                                         *)
LEMMA SavedStep ==
  ASSUME Sound, NEW key \in Keys \cup {Post}, NEW refused \in BOOLEAN, Saved(key)
  PROVE  /\ NewJob(key, refused) \in Job
         /\ NewJob(key, refused).n = budget.saves + 1
         /\ NewJob(key, refused).key = key
         /\ budget.saves + 1 \in Saves
         /\ budget' \in [saves : 0 .. MaxSaves, losses : 0 .. MaxLosses,
                         events : 0 .. MaxEvents]
         /\ budget'.saves = budget.saves + 1
         /\ latest' \in [Keys -> 0 .. MaxSaves] /\ raced' \subseteq Keys
         /\ \A k \in Keys : k # key => latest'[k] = latest[k]
         /\ key \in Keys => latest'[key] = budget.saves + 1
         /\ raced' = IF key # Post /\ Pending(key) THEN raced \cup {key} ELSE raced
<1>1. TypeOK /\ latest \in [Keys -> 0 .. MaxSaves] /\ raced \subseteq Keys
  BY DEF Sound, TypeOK
<1>2. budget.saves \in Nat /\ budget.saves < MaxSaves
      /\ budget' \in [saves : 0 .. MaxSaves, losses : 0 .. MaxLosses, events : 0 .. MaxEvents]
      /\ budget'.saves = budget.saves + 1
  BY <1>1, SpendType DEF Saved
<1>3. budget.saves + 1 \in Saves /\ budget.saves + 1 \in 0 .. MaxSaves
  BY <1>2, BoundsAssumption DEF Saves
<1>4. NewJob(key, refused) \in Job
  BY <1>3 DEF NewJob, Job
<1>5. CASE key = Post
  BY <1>1, <1>2, <1>3, <1>4, <1>5, PostAssumption DEF Saved, NewJob
<1>6. CASE key # Post
  <2>1. latest' = [latest EXCEPT ![key] = budget.saves + 1]
        /\ raced' = IF Pending(key) THEN raced \cup {key} ELSE raced
    BY <1>6 DEF Saved
  <2> QED BY <2>1, <1>1, <1>2, <1>3, <1>4, <1>6 DEF NewJob
<1> QED BY <1>5, <1>6

LEMMA SoundStep ==
  ASSUME Sound, [Next]_vars
  PROVE  Sound'
<1>1. /\ TypeOK /\ FlushHasWork /\ DirectAreKeys /\ NoneFromTheFuture
  BY DEF Sound
<1>2. /\ queue \in Seq(Job) /\ flush \in [Flushes -> Flush \cup {NoFlush}]
      /\ direct \subseteq Job /\ online \in BOOLEAN /\ up \in BOOLEAN
      /\ posted \in [Saves -> Nat] /\ stored \in [Keys -> 0 .. MaxSaves]
      /\ budget \in [saves : 0 .. MaxSaves, losses : 0 .. MaxLosses, events : 0 .. MaxEvents]
      /\ queued \cup exposed \cup doubled \subseteq Saves
      /\ latest \in [Keys -> 0 .. MaxSaves] /\ raced \subseteq Keys
      /\ ToSet(queue) \subseteq Job /\ budget.saves \in Nat
  BY <1>1, EntriesAreJobs, SpendType DEF TypeOK
<1>3. \A job \in Job : job.n \in Saves /\ job.n \in Nat
  BY JobFields
<1>4. NumbersOf(ToSet(queue)) \subseteq Saves /\ \A job : Replaced(job) \subseteq Saves
  BY <1>2, <1>3 DEF NumbersOf, Replaced
(* Putting a job on the queue.                                             *)
<1>5. ASSUME NEW job \in Job, Enqueue(job)
      PROVE  /\ queue' \in Seq(Job) /\ queued' \cup exposed' \subseteq Saves
             /\ \A q \in ToSet(queue') : q = job \/ q \in ToSet(queue)
  <2>1. queued' \subseteq Saves /\ exposed' \subseteq Saves
    BY <1>2, <1>3, <1>5 DEF Enqueue
  <2> QED BY <2>1, <1>1, <1>5, EnqueueStep
<1>6. ASSUME NEW key \in Keys \cup {Post}, NEW refused \in BOOLEAN, SaveOffline(key, refused)
      PROVE  Sound'
  <2> DEFINE job == NewJob(key, refused)
  <2>1. /\ job \in Job /\ job.n = budget.saves + 1
        /\ budget' \in [saves : 0 .. MaxSaves, losses : 0 .. MaxLosses, events : 0 .. MaxEvents]
        /\ budget'.saves = budget.saves + 1
        /\ latest' \in [Keys -> 0 .. MaxSaves] /\ raced' \subseteq Keys
    BY <1>6, SavedStep DEF SaveOffline
  <2>2. /\ queue' \in Seq(Job) /\ queued' \cup exposed' \subseteq Saves
        /\ \A q \in ToSet(queue') : q = job \/ q \in ToSet(queue)
    <3>1. Enqueue(job) /\ job \in Job
      BY <1>6, <2>1 DEF SaveOffline
    <3> HIDE DEF job
    <3> QED BY <3>1, <1>5
  <2>3. UNCHANGED <<flush, direct, online, up, posted, stored, doubled>>
    BY <1>6 DEF SaveOffline
  <2> HIDE DEF job
  <2>4. TypeOK'
    BY <1>2, <2>1, <2>2, <2>3 DEF TypeOK
  <2>5. FlushHasWork' /\ DirectAreKeys'
    BY <1>1, <2>3, SameFlushes DEF FlushHasWork, DirectAreKeys
  <2>6. NoneFromTheFuture'
    <3>1. \A n \in Saves : n > budget'.saves => posted'[n] = 0
      BY <1>1, <1>2, <2>1, <2>3, BoundsAssumption DEF NoneFromTheFuture, Saves
    <3>2. \A q \in ToSet(queue') \cup direct' : q.n <= budget'.saves
      <4>1. \A q \in ToSet(queue) \cup direct : q.n \in Nat /\ q.n <= budget.saves
        BY <1>1, <1>2, <1>3 DEF NoneFromTheFuture
      <4>2. \A q \in ToSet(queue) \cup direct : q.n <= budget'.saves
        BY <4>1, <1>2, <2>1
      <4>3. job.n <= budget'.saves
        BY <1>2, <2>1
      <4> QED BY <4>2, <4>3, <2>2, <2>3
    <3>3. \A f \in Running' : \A q \in Hand(f)' : q.n <= budget'.saves
      <4>1. \A f \in Running : \A q \in Hand(f) : q.n \in Nat /\ q.n <= budget.saves
        BY <1>1, <1>3, FlushShape DEF NoneFromTheFuture, Running
      <4> QED BY <4>1, <1>2, <2>1, <2>3, SameFlushes
    <3> QED BY <3>1, <3>2, <3>3 DEF NoneFromTheFuture
  <2> QED BY <2>4, <2>5, <2>6 DEF Sound
<1>7. ASSUME NEW key \in Keys \cup {Post}, NEW refused \in BOOLEAN, SaveOnline(key, refused)
      PROVE  Sound'
  <2> DEFINE job == NewJob(key, refused)
  <2>1. /\ job \in Job /\ job.n = budget.saves + 1 /\ job.key = key
        /\ budget' \in [saves : 0 .. MaxSaves, losses : 0 .. MaxLosses, events : 0 .. MaxEvents]
        /\ budget'.saves = budget.saves + 1
        /\ latest' \in [Keys -> 0 .. MaxSaves] /\ raced' \subseteq Keys
    BY <1>7, SavedStep DEF SaveOnline
  <2>2. /\ direct' = direct \cup {job} /\ key # Post
        /\ UNCHANGED <<queue, flush, online, up, posted, stored, queued, exposed, doubled>>
    BY <1>7 DEF SaveOnline
  <2> HIDE DEF job
  <2>4. TypeOK'
    BY <1>2, <2>1, <2>2 DEF TypeOK
  <2>5. FlushHasWork' /\ DirectAreKeys'
    BY <1>1, <2>1, <2>2, SameFlushes DEF FlushHasWork, DirectAreKeys
  <2>6. NoneFromTheFuture'
    <3>1. \A n \in Saves : n > budget'.saves => posted'[n] = 0
      BY <1>1, <1>2, <2>1, <2>2, BoundsAssumption DEF NoneFromTheFuture, Saves
    <3>2. \A q \in ToSet(queue') \cup direct' : q.n <= budget'.saves
      <4>1. \A q \in ToSet(queue) \cup direct : q.n \in Nat /\ q.n <= budget.saves
        BY <1>1, <1>2, <1>3 DEF NoneFromTheFuture
      <4>2. \A q \in ToSet(queue) \cup direct : q.n <= budget'.saves
        BY <4>1, <1>2, <2>1
      <4>3. job.n <= budget'.saves
        BY <1>2, <2>1
      <4> QED BY <4>2, <4>3, <2>2
    <3>3. \A f \in Running' : \A q \in Hand(f)' : q.n <= budget'.saves
      <4>1. \A f \in Running : \A q \in Hand(f) : q.n \in Nat /\ q.n <= budget.saves
        BY <1>1, <1>3, FlushShape DEF NoneFromTheFuture, Running
      <4> QED BY <4>1, <1>2, <2>1, <2>2, SameFlushes
    <3> QED BY <3>1, <3>2, <3>3 DEF NoneFromTheFuture
  <2> QED BY <2>4, <2>5, <2>6 DEF Sound
(* A delivery of a job that was saved leaves later saves without a trace.  *)
<1>8. ASSUME NEW job \in Job, job.n <= budget.saves,
             Deliver(job) \/ UNCHANGED <<posted, stored>>
      PROVE  /\ posted' \in [Saves -> Nat] /\ stored' \in [Keys -> 0 .. MaxSaves]
             /\ \A n \in Saves : n > budget.saves => posted'[n] = 0
  <2>1. /\ posted' \in [Saves -> Nat] /\ stored' \in [Keys -> 0 .. MaxSaves]
        /\ \A n \in Saves : n # job.n => posted'[n] = posted[n]
    BY <1>1, <1>8, DeliverStep
  <2>2. \A n \in Saves : n > budget.saves => n # job.n /\ posted[n] = 0
    BY <1>1, <1>2, <1>3, <1>8, BoundsAssumption DEF NoneFromTheFuture, Saves
  <2> QED BY <2>1, <2>2
<1>9. ASSUME NEW job \in direct, DirectOk(job) PROVE Sound'
  <2>1. job \in Job /\ job.n <= budget.saves
    BY <1>1, <1>2 DEF NoneFromTheFuture
  <2>2. /\ posted' \in [Saves -> Nat] /\ stored' \in [Keys -> 0 .. MaxSaves]
        /\ \A n \in Saves : n > budget.saves => posted'[n] = 0
    BY <1>8, <1>9, <2>1 DEF DirectOk
  <2>3. /\ direct' = direct \ {job}
        /\ UNCHANGED <<queue, flush, online, up, budget, history>>
    BY <1>9 DEF DirectOk
  <2>4. TypeOK'
    BY <1>2, <2>2, <2>3 DEF TypeOK, history
  <2>5. FlushHasWork' /\ DirectAreKeys' /\ NoneFromTheFuture'
    BY <1>1, <2>2, <2>3, SameFlushes DEF FlushHasWork, DirectAreKeys, NoneFromTheFuture
  <2> QED BY <2>4, <2>5 DEF Sound
<1>10. ASSUME NEW job \in direct, DirectFails(job) PROVE Sound'
  <2>1. job \in Job /\ job.n <= budget.saves /\ job.key \in Keys
    BY <1>1, <1>2, JobFields DEF NoneFromTheFuture, DirectAreKeys
  <2>2. Deliver(job) \/ UNCHANGED <<posted, stored>>
    BY <1>10 DEF DirectFails
  <2>3. /\ budget' \in [saves : 0 .. MaxSaves, losses : 0 .. MaxLosses, events : 0 .. MaxEvents]
        /\ budget'.saves = budget.saves
    <3>1. UNCHANGED budget \/ (budget.losses < MaxLosses /\ Spend("losses"))
      BY <1>10 DEF DirectFails
    <3> QED BY <3>1, <1>1, <1>2, SpendType
  <2>4. /\ direct' = direct \ {job} /\ Enqueue(job)
        /\ raced' \subseteq raced \cup {job.key}
        /\ UNCHANGED <<flush, online, up, doubled, latest>>
    BY <1>10 DEF DirectFails
  <2>5. /\ posted' \in [Saves -> Nat] /\ stored' \in [Keys -> 0 .. MaxSaves]
        /\ \A n \in Saves : n > budget.saves => posted'[n] = 0
    BY <1>8, <2>1, <2>2
  <2>6. /\ queue' \in Seq(Job) /\ queued' \cup exposed' \subseteq Saves
        /\ \A q \in ToSet(queue') : q = job \/ q \in ToSet(queue)
    BY <1>5, <2>1, <2>4
  <2>7. TypeOK'
    BY <1>2, <2>1, <2>3, <2>4, <2>5, <2>6 DEF TypeOK
  <2>8. FlushHasWork' /\ DirectAreKeys'
    BY <1>1, <2>4, SameFlushes DEF FlushHasWork, DirectAreKeys
  <2>9. NoneFromTheFuture'
    BY <1>1, <2>1, <2>3, <2>4, <2>5, <2>6, SameFlushes DEF NoneFromTheFuture
  <2> QED BY <2>7, <2>8, <2>9 DEF Sound
<1>11. ASSUME NEW f \in Flushes, Tick(f) PROVE Sound'
  <2>1. /\ online' = up /\ UNCHANGED <<queue, direct, up, posted, stored, budget, queued,
                                       exposed, latest, raced>>
    BY <1>11 DEF Tick
  <2>2. /\ f \notin Running /\ flush' \in [Flushes -> Flush \cup {NoFlush}]
        /\ \A g \in Flushes \ {f} : flush'[g] = flush[g]
        /\ \/ Running' = Running /\ flush' = flush /\ doubled' = doubled
           \/ /\ Running' = Running \cup {f}
              /\ queue # <<>> /\ flush'[f].todo = queue
              /\ Hand(f)' = ToSet(queue)
              /\ doubled' = IF Running # {} THEN doubled \cup Numbers(queue)
                                            ELSE doubled
    BY <1>1, <1>11, TickStep
  <2>3. doubled' \subseteq Saves
    BY <1>2, <1>4, <2>2, NumbersAreOfEntries
  <2>4. TypeOK'
    BY <1>2, <2>1, <2>2, <2>3 DEF TypeOK
  <2>5. DirectAreKeys'
    BY <1>1, <2>1 DEF DirectAreKeys
  <2>6. CASE flush' = flush
    BY <1>1, <2>1, <2>4, <2>5, <2>6, SameFlushes DEF Sound, FlushHasWork, NoneFromTheFuture
  <2>7. CASE Running' = Running \cup {f} /\ flush'[f].todo = queue /\ queue # <<>>
             /\ Hand(f)' = ToSet(queue)
    <3>1. \A g \in Running : g \in Flushes \ {f} /\ flush'[g] = flush[g]
      BY <2>2 DEF Running
    <3>2. \A g \in Running : Hand(g)' = Hand(g)
      BY <3>1 DEF Hand, Todo, Kept
    <3>3. FlushHasWork'
      BY <1>1, <2>7, <3>1 DEF FlushHasWork
    <3>4. NoneFromTheFuture'
      BY <1>1, <2>1, <2>7, <3>2 DEF NoneFromTheFuture
    <3> QED BY <3>3, <3>4, <2>4, <2>5 DEF Sound
  <2> QED BY <2>2, <2>6, <2>7
(* The flush goes on behind an answer.                                     *)
<1>12. ASSUME NEW f \in Running, NEW ok \in BOOLEAN, Advance(f, ok), UNCHANGED direct,
              budget'.saves = budget.saves,
              Deliver(Head(flush[f].todo)) \/ UNCHANGED <<posted, stored>>
       PROVE  /\ Head(flush[f].todo) \in Job /\ Head(flush[f].todo) \in Hand(f)
              /\ flush' \in [Flushes -> Flush \cup {NoFlush}] /\ queue' \in Seq(Job)
              /\ posted' \in [Saves -> Nat] /\ stored' \in [Keys -> 0 .. MaxSaves]
              /\ FlushHasWork' /\ DirectAreKeys' /\ NoneFromTheFuture'
  <2> DEFINE h == Head(flush[f].todo)
             r == Remain(f, ok)
             t == Rest(f)
  <2>1. /\ h \in Job /\ Todo(f) = {h} \cup ToSet(t)
        /\ ToSet(r) = Kept(f) \cup (IF ok THEN {} ELSE {h})
        /\ flush' \in [Flushes -> Flush \cup {NoFlush}] /\ queue' \in Seq(Job)
        /\ \A g \in Flushes \ {f} : flush'[g] = flush[g]
        /\ \/ /\ Running' = Running \ {f} /\ queue' = r
           \/ /\ Running' = Running /\ queue' = queue /\ t # <<>>
              /\ flush'[f].todo = t /\ flush'[f].remain = r
    BY <1>1, <1>12, AdvanceStep
  <2> HIDE DEF h, r, t
  <2>2. h \in Hand(f) /\ h.n <= budget.saves
    BY <1>1, <2>1 DEF NoneFromTheFuture, Hand
  <2>3. /\ posted' \in [Saves -> Nat] /\ stored' \in [Keys -> 0 .. MaxSaves]
        /\ \A n \in Saves : n > budget.saves => posted'[n] = 0
    BY <1>8, <1>12, <2>1, <2>2 DEF h
  <2>4. \A g \in Running \ {f} : flush'[g] = flush[g] /\ Hand(g)' = Hand(g)
    BY <2>1 DEF Running, Hand, Todo, Kept
  <2>5. f \in Running' => Hand(f)' \subseteq Hand(f) /\ flush'[f].todo # <<>>
    BY <2>1 DEF Hand, Todo, Kept
  <2>6. \A q \in ToSet(queue') : q \in ToSet(queue) \/ q \in Hand(f)
    BY <2>1 DEF Hand
  <2>7. Running' \subseteq Running
    BY <2>1
  <2>8. FlushHasWork'
    BY <1>1, <2>4, <2>5, <2>7 DEF FlushHasWork
  <2>9. NoneFromTheFuture'
    BY <1>1, <1>12, <2>3, <2>4, <2>5, <2>6, <2>7 DEF NoneFromTheFuture
  <2>10. DirectAreKeys'
    BY <1>1, <1>12 DEF DirectAreKeys
  <2> QED BY <2>1, <2>2, <2>3, <2>8, <2>9, <2>10 DEF h
<1>13. ASSUME NEW f \in Flushes, SendOk(f) PROVE Sound'
  <2>1. /\ f \in Running /\ Deliver(Head(flush[f].todo)) /\ Advance(f, TRUE)
        /\ queued' \subseteq queued
        /\ UNCHANGED <<direct, online, up, budget, exposed, doubled, latest, raced>>
    BY <1>13 DEF SendOk, Running
  <2>2. /\ flush' \in [Flushes -> Flush \cup {NoFlush}] /\ queue' \in Seq(Job)
        /\ posted' \in [Saves -> Nat] /\ stored' \in [Keys -> 0 .. MaxSaves]
        /\ FlushHasWork' /\ DirectAreKeys' /\ NoneFromTheFuture'
    BY <1>12, <2>1
  <2>3. TypeOK'
    BY <1>2, <2>1, <2>2 DEF TypeOK
  <2> QED BY <2>2, <2>3 DEF Sound
<1>14. ASSUME NEW f \in Flushes, SendFails(f) PROVE Sound'
  <2> DEFINE h == Head(flush[f].todo)
  <2>1. /\ f \in Running
        /\ Deliver(h) \/ UNCHANGED <<posted, stored>>
        /\ Advance(f, FALSE) /\ doubled' \subseteq doubled \cup {h.n}
        /\ UNCHANGED budget \/ (budget.losses < MaxLosses /\ Spend("losses"))
        /\ UNCHANGED <<direct, online, up, queued, exposed, latest, raced>>
    BY <1>14 DEF SendFails, Running
  <2>2. /\ budget' \in [saves : 0 .. MaxSaves, losses : 0 .. MaxLosses, events : 0 .. MaxEvents]
        /\ budget'.saves = budget.saves
    BY <2>1, <1>1, <1>2, SpendType
  <2>3. /\ flush' \in [Flushes -> Flush \cup {NoFlush}] /\ queue' \in Seq(Job)
        /\ posted' \in [Saves -> Nat] /\ stored' \in [Keys -> 0 .. MaxSaves]
        /\ FlushHasWork' /\ DirectAreKeys' /\ NoneFromTheFuture' /\ h \in Job
    BY <1>12, <2>1, <2>2
  <2>4. doubled' \subseteq Saves
    BY <1>2, <1>3, <2>1, <2>3
  <2>5. TypeOK'
    BY <1>2, <2>1, <2>2, <2>3, <2>4 DEF TypeOK
  <2> QED BY <2>3, <2>5 DEF Sound
<1>15. ASSUME LedgerFlips PROVE Sound'
  <2>1. /\ budget' \in [saves : 0 .. MaxSaves, losses : 0 .. MaxLosses, events : 0 .. MaxEvents]
        /\ budget'.saves = budget.saves /\ up' \in BOOLEAN
        /\ UNCHANGED <<queue, flush, direct, online, posted, stored, history>>
    BY <1>1, <1>2, <1>15, SpendType DEF LedgerFlips
  <2>2. TypeOK'
    BY <1>2, <2>1 DEF TypeOK, history
  <2> QED BY <1>1, <2>1, <2>2, SameFlushes
          DEF Sound, FlushHasWork, DirectAreKeys, NoneFromTheFuture
<1>16. ASSUME Reload PROVE Sound'
  <2>1. /\ budget' \in [saves : 0 .. MaxSaves, losses : 0 .. MaxLosses, events : 0 .. MaxEvents]
        /\ budget'.saves = budget.saves
    BY <1>1, <1>16, SpendType DEF Reload
  <2>2. /\ flush' = [f \in Flushes |-> NoFlush] /\ direct' = {}
        /\ raced' = raced \cup {job.key : job \in direct}
        /\ doubled' \subseteq doubled \cup Numbers(queue)
        /\ UNCHANGED <<queue, online, up, posted, stored, queued, exposed, latest>>
    BY <1>16 DEF Reload
  <2>3. raced' \subseteq Keys
    BY <1>1, <1>2, <2>2, JobFields DEF DirectAreKeys
  <2>4. doubled' \subseteq Saves
    BY <1>2, <1>4, <2>2, NumbersAreOfEntries
  <2>5. TypeOK'
    BY <1>2, <2>1, <2>2, <2>3, <2>4 DEF TypeOK
  <2>6. Running' = {}
    BY <2>2 DEF Running, NoFlush
  <2> QED BY <1>1, <2>1, <2>2, <2>5, <2>6
          DEF Sound, FlushHasWork, DirectAreKeys, NoneFromTheFuture
<1>17. ASSUME UNCHANGED vars PROVE Sound'
  BY <1>1, <1>17, SameFlushes
     DEF Sound, TypeOK, FlushHasWork, DirectAreKeys, NoneFromTheFuture, vars, history
<1> QED BY <1>6, <1>7, <1>9, <1>10, <1>11, <1>13, <1>14, <1>15, <1>16, <1>17
        DEF Next, FlushStep

-----------------------------------------------------------------------------
(* Queued work stays queued.                                               *)

(* What waits on the queue waits there after a job was put behind it,      *)
(* unless the job replaced it.                                             *)
LEMMA EnqueueLosesNothing ==
  ASSUME Sound, NothingLost, NEW job \in Job, Enqueue(job), UNCHANGED flush
  PROVE  NothingLost'
<1>1. TypeOK /\ queued \ exposed \subseteq NumbersOf(ToSet(queue)) /\ KeptInHand
  BY NumbersAreOfEntries DEF Sound, NothingLost, KeptUntilDelivered
<1>2. /\ ToSet(queue') = {q \in ToSet(queue) : ~Supersedes(job, q)} \cup {job}
      /\ queued' = (queued \ Replaced(job)) \cup {job.n}
      /\ exposed' = IF Running # {} THEN exposed \cup {job.n} ELSE exposed
  BY <1>1, EnqueueStep DEF Enqueue
<1>3. \A q \in ToSet(queue) : Supersedes(job, q) => q.n \in Replaced(job)
  <2>1. ToSet(queue) \subseteq Job
    BY <1>1, EntriesAreJobs DEF TypeOK
  <2> QED BY <2>1, JobFields DEF Supersedes, Replaced
<1>4. queued' \ exposed' \subseteq NumbersOf(ToSet(queue'))
  <2> SUFFICES ASSUME NEW n \in queued', n \notin exposed', n # job.n
               PROVE  n \in NumbersOf(ToSet(queue'))
    BY <1>2 DEF NumbersOf
  <2>1. n \in queued \ exposed /\ n \notin Replaced(job)
    BY <1>2
  <2>2. PICK q \in ToSet(queue) : q.n = n
    BY <1>1, <2>1 DEF NumbersOf
  <2>3. q \in ToSet(queue')
    BY <1>2, <1>3, <2>1, <2>2
  <2> QED BY <2>2, <2>3 DEF NumbersOf
<1>5. Running' = Running /\ \A f : Hand(f)' = Hand(f)
  BY SameFlushes
<1>6. Running # {} => queued' \ exposed' \subseteq queued \ exposed
  BY <1>2
<1>7. KeptInHand'
  BY <1>1, <1>5, <1>6 DEF KeptInHand
<1>8. KeptUntilDelivered'
  BY <1>4, NumbersAreOfEntries DEF KeptUntilDelivered, Numbers, NumbersOf, ToSet
<1> QED BY <1>7, <1>8 DEF NothingLost

(* Nor is anything lost behind an answer: what was not sent is kept.       *)
LEMMA AdvanceLosesNothing ==
  ASSUME Sound, NothingLost, NEW f \in Running, NEW ok \in BOOLEAN, Advance(f, ok),
         queued' = IF ok THEN queued \ {Head(flush[f].todo).n} ELSE queued,
         exposed' = exposed
  PROVE  NothingLost'
<1> DEFINE h == Head(flush[f].todo)
           r == Remain(f, ok)
           t == Rest(f)
<1>1. TypeOK /\ FlushHasWork /\ queued \ exposed \subseteq NumbersOf(ToSet(queue))
      /\ KeptInHand
  BY NumbersAreOfEntries DEF Sound, NothingLost, KeptUntilDelivered
<1>2. /\ Todo(f) = {h} \cup ToSet(t)
      /\ ToSet(r) = Kept(f) \cup (IF ok THEN {} ELSE {h})
      /\ \A g \in Flushes \ {f} : flush'[g] = flush[g]
      /\ \/ /\ Running' = Running \ {f} /\ queue' = r /\ ToSet(t) = {}
         \/ /\ Running' = Running /\ queue' = queue
            /\ flush'[f].todo = t /\ flush'[f].remain = r
  BY <1>1, AdvanceStep
<1>3. queued' = IF ok THEN queued \ {h.n} ELSE queued
  OBVIOUS
<1> HIDE DEF h, r, t
<1>4. queued' \ exposed' \subseteq queued \ exposed
  BY <1>3
<1>5. queued' \ exposed' \subseteq NumbersOf(ToSet(r) \cup ToSet(t))
  <2> SUFFICES ASSUME NEW n \in queued' \ exposed'
               PROVE  n \in NumbersOf(ToSet(r) \cup ToSet(t))
    OBVIOUS
  <2>1. PICK q \in Hand(f) : q.n = n
    BY <1>1, <1>4 DEF KeptInHand, NumbersOf
  <2>2. q \in ToSet(r) \cup ToSet(t)
    BY <1>2, <1>3, <2>1 DEF Hand
  <2> QED BY <2>1, <2>2 DEF NumbersOf
<1>6. \A g \in Running \ {f} : Hand(g)' = Hand(g)
  BY <1>2 DEF Running, Hand, Todo, Kept
<1>7. CASE Running' = Running \ {f} /\ queue' = r /\ ToSet(t) = {}
  <2>1. KeptUntilDelivered'
    BY <1>5, <1>7, NumbersAreOfEntries DEF KeptUntilDelivered, Numbers, NumbersOf, ToSet
  <2>2. KeptInHand'
    BY <1>1, <1>4, <1>6, <1>7 DEF KeptInHand
  <2> QED BY <2>1, <2>2 DEF NothingLost
<1>8. CASE Running' = Running /\ queue' = queue /\ flush'[f].todo = t /\ flush'[f].remain = r
  <2>1. KeptUntilDelivered'
    BY <1>1, <1>4, <1>8, NumbersAreOfEntries DEF KeptUntilDelivered, Numbers, NumbersOf, ToSet
  <2>2. Hand(f)' = ToSet(r) \cup ToSet(t)
    BY <1>8 DEF Hand, Todo, Kept
  <2>3. KeptInHand'
    BY <1>1, <1>4, <1>5, <1>6, <1>8, <2>2 DEF KeptInHand
  <2> QED BY <2>1, <2>3 DEF NothingLost
<1> QED BY <1>2, <1>7, <1>8

LEMMA NothingLostStep ==
  ASSUME Sound, NothingLost, [Next]_vars
  PROVE  NothingLost'
<1>1. TypeOK /\ queued \ exposed \subseteq NumbersOf(ToSet(queue)) /\ KeptInHand
      /\ KeptUntilDelivered
  BY NumbersAreOfEntries DEF Sound, NothingLost, KeptUntilDelivered
<1>2. ASSUME UNCHANGED <<queue, flush, queued, exposed>> PROVE NothingLost'
  BY <1>2, SameFlushes
     DEF NothingLost, KeptUntilDelivered, KeptInHand, Numbers
<1>3. ASSUME NEW key \in Keys \cup {Post}, NEW refused \in BOOLEAN, SaveOffline(key, refused)
      PROVE  NothingLost'
  <2>1. NewJob(key, refused) \in Job /\ Enqueue(NewJob(key, refused)) /\ UNCHANGED flush
    BY <1>3, SavedStep DEF SaveOffline
  <2> QED BY <2>1, EnqueueLosesNothing
<1>4. ASSUME NEW job \in direct, DirectFails(job) PROVE NothingLost'
  <2>1. job \in Job /\ Enqueue(job) /\ UNCHANGED flush
    BY <1>1, <1>4 DEF DirectFails, TypeOK
  <2> QED BY <2>1, EnqueueLosesNothing
<1>5. ASSUME NEW f \in Flushes, Tick(f) PROVE NothingLost'
  <2>1. UNCHANGED <<queue, queued, exposed>>
    BY <1>5 DEF Tick
  <2>2. /\ \A g \in Flushes \ {f} : flush'[g] = flush[g]
        /\ \/ flush' = flush
           \/ /\ Running' = Running \cup {f} /\ f \notin Running
              /\ Hand(f)' = ToSet(queue)
    BY <1>1, <1>5, TickStep
  <2>3. ASSUME Running' = Running \cup {f}, f \notin Running, Hand(f)' = ToSet(queue)
        PROVE  NothingLost'
    <3>1. \A g \in Running : Hand(g)' = Hand(g)
      BY <2>2, <2>3 DEF Running, Hand, Todo, Kept
    <3>2. KeptInHand'
      BY <1>1, <2>1, <2>3, <3>1 DEF KeptInHand
    <3> QED BY <1>1, <2>1, <3>2 DEF NothingLost, KeptUntilDelivered, Numbers
  <2> QED BY <1>2, <2>1, <2>2, <2>3
<1>6. ASSUME NEW f \in Flushes, SendOk(f) PROVE NothingLost'
  <2>1. /\ f \in Running /\ Advance(f, TRUE) /\ exposed' = exposed
        /\ queued' = queued \ {Head(flush[f].todo).n}
    BY <1>6 DEF SendOk, Running
  <2> QED BY <2>1, AdvanceLosesNothing
<1>7. ASSUME NEW f \in Flushes, SendFails(f) PROVE NothingLost'
  <2>1. f \in Running /\ Advance(f, FALSE) /\ exposed' = exposed /\ queued' = queued
    BY <1>7 DEF SendFails, Running
  <2> QED BY <2>1, AdvanceLosesNothing
<1>8. ASSUME Reload PROVE NothingLost'
  <2>1. flush' = [f \in Flushes |-> NoFlush] /\ UNCHANGED <<queue, queued, exposed>>
    BY <1>8 DEF Reload
  <2>2. Running' = {}
    BY <2>1 DEF Running, NoFlush
  <2> QED BY <1>1, <2>1, <2>2 DEF NothingLost, KeptUntilDelivered, KeptInHand, Numbers
<1>9. ASSUME NEW key \in Keys \cup {Post}, NEW refused \in BOOLEAN, SaveOnline(key, refused)
      PROVE  NothingLost'
  BY <1>2, <1>9 DEF SaveOnline
<1>10. ASSUME NEW job \in direct, DirectOk(job) PROVE NothingLost'
  BY <1>2, <1>10 DEF DirectOk, history
<1>11. ASSUME LedgerFlips \/ UNCHANGED vars PROVE NothingLost'
  BY <1>2, <1>11 DEF LedgerFlips, history, vars
<1> QED BY <1>3, <1>4, <1>5, <1>6, <1>7, <1>8, <1>9, <1>10, <1>11 DEF Next, FlushStep

-----------------------------------------------------------------------------
(* A visit makes one row.                                                  *)

LEMMA PostsOfUnion ==
  ASSUME NEW A, NEW B
  PROVE  PostsOf(A \cup B) = PostsOf(A) \cup PostsOf(B)
  BY DEF PostsOf

LEMMA PostNumbers ==
  ASSUME NEW jobs \in SUBSET Job
  PROVE  PostsOf(jobs) \subseteq NumbersOf(jobs) /\ PostsOf(jobs) \subseteq Saves
  BY JobFields DEF PostsOf, NumbersOf

(* An answer: the POST at the head makes its row and leaves the hand of    *)
(* the flush, or it is kept and has made none, or it is counted as doubled.*)
LEMMA AdvanceOnce ==
  ASSUME Sound, NoneTwice, NEW f \in Running, NEW ok \in BOOLEAN, Advance(f, ok),
         doubled \subseteq doubled',
         \A n \in Saves : n # Head(flush[f].todo).n => posted'[n] = posted[n],
         \/ posted' = posted
         \/ Head(flush[f].todo).n \in doubled'
         \/ /\ ok /\ Head(flush[f].todo).key = Post
            /\ posted'[Head(flush[f].todo).n] = posted[Head(flush[f].todo).n] + 1
  PROVE  NoneTwice'
<1> DEFINE h == Head(flush[f].todo)
           r == Remain(f, ok)
           t == Rest(f)
<1>1. /\ TypeOK /\ FlushHasWork /\ posted \in [Saves -> Nat]
      /\ PostedOnce /\ HandsUnposted /\ HandsApart /\ ListsOnce
      /\ f \in Flushes
  BY DEF Sound, NoneTwice, Running, TypeOK
<1>2. /\ h \in Job /\ r \in Seq(Job) /\ t \in Seq(Job)
      /\ Todo(f) = {h} \cup ToSet(t)
      /\ ToSet(r) = Kept(f) \cup (IF ok THEN {} ELSE {h})
      /\ \A g \in Flushes \ {f} : flush'[g] = flush[g]
      /\ \/ /\ Running' = Running \ {f} /\ queue' = r /\ ToSet(t) = {}
         \/ /\ Running' = Running /\ queue' = queue
            /\ flush'[f].todo = t /\ flush'[f].remain = r
  BY <1>1, AdvanceStep
<1>3. /\ flush[f].todo \in Seq(Job) /\ flush[f].remain \in Seq(Job) /\ flush[f].todo # <<>>
      /\ PostsOnce(flush[f].todo) /\ PostsOnce(flush[f].remain)
      /\ PostsOf(Todo(f)) \cap PostsOf(Kept(f)) = {}
  BY <1>1, FlushShape DEF FlushHasWork, ListsOnce
<1>4. PostsOnce(t) /\ (h.key = Post => h.n \notin PostsOf(ToSet(t)))
  BY <1>3, PostsOnceInTail DEF Rest
<1>5. h.key = Post => h.n \in PostsOf(Todo(f)) /\ h.n \in PostsOf(Hand(f))
                      /\ h.n \notin PostsOf(Kept(f))
  <2>1. h \in Todo(f) /\ h \in Hand(f)
    BY <1>2 DEF Hand
  <2>2. h.key = Post => h.n \in PostsOf(Todo(f)) /\ h.n \in PostsOf(Hand(f))
    BY <2>1 DEF PostsOf
  <2> QED BY <2>2, <1>3
<1>6. PostsOnce(r)
  <2>1. CASE ok
    BY <1>3, <2>1 DEF Remain
  <2>2. CASE ~ok
    <3>1. r = Append(flush[f].remain, h)
      BY <2>2 DEF Remain
    <3>2. h.key = Post => h.n \notin PostsOf(ToSet(flush[f].remain))
      BY <1>5 DEF Kept
    <3> HIDE DEF h, r
    <3> QED BY <3>1, <3>2, <1>2, <1>3, PostsOnceInAppend
  <2> QED BY <2>1, <2>2
<1>7. PostsOf(ToSet(t)) \cap PostsOf(ToSet(r)) = {}
  <2> HIDE DEF h, r, t
  <2>1. PostsOf(ToSet(t)) \subseteq PostsOf(Todo(f))
    BY <1>2 DEF PostsOf
  <2>2. PostsOf(ToSet(r)) \subseteq PostsOf(Kept(f)) \cup (IF h.key = Post THEN {h.n} ELSE {})
    BY <1>2 DEF PostsOf
  <2> QED BY <2>1, <2>2, <1>3, <1>4
<1>8. /\ \A n \in Saves : n # h.n => posted'[n] = posted[n]
      /\ \/ posted' = posted
         \/ h.n \in doubled'
         \/ ok /\ h.key = Post /\ posted'[h.n] = posted[h.n] + 1
  OBVIOUS
<1> HIDE DEF h, r, t
<1>9. PostsOf(ToSet(r) \cup ToSet(t)) \subseteq PostsOf(Hand(f))
  BY <1>2 DEF Hand, PostsOf
<1>10. \A n \in PostsOf(ToSet(r) \cup ToSet(t)) \ doubled' : posted'[n] = 0
  <2> SUFFICES ASSUME NEW n \in PostsOf(ToSet(r) \cup ToSet(t)), n \notin doubled'
               PROVE  posted'[n] = 0
    OBVIOUS
  <2>1. n \in Saves
    <3>1. Hand(f) \in SUBSET Job
      BY <1>1, FlushShape
    <3> QED BY <3>1, <1>9, PostNumbers
  <2>2. posted[n] = 0
    BY <1>1, <1>9 DEF HandsUnposted
  <2>3. CASE n # h.n \/ posted' = posted
    BY <2>1, <2>2, <2>3, <1>8
  <2>4. CASE ok /\ h.key = Post /\ n = h.n
    <3>1. n \in PostsOf(ToSet(r)) \cup PostsOf(ToSet(t))
      BY PostsOfUnion
    <3>2. ToSet(r) = Kept(f)
      BY <1>2, <2>4
    <3> QED BY <3>1, <3>2, <2>4, <1>4, <1>5
  <2> QED BY <2>3, <2>4, <1>8
<1>11. \A g \in Running \ {f} : Hand(g)' = Hand(g) /\ Todo(g)' = Todo(g) /\ Kept(g)' = Kept(g)
                                /\ flush'[g] = flush[g]
  BY <1>2 DEF Running, Hand, Todo, Kept
<1>12. \A g \in Running \ {f} : \A n \in PostsOf(Hand(g)) \ doubled' : posted'[n] = 0
  <2> SUFFICES ASSUME NEW g \in Running \ {f}, NEW n \in PostsOf(Hand(g)), n \notin doubled'
               PROVE  posted'[n] = 0
    OBVIOUS
  <2>1. n \in Saves /\ posted[n] = 0
    <3>1. g \in Flushes
      BY DEF Running
    <3>2. Hand(g) \in SUBSET Job
      BY <3>1, <1>1, FlushShape
    <3> QED BY <3>2, <1>1, PostNumbers DEF HandsUnposted
  <2>2. h.key = Post => n # h.n
    BY <1>1, <1>5 DEF HandsApart
  <2> QED BY <2>1, <2>2, <1>8
<1>13. PostedOnce'
  <2> SUFFICES ASSUME NEW n \in Saves, n \notin doubled'
               PROVE  posted'[n] <= 1
    BY DEF PostedOnce
  <2>1. posted[n] <= 1 /\ posted[n] \in Nat
    BY <1>1 DEF PostedOnce
  <2>2. CASE n # h.n \/ posted' = posted
    BY <2>1, <2>2, <1>8
  <2>3. CASE n = h.n /\ ok /\ h.key = Post /\ posted'[h.n] = posted[h.n] + 1
    <3>1. posted[n] = 0
      BY <1>1, <1>5, <2>3 DEF HandsUnposted
    <3> QED BY <3>1, <2>3
  <2> QED BY <2>2, <2>3, <1>8
<1>14. CASE Running' = Running \ {f} /\ queue' = r /\ ToSet(t) = {}
  <2>1. HandsUnposted'
    BY <1>11, <1>12, <1>14 DEF HandsUnposted
  <2>2. HandsApart'
    BY <1>1, <1>11, <1>14 DEF HandsApart
  <2>3. QueueUnposted'
    <3>1. ToSet(queue') = ToSet(r) \cup ToSet(t)
      BY <1>14
    <3> QED BY <3>1, <1>10 DEF QueueUnposted
  <2>4. ListsOnce'
    BY <1>1, <1>6, <1>11, <1>14 DEF ListsOnce
  <2> QED BY <1>13, <2>1, <2>2, <2>3, <2>4 DEF NoneTwice
<1>15. CASE Running' = Running /\ queue' = queue /\ flush'[f].todo = t /\ flush'[f].remain = r
  <2>1. Hand(f)' = ToSet(r) \cup ToSet(t) /\ Todo(f)' = ToSet(t) /\ Kept(f)' = ToSet(r)
    BY <1>15 DEF Hand, Todo, Kept
  <2>2. HandsUnposted'
    BY <1>10, <1>11, <1>12, <1>15, <2>1 DEF HandsUnposted
  <2>3. HandsApart'
    <3>1. \A g \in Running : PostsOf(Hand(g)') \subseteq PostsOf(Hand(g))
      BY <1>9, <1>11, <2>1
    <3> QED BY <3>1, <1>1, <1>15 DEF HandsApart
  <2>4. QueueUnposted'
    BY <1>15 DEF QueueUnposted
  <2>5. ListsOnce'
    <3>1. PostsOnce(queue')
      BY <1>1, <1>15 DEF ListsOnce
    <3>2. \A g \in Running : /\ PostsOnce(flush'[g].todo) /\ PostsOnce(flush'[g].remain)
                             /\ PostsOf(Todo(g)') \cap PostsOf(Kept(g)') = {}
      BY <1>1, <1>4, <1>6, <1>7, <1>11, <1>15, <2>1 DEF ListsOnce
    <3> QED BY <3>1, <3>2, <1>15 DEF ListsOnce
  <2> QED BY <1>13, <2>2, <2>3, <2>4, <2>5 DEF NoneTwice
<1> QED BY <1>2, <1>14, <1>15

LEMMA NoneTwiceStep ==
  ASSUME Sound, NoneTwice, [Next]_vars
  PROVE  NoneTwice'
<1>1. /\ TypeOK /\ DirectAreKeys /\ NoneFromTheFuture /\ queue \in Seq(Job)
      /\ PostedOnce /\ HandsUnposted /\ HandsApart /\ QueueUnposted /\ ListsOnce
  BY DEF Sound, NoneTwice, TypeOK
<1>2. ASSUME flush' = flush, doubled' = doubled, posted' = posted,
             PostsOf(ToSet(queue')) \subseteq PostsOf(ToSet(queue)), PostsOnce(queue')
      PROVE  NoneTwice'
  <2>1. /\ Running' = Running
        /\ \A f : Hand(f)' = Hand(f) /\ Todo(f)' = Todo(f) /\ Kept(f)' = Kept(f)
    BY <1>2, SameFlushes
  <2> QED BY <1>1, <1>2, <2>1
          DEF NoneTwice, PostedOnce, HandsUnposted, HandsApart, QueueUnposted, ListsOnce
<1>3. ASSUME NEW key \in Keys \cup {Post}, NEW refused \in BOOLEAN, SaveOffline(key, refused)
      PROVE  NoneTwice'
  <2> DEFINE job == NewJob(key, refused)
  <2>1. /\ job \in Job /\ job.n = budget.saves + 1 /\ job.n \in Saves
        /\ Enqueue(job) /\ UNCHANGED <<flush, posted, doubled>>
    BY <1>3, SavedStep DEF SaveOffline
  <2> HIDE DEF job
  <2>2. posted[job.n] = 0 /\ job.n \notin PostsOf(ToSet(queue))
    <3>1. budget.saves \in Nat
      BY <1>1, SpendType
    <3>2. \A q \in ToSet(queue) : q.n <= budget.saves
      BY <1>1 DEF NoneFromTheFuture
    <3>3. \A q \in ToSet(queue) : q.n # job.n
      BY <3>1, <3>2, <2>1
    <3>4. posted[job.n] = 0
      BY <3>1, <2>1, <1>1 DEF NoneFromTheFuture
    <3> QED BY <3>3, <3>4 DEF PostsOf
  <2>3. /\ PostsOnce(queue')
        /\ \A q \in ToSet(queue') : q = job \/ q \in ToSet(queue)
    BY <1>1, <2>1, <2>2, EnqueueStep DEF ListsOnce
  <2>4. \A n \in PostsOf(ToSet(queue')) : n = job.n \/ n \in PostsOf(ToSet(queue))
    BY <2>3 DEF PostsOf
  <2>5. /\ Running' = Running
        /\ \A f : Hand(f)' = Hand(f) /\ Todo(f)' = Todo(f) /\ Kept(f)' = Kept(f)
    BY <2>1, SameFlushes
  <2>6. QueueUnposted'
    BY <1>1, <2>1, <2>2, <2>4, <2>5 DEF QueueUnposted
  <2> QED BY <1>1, <2>1, <2>3, <2>5, <2>6
          DEF NoneTwice, PostedOnce, HandsUnposted, HandsApart, ListsOnce
<1>4. ASSUME NEW key \in Keys \cup {Post}, NEW refused \in BOOLEAN, SaveOnline(key, refused)
      PROVE  NoneTwice'
  BY <1>1, <1>2, <1>4 DEF SaveOnline, ListsOnce
<1>5. ASSUME NEW job \in direct, DirectOk(job) PROVE NoneTwice'
  <2>1. job \in Job /\ job.key # Post
    BY <1>1 DEF DirectAreKeys, TypeOK
  <2>2. posted' = posted /\ UNCHANGED <<queue, flush, doubled>>
    BY <1>1, <1>5, <2>1 DEF DirectOk, Deliver, history
  <2> QED BY <1>1, <1>2, <2>2 DEF ListsOnce
<1>6. ASSUME NEW job \in direct, DirectFails(job) PROVE NoneTwice'
  <2>1. job \in Job /\ job.key # Post
    BY <1>1 DEF DirectAreKeys, TypeOK
  <2>2. posted' = posted /\ UNCHANGED <<flush, doubled>> /\ Enqueue(job)
    BY <1>6, <2>1 DEF DirectFails, Deliver
  <2>3. PostsOnce(queue') /\ \A q \in ToSet(queue') : q = job \/ q \in ToSet(queue)
    BY <1>1, <2>1, <2>2, EnqueueStep DEF ListsOnce
  <2>4. PostsOf(ToSet(queue')) \subseteq PostsOf(ToSet(queue))
    BY <2>1, <2>3 DEF PostsOf
  <2> QED BY <1>2, <2>2, <2>3, <2>4
<1>7. ASSUME NEW f \in Flushes, Tick(f) PROVE NoneTwice'
  <2>1. UNCHANGED <<queue, posted>>
    BY <1>7 DEF Tick
  <2>2. /\ f \notin Running
        /\ \A g \in Flushes \ {f} : flush'[g] = flush[g]
        /\ \/ Running' = Running /\ flush' = flush /\ doubled' = doubled
           \/ /\ Running' = Running \cup {f}
              /\ flush'[f].todo = queue /\ flush'[f].remain = <<>>
              /\ Hand(f)' = ToSet(queue) /\ Todo(f)' = ToSet(queue) /\ Kept(f)' = {}
              /\ doubled' = IF Running # {} THEN doubled \cup Numbers(queue)
                                            ELSE doubled
    BY <1>1, <1>7, TickStep
  <2>3. CASE flush' = flush /\ doubled' = doubled
    BY <1>1, <1>2, <2>1, <2>3 DEF ListsOnce
  <2>4. ASSUME Running' = Running \cup {f},
               flush'[f].todo = queue, flush'[f].remain = <<>>,
               Hand(f)' = ToSet(queue), Todo(f)' = ToSet(queue), Kept(f)' = {},
               doubled' = IF Running # {} THEN doubled \cup Numbers(queue) ELSE doubled
        PROVE  NoneTwice'
    <3>1. \A g \in Running : /\ flush'[g] = flush[g] /\ g # f
                             /\ Hand(g)' = Hand(g) /\ Todo(g)' = Todo(g) /\ Kept(g)' = Kept(g)
      BY <2>2 DEF Running, Hand, Todo, Kept
    <3>2. doubled \subseteq doubled'
          /\ (Running # {} => PostsOf(ToSet(queue)) \subseteq doubled')
      <4>1. ToSet(queue) \in SUBSET Job
        BY <1>1, EntriesAreJobs
      <4> QED BY <4>1, <2>4, NumbersAreOfEntries, PostNumbers
    <3>3. HandsUnposted'
      <4>1. \A n \in PostsOf(ToSet(queue)) \ doubled' : posted[n] = 0
        BY <1>1, <3>2 DEF QueueUnposted
      <4> QED BY <1>1, <2>1, <2>4, <3>1, <3>2, <4>1 DEF HandsUnposted
    <3>4. HandsApart'
      <4>1. ASSUME NEW g \in Running
            PROVE  PostsOf(Hand(g)') \cap PostsOf(Hand(f)') \subseteq doubled'
        BY <2>4, <3>2
      <4> QED BY <1>1, <2>4, <3>1, <3>2, <4>1 DEF HandsApart
    <3>5. QueueUnposted'
      BY <2>4 DEF QueueUnposted
    <3>6. ListsOnce'
      <4>1. PostsOnce(<<>>) /\ PostsOf({}) = {}
        BY DEF PostsOnce, PostsOf
      <4> QED BY <1>1, <2>1, <2>4, <3>1, <4>1 DEF ListsOnce
    <3>7. PostedOnce'
      BY <1>1, <2>1, <3>2 DEF PostedOnce
    <3> QED BY <3>3, <3>4, <3>5, <3>6, <3>7 DEF NoneTwice
  <2> QED BY <2>2, <2>3, <2>4
<1>8. ASSUME NEW f \in Flushes, SendOk(f) PROVE NoneTwice'
  <2> DEFINE h == Head(flush[f].todo)
  <2>1. f \in Running /\ Advance(f, TRUE) /\ Deliver(h) /\ doubled' = doubled
    BY <1>8 DEF SendOk, Running
  <2>2. h \in Job
    BY <1>1, <2>1, AdvanceStep DEF Sound
  <2>3. /\ \A n \in Saves : n # h.n => posted'[n] = posted[n]
        /\ h.key # Post => posted' = posted
        /\ h.key = Post => posted'[h.n] = posted[h.n] + 1
    BY <1>1, <2>1, <2>2, DeliverStep
  <2> QED BY <2>1, <2>3, AdvanceOnce
<1>9. ASSUME NEW f \in Flushes, SendFails(f) PROVE NoneTwice'
  <2> DEFINE h == Head(flush[f].todo)
  <2>1. /\ f \in Running /\ Advance(f, FALSE)
        /\ \/ posted' = posted /\ doubled' = doubled /\ stored' = stored
           \/ /\ doubled' = doubled \cup {h.n}
              /\ Deliver(h) \/ UNCHANGED <<posted, stored>>
    BY <1>9 DEF SendFails, Running
  <2>2. h \in Job
    BY <1>1, <2>1, AdvanceStep DEF Sound
  <2>3. \A n \in Saves : n # h.n => posted'[n] = posted[n]
    BY <1>1, <2>1, <2>2, DeliverStep
  <2>4. posted' = posted \/ h.n \in doubled'
    BY <2>1
  <2> QED BY <2>1, <2>3, <2>4, AdvanceOnce
<1>10. ASSUME Reload PROVE NoneTwice'
  <2>1. /\ flush' = [f \in Flushes |-> NoFlush] /\ UNCHANGED <<queue, posted>>
        /\ doubled' = IF Running # {} THEN doubled \cup Numbers(queue) ELSE doubled
    BY <1>10 DEF Reload
  <2>2. Running' = {}
    BY <2>1 DEF Running, NoFlush
  <2>3. doubled \subseteq doubled'
        /\ (Running # {} => PostsOf(ToSet(queue)) \subseteq doubled')
    <3>1. ToSet(queue) \in SUBSET Job
      BY <1>1, EntriesAreJobs
    <3> QED BY <3>1, <2>1, NumbersAreOfEntries, PostNumbers
  <2>4. QueueUnposted'
    BY <1>1, <2>1, <2>3 DEF QueueUnposted
  <2> QED BY <1>1, <2>1, <2>2, <2>3, <2>4
          DEF NoneTwice, PostedOnce, HandsUnposted, HandsApart, ListsOnce
<1>11. ASSUME LedgerFlips \/ UNCHANGED vars PROVE NoneTwice'
  BY <1>1, <1>2, <1>11 DEF LedgerFlips, history, vars, ListsOnce
<1> QED BY <1>3, <1>4, <1>5, <1>6, <1>7, <1>8, <1>9, <1>10, <1>11 DEF Next, FlushStep

-----------------------------------------------------------------------------
(* The ledger ends with the newest save of a key.                          *)

(* An answer to a job that is the newest of its key leaves the others on   *)
(* their way.                                                              *)
LEMMA AdvanceKeepsNewest ==
  ASSUME Sound, NewestWins, NEW f \in Running, NEW ok \in BOOLEAN, Advance(f, ok),
         UNCHANGED <<direct, latest, raced>>,
         Deliver(Head(flush[f].todo)) \/ (~ok /\ UNCHANGED <<posted, stored>>)
  PROVE  NewestWins'
<1> DEFINE h == Head(flush[f].todo)
           r == Remain(f, ok)
           t == Rest(f)
<1>1. TypeOK /\ FlushHasWork /\ OnlyLatest /\ OnItsWay
  BY DEF Sound, NewestWins
<1>2. /\ h \in Job
      /\ Todo(f) = {h} \cup ToSet(t)
      /\ ToSet(r) = Kept(f) \cup (IF ok THEN {} ELSE {h})
      /\ \A g \in Flushes \ {f} : flush'[g] = flush[g]
      /\ \/ /\ Running' = Running \ {f} /\ queue' = r /\ ToSet(t) = {}
         \/ /\ Running' = Running /\ queue' = queue
            /\ flush'[f].todo = t /\ flush'[f].remain = r
  BY <1>1, AdvanceStep
<1>3. /\ \A key \in Keys : key # h.key => stored'[key] = stored[key]
      /\ \A key \in Keys : stored'[key] = stored[key] \/ (h.key = key /\ stored'[key] = h.n)
      /\ \A key \in Keys : ok /\ key = h.key => stored'[key] = h.n
  BY <1>1, <1>2, DeliverStep
<1> HIDE DEF h, r, t
<1>4. \A g \in Running \ {f} : Hand(g)' = Hand(g)
  BY <1>2 DEF Running, Hand, Todo, Kept
<1>5. Running' = Running => Hand(f)' = ToSet(r) \cup ToSet(t)
  BY <1>2 DEF Hand, Todo, Kept
<1>6. h \in Hand(f) /\ ToSet(r) \cup ToSet(t) \subseteq Hand(f)
      /\ \A q \in Hand(f) : q \in ToSet(r) \cup ToSet(t) \/ (ok /\ q = h)
  BY <1>2 DEF Hand
<1>7. OnlyLatest'
  <2>1. \A g \in Running' : Hand(g)' \subseteq Hand(g) /\ g \in Running
    BY <1>2, <1>4, <1>5, <1>6
  <2>2. \A q \in ToSet(queue') : q \in ToSet(queue) \cup Hand(f)
    BY <1>2, <1>6
  <2> QED BY <1>1, <2>1, <2>2 DEF OnlyLatest
<1>8. OnItsWay'
  <2> SUFFICES ASSUME NEW key \in Keys \ raced, stored'[key] # latest[key],
                      ~HasKey(direct, key)
               PROVE  /\ HasKey(ToSet(queue'), key)
                      /\ \A g \in Running' : HasKey(Hand(g)', key)
    BY DEF OnItsWay
  <2>1. stored[key] # latest[key] /\ (ok => key # h.key)
    BY <1>1, <1>3, <1>6 DEF OnlyLatest
  <2>2. HasKey(ToSet(queue), key) /\ \A g \in Running : HasKey(Hand(g), key)
    BY <1>1, <2>1 DEF OnItsWay
  <2>3. HasKey(ToSet(r) \cup ToSet(t), key)
    BY <1>6, <2>1, <2>2 DEF HasKey
  <2>4. HasKey(ToSet(queue'), key)
    BY <1>2, <2>2, <2>3 DEF HasKey
  <2>5. \A g \in Running' : HasKey(Hand(g)', key)
    BY <1>2, <1>4, <1>5, <2>2, <2>3
  <2> QED BY <2>4, <2>5
<1> QED BY <1>7, <1>8 DEF NewestWins

LEMMA NewestWinsStep ==
  ASSUME Sound, NewestWins, [Next]_vars
  PROVE  NewestWins'
<1>1. TypeOK /\ DirectAreKeys /\ OnlyLatest /\ OnItsWay
      /\ direct \subseteq Job /\ ToSet(queue) \subseteq Job
  BY EntriesAreJobs DEF Sound, NewestWins, TypeOK
<1>2. ASSUME UNCHANGED <<queue, flush, direct, stored, latest, raced>> PROVE NewestWins'
  BY <1>1, <1>2, SameFlushes DEF NewestWins, OnlyLatest, OnItsWay
<1>3. ASSUME NEW job \in Job, Enqueue(job)
      PROVE  /\ \A q \in ToSet(queue') : q = job \/ q \in ToSet(queue)
             /\ \A q \in ToSet(queue') : q.key = job.key /\ job.key \in Keys => q = job
             /\ HasKey(ToSet(queue'), job.key)
             /\ \A key : key # job.key /\ HasKey(ToSet(queue), key) => HasKey(ToSet(queue'), key)
  <2>1. ToSet(queue') = {q \in ToSet(queue) : ~Supersedes(job, q)} \cup {job}
    BY <1>1, <1>3, EnqueueStep
  <2>2. \A q \in ToSet(queue) : q.key = job.key /\ job.key \in Keys <=> Supersedes(job, q)
    BY JobFields, PostAssumption DEF Supersedes
  <2>3. \A q : Supersedes(job, q) => q.key = job.key
    BY DEF Supersedes
  <2> QED BY <2>1, <2>2, <2>3 DEF HasKey
<1>4. ASSUME NEW key \in Keys \cup {Post}, NEW refused \in BOOLEAN, SaveOffline(key, refused)
      PROVE  NewestWins'
  <2> DEFINE job == NewJob(key, refused)
  <2>1. /\ job \in Job /\ job.n = budget.saves + 1 /\ job.key = key
        /\ \A k \in Keys : k # key => latest'[k] = latest[k]
        /\ key \in Keys => latest'[key] = job.n
        /\ raced' = IF key # Post /\ Pending(key) THEN raced \cup {key} ELSE raced
        /\ Enqueue(job) /\ UNCHANGED <<flush, direct, stored>>
    BY <1>4, SavedStep DEF SaveOffline
  <2> HIDE DEF job
  <2>2. /\ \A q \in ToSet(queue') : q = job \/ q \in ToSet(queue)
        /\ \A q \in ToSet(queue') : q.key = job.key /\ job.key \in Keys => q = job
        /\ HasKey(ToSet(queue'), job.key)
        /\ \A k : k # job.key /\ HasKey(ToSet(queue), k) => HasKey(ToSet(queue'), k)
    BY <1>3, <2>1
  <2>3. Running' = Running /\ \A f : Hand(f)' = Hand(f)
    BY <2>1, SameFlushes
  <2>4. key \in Keys \ raced' => Running = {} /\ ~HasKey(direct, key)
    BY <2>1, PostAssumption DEF Pending, HasKey
  <2>5. \A k \in Keys \ raced' : k \in Keys \ raced
    BY <2>1
  <2>6. OnlyLatest'
    <3> SUFFICES ASSUME NEW k \in Keys \ raced'
                 PROVE  /\ \A q \in ToSet(queue') \cup direct : q.key = k => q.n = latest'[k]
                        /\ \A f \in Running : \A q \in Hand(f) : q.key = k => q.n = latest'[k]
      BY <2>1, <2>3 DEF OnlyLatest
    <3>1. CASE k # key
      BY <1>1, <2>1, <2>2, <2>5, <3>1 DEF OnlyLatest
    <3>2. CASE k = key
      BY <2>1, <2>2, <2>4, <3>2 DEF HasKey
    <3> QED BY <3>1, <3>2
  <2>7. OnItsWay'
    <3> SUFFICES ASSUME NEW k \in Keys \ raced', stored[k] # latest'[k], ~HasKey(direct, k)
                 PROVE  /\ HasKey(ToSet(queue'), k)
                        /\ \A f \in Running : HasKey(Hand(f), k)
      BY <2>1, <2>3 DEF OnItsWay
    <3>1. CASE k # key
      BY <1>1, <2>1, <2>2, <2>5, <3>1 DEF OnItsWay
    <3>2. CASE k = key
      BY <2>1, <2>2, <2>4, <3>2
    <3> QED BY <3>1, <3>2
  <2> QED BY <2>6, <2>7 DEF NewestWins
<1>5. ASSUME NEW key \in Keys \cup {Post}, NEW refused \in BOOLEAN, SaveOnline(key, refused)
      PROVE  NewestWins'
  <2> DEFINE job == NewJob(key, refused)
  <2>1. /\ job \in Job /\ job.key = key /\ key # Post /\ key \in Keys /\ online
        /\ \A k \in Keys : k # key => latest'[k] = latest[k]
        /\ latest'[key] = job.n
        /\ raced' = IF Pending(key) THEN raced \cup {key} ELSE raced
        /\ direct' = direct \cup {job} /\ UNCHANGED <<queue, flush, stored>>
    BY <1>5, SavedStep DEF SaveOnline
  <2> HIDE DEF job
  <2>2. Running' = Running /\ \A f : Hand(f)' = Hand(f)
    BY <2>1, SameFlushes
  <2>3. key \in Keys \ raced' =>
          Running = {} /\ ~HasKey(direct, key) /\ ~HasKey(ToSet(queue), key)
    BY <2>1 DEF Pending, HasKey, ToSet
  <2>4. \A k \in Keys \ raced' : k \in Keys \ raced
    BY <2>1
  <2>5. OnlyLatest'
    <3> SUFFICES ASSUME NEW k \in Keys \ raced'
                 PROVE  /\ \A q \in ToSet(queue) \cup direct' : q.key = k => q.n = latest'[k]
                        /\ \A f \in Running : \A q \in Hand(f) : q.key = k => q.n = latest'[k]
      BY <2>1, <2>2 DEF OnlyLatest
    <3>1. CASE k # key
      BY <1>1, <2>1, <2>4, <3>1 DEF OnlyLatest
    <3>2. CASE k = key
      BY <2>1, <2>3, <3>2 DEF HasKey
    <3> QED BY <3>1, <3>2
  <2>6. OnItsWay'
    <3> SUFFICES ASSUME NEW k \in Keys \ raced', stored[k] # latest'[k], ~HasKey(direct', k)
                 PROVE  /\ HasKey(ToSet(queue), k)
                        /\ \A f \in Running : HasKey(Hand(f), k)
      BY <2>1, <2>2 DEF OnItsWay
    <3>1. k # key /\ ~HasKey(direct, k)
      BY <2>1 DEF HasKey
    <3> QED BY <1>1, <2>1, <2>4, <3>1 DEF OnItsWay
  <2> QED BY <2>5, <2>6 DEF NewestWins
<1>6. ASSUME NEW job \in direct, DirectOk(job) PROVE NewestWins'
  <2>1. /\ job \in Job /\ job.key # Post
        /\ direct' = direct \ {job} /\ UNCHANGED <<queue, flush, latest, raced>>
        /\ \A key \in Keys : key # job.key => stored'[key] = stored[key]
        /\ \A key \in Keys : key = job.key => stored'[key] = job.n
    BY <1>1, <1>6, DeliverStep DEF DirectOk, DirectAreKeys, history
  <2>2. Running' = Running /\ \A f : Hand(f)' = Hand(f)
    BY <2>1, SameFlushes
  <2>3. OnlyLatest'
    BY <1>1, <2>1, <2>2 DEF OnlyLatest
  <2>4. OnItsWay'
    <3> SUFFICES ASSUME NEW k \in Keys \ raced, stored'[k] # latest[k], ~HasKey(direct', k)
                 PROVE  /\ HasKey(ToSet(queue), k)
                        /\ \A f \in Running : HasKey(Hand(f), k)
      BY <2>1, <2>2 DEF OnItsWay
    <3>1. k # job.key
      BY <1>1, <2>1 DEF OnlyLatest
    <3>2. ~HasKey(direct, k)
      BY <2>1, <3>1 DEF HasKey
    <3> QED BY <1>1, <2>1, <3>1, <3>2 DEF OnItsWay
  <2> QED BY <2>3, <2>4 DEF NewestWins
<1>7. ASSUME NEW job \in direct, DirectFails(job) PROVE NewestWins'
  <2>1. /\ job \in Job /\ job.key \in Keys
        /\ direct' = direct \ {job} /\ Enqueue(job) /\ UNCHANGED <<flush, latest>>
        /\ raced' = IF Running # {} THEN raced \cup {job.key} ELSE raced
        /\ Deliver(job) \/ UNCHANGED <<posted, stored>>
    BY <1>1, <1>7, JobFields DEF DirectFails, DirectAreKeys
  <2>2. \A key \in Keys : stored'[key] = stored[key] \/ (job.key = key /\ stored'[key] = job.n)
    BY <1>1, <2>1, DeliverStep
  <2>3. /\ \A q \in ToSet(queue') : q = job \/ q \in ToSet(queue)
        /\ HasKey(ToSet(queue'), job.key)
        /\ \A k : k # job.key /\ HasKey(ToSet(queue), k) => HasKey(ToSet(queue'), k)
    BY <1>3, <2>1
  <2>4. Running' = Running /\ \A f : Hand(f)' = Hand(f)
    BY <2>1, SameFlushes
  <2>5. \A k \in Keys \ raced' : k \in Keys \ raced /\ (k = job.key => Running = {})
    BY <2>1
  <2>6. OnlyLatest'
    BY <1>1, <2>1, <2>3, <2>4, <2>5 DEF OnlyLatest
  <2>7. OnItsWay'
    <3> SUFFICES ASSUME NEW k \in Keys \ raced', stored'[k] # latest[k], ~HasKey(direct', k)
                 PROVE  /\ HasKey(ToSet(queue'), k)
                        /\ \A f \in Running : HasKey(Hand(f), k)
      BY <2>1, <2>4 DEF OnItsWay
    <3>1. CASE k = job.key
      BY <2>3, <2>5, <3>1
    <3>2. CASE k # job.key
      <4>1. ~HasKey(direct, k) /\ stored[k] # latest[k]
        BY <2>1, <2>2, <3>2 DEF HasKey
      <4> QED BY <1>1, <2>3, <2>5, <3>2, <4>1 DEF OnItsWay
    <3> QED BY <3>1, <3>2
  <2> QED BY <2>6, <2>7 DEF NewestWins
<1>8. ASSUME NEW f \in Flushes, Tick(f) PROVE NewestWins'
  <2>1. UNCHANGED <<queue, direct, stored, latest, raced>>
    BY <1>8 DEF Tick
  <2>2. /\ \A g \in Flushes \ {f} : flush'[g] = flush[g]
        /\ \/ flush' = flush
           \/ /\ Running' = Running \cup {f} /\ f \notin Running
              /\ Hand(f)' = ToSet(queue)
    BY <1>1, <1>8, TickStep
  <2>3. ASSUME Running' = Running \cup {f}, f \notin Running, Hand(f)' = ToSet(queue)
        PROVE  NewestWins'
    <3>1. \A g \in Running : Hand(g)' = Hand(g)
      BY <2>2, <2>3 DEF Running, Hand, Todo, Kept
    <3>2. OnlyLatest'
      BY <1>1, <2>1, <2>3, <3>1 DEF OnlyLatest
    <3>3. OnItsWay'
      BY <1>1, <2>1, <2>3, <3>1 DEF OnItsWay
    <3> QED BY <3>2, <3>3 DEF NewestWins
  <2> QED BY <1>2, <2>1, <2>2, <2>3
<1>9. ASSUME NEW f \in Flushes, SendOk(f) PROVE NewestWins'
  <2>1. /\ f \in Running /\ Advance(f, TRUE) /\ Deliver(Head(flush[f].todo))
        /\ UNCHANGED <<direct, latest, raced>>
    BY <1>9 DEF SendOk, Running
  <2> QED BY <2>1, AdvanceKeepsNewest
<1>10. ASSUME NEW f \in Flushes, SendFails(f) PROVE NewestWins'
  <2>1. /\ f \in Running /\ Advance(f, FALSE)
        /\ Deliver(Head(flush[f].todo)) \/ UNCHANGED <<posted, stored>>
        /\ UNCHANGED <<direct, latest, raced>>
    BY <1>10 DEF SendFails, Running
  <2> QED BY <2>1, AdvanceKeepsNewest
<1>11. ASSUME Reload PROVE NewestWins'
  <2>1. /\ flush' = [f \in Flushes |-> NoFlush] /\ direct' = {}
        /\ raced' = raced \cup {job.key : job \in direct}
        /\ UNCHANGED <<queue, stored, latest>>
    BY <1>11 DEF Reload
  <2>2. Running' = {}
    BY <2>1 DEF Running, NoFlush
  <2>3. \A k \in Keys \ raced' : k \in Keys \ raced /\ ~HasKey(direct, k)
    BY <2>1 DEF HasKey
  <2>4. OnlyLatest'
    BY <1>1, <2>1, <2>2, <2>3 DEF OnlyLatest
  <2>5. OnItsWay'
    BY <1>1, <2>1, <2>2, <2>3 DEF OnItsWay
  <2> QED BY <2>4, <2>5 DEF NewestWins
<1>12. ASSUME LedgerFlips \/ UNCHANGED vars PROVE NewestWins'
  BY <1>2, <1>12 DEF LedgerFlips, history, vars
<1> QED BY <1>4, <1>5, <1>6, <1>7, <1>8, <1>9, <1>10, <1>11, <1>12 DEF Next, FlushStep

-----------------------------------------------------------------------------
LEMMA IndInvariant == Spec => []IInv
<1>1. IInv /\ [Next]_vars => IInv'
  BY SoundStep, NothingLostStep, NoneTwiceStep, NewestWinsStep DEF IInv
<1> QED BY <1>1, InitHolds, PTL DEF Spec

(* The queue, the flushes and the requests under way hold jobs with the    *)
(* numbers of saves that were made, whatever overlaps (queue.ts, and the   *)
(* handlers of Bay.tsx that call it).                                      *)
THEOREM TypeCorrect == Spec => []TypeOK
<1>1. IInv => TypeOK
  BY DEF IInv, Sound
<1> QED BY <1>1, IndInvariant, PTL

(* The promise of queue.ts for any number of saves, flushes, losses and    *)
(* reloads: what was queued while no flush was running is in localStorage  *)
(* until the ledger has answered it or a newer save of its key replaced it.*)
THEOREM QueuedWorkStays == Spec => []KeptUntilDelivered
<1>1. IInv => KeptUntilDelivered
  BY DEF IInv, NothingLost
<1> QED BY <1>1, IndInvariant, PTL

(* A visit that was queued makes one row in the ledger, unless its answer  *)
(* was lost, two flushes had it in hand, or a reload caught it in one.     *)
THEOREM VisitMakesOneRow == Spec => []PostedOnce
<1>1. IInv => PostedOnce
  BY DEF IInv, NoneTwice
<1> QED BY <1>1, IndInvariant, PTL

(* With nothing of a key under way the ledger has the newest save of it,   *)
(* unless the saves of the key raced.                                      *)
THEOREM NewestSaveWins == Spec => []SettlesOnLatest
<1>1. IInv => SettlesOnLatest
  BY DEF IInv, NewestWins, OnItsWay, SettlesOnLatest, Settled, HasKey
<1> QED BY <1>1, IndInvariant, PTL

=============================================================================
