-------------------------- MODULE PlaybookChecksProofs --------------------------
(***************************************************************************)
(* Proofs about PlaybookChecks for any steps, books and number of          *)
(* concurrent requests.                                                    *)
(***************************************************************************)
EXTENDS PlaybookChecks, SequenceTheorems, TLAPS

Working(h) == request[h] # Idle

(* The steps that are left are the end of the book, and there is one to    *)
(* write when a request writes.                                            *)
Suffix(todo, book) ==
  /\ Len(todo) <= Len(book)
  /\ \A i \in 1 .. Len(todo) : todo[i] = book[(Len(book) - Len(todo)) + i]

(* A sync writes only "open", and if nobody has written the row since it   *)
(* read it, the row is not settled.                                        *)
RequestOk(r) ==
  /\ Suffix(r.todo, r.book)
  /\ r.kind = "tick" => r.step \in {"update", "insert"}
  /\ r.step \in {"update", "insert"} =>
       /\ r.todo # <<>>
       /\ r.read <= version[Head(r.todo)]
       /\ r.kind = "sync" =>
            /\ r.status = "open"
            /\ r.read = version[Head(r.todo)] => ~Keeps(Head(r.todo))

RequestInv == \A h \in Handlers : Working(h) => RequestOk(request[h])

HasRows(r) == \A i \in 1 .. Passed(r) : checks[r.book[i]] # NoRow

IInv ==
  /\ TypeOK
  /\ RequestInv
  /\ TickIsKept
  /\ SyncedStepsHaveRows

-----------------------------------------------------------------------------
LEMMA WorkingIsRequest ==
  ASSUME TypeOK, NEW h \in Handlers, Working(h)
  PROVE  request[h] \in Request
BY DEF TypeOK, Working

(* The step at the head is a step, what is behind it is a shorter list,    *)
(* and both are where the book has them.                                   *)
LEMMA TodoSplits ==
  ASSUME NEW todo \in Seq(Fingerprints), todo # <<>>
  PROVE  /\ Head(todo) \in Fingerprints
         /\ Tail(todo) \in Seq(Fingerprints)
         /\ Len(Tail(todo)) = Len(todo) - 1
         /\ Head(todo) = todo[1]
         /\ Len(todo) \in Nat /\ Len(todo) > 0
         /\ \A i \in 1 .. Len(Tail(todo)) : Tail(todo)[i] = todo[i + 1]
<1>1. /\ Head(todo) \in Fingerprints
      /\ Tail(todo) \in Seq(Fingerprints)
  BY HeadTailProperties
<1>2. /\ Len(Tail(todo)) = Len(todo) - 1
      /\ \A i \in 1 .. Len(Tail(todo)) : Tail(todo)[i] = todo[i + 1]
  BY HeadTailProperties
<1>3. Len(todo) \in Nat /\ Len(todo) > 0
  BY EmptySeq, LenProperties
<1>4. Head(todo) = todo[1]
  OBVIOUS
<1>5. QED
  BY <1>1, <1>2, <1>3, <1>4

LEMMA SuffixTail ==
  ASSUME NEW todo \in Seq(Fingerprints), NEW book \in Seq(Fingerprints),
         todo # <<>>, Suffix(todo, book)
  PROVE  /\ Suffix(Tail(todo), book)
         /\ Len(book) - Len(Tail(todo)) = (Len(book) - Len(todo)) + 1
         /\ book[(Len(book) - Len(todo)) + 1] = Head(todo)
<1>1. Len(book) \in Nat
  BY LenProperties
<1>2. \A i \in 1 .. Len(Tail(todo)) :
        Tail(todo)[i] = book[(Len(book) - Len(Tail(todo))) + i]
  <2> SUFFICES ASSUME NEW i \in 1 .. Len(Tail(todo))
               PROVE  Tail(todo)[i] = book[(Len(book) - Len(Tail(todo))) + i]
    OBVIOUS
  <2>1. i + 1 \in 1 .. Len(todo) /\ Tail(todo)[i] = todo[i + 1]
    BY TodoSplits
  <2>2. todo[i + 1] = book[(Len(book) - Len(todo)) + (i + 1)]
    BY <2>1 DEF Suffix
  <2>3. (Len(book) - Len(todo)) + (i + 1) = (Len(book) - Len(Tail(todo))) + i
    BY <1>1, TodoSplits
  <2>4. QED
    BY <2>1, <2>2, <2>3
<1>3. QED
  BY <1>1, <1>2, TodoSplits DEF Suffix

(* The aliases all mean one of the three statuses (normalizeCheckStatus).  *)
LEMMA NormalizeType == \A sent \in Sent : Normalize(sent) \in Statuses
BY DEF Normalize, Statuses, Settled

-----------------------------------------------------------------------------
(* Types.                                                                  *)
LEMMA InitTyped == Init => TypeOK
<1> SUFFICES ASSUME Init PROVE TypeOK
  OBVIOUS
<1>1. request \in [Handlers -> Request \cup {Idle}] /\ requests \in 0 .. MaxRequests
  BY RequestsAssumption DEF Init
<1>2. /\ checks \in [Fingerprints -> Statuses \cup {NoRow}]
      /\ ticked \in [Fingerprints -> Statuses \cup {NoRow}]
      /\ version \in [Fingerprints -> Nat]
      /\ overtaken \subseteq Fingerprints
  BY DEF Init
<1>3. QED
  BY <1>1, <1>2 DEF TypeOK

(* What a request becomes without a write: the same request a step on.     *)
LEMMA ContinueType ==
  ASSUME TypeOK, NEW h \in Handlers, request[h] \in Request, request[h].todo # <<>>
  PROVE  /\ [request[h] EXCEPT !.step = "next", !.todo = Tail(@)] \in Request
         /\ [request[h] EXCEPT !.todo = Tail(@)] \in Request
         /\ Current(h) \in Fingerprints
<1>1. request[h].todo \in Seq(Fingerprints)
  BY DEF Request
<1>2. Tail(request[h].todo) \in Seq(Fingerprints) /\ Current(h) \in Fingerprints
  BY <1>1, TodoSplits DEF Current
<1>3. QED
  BY <1>2 DEF Request

LEMMA ReadType ==
  ASSUME TypeOK, NEW h \in Handlers, request[h] \in Request, Current(h) \in Fingerprints
  PROVE  /\ [request[h] EXCEPT !.step = "update", !.status = "open",
                               !.read = version[Current(h)]] \in Request
         /\ [request[h] EXCEPT !.step = "insert"] \in Request
<1>1. version[Current(h)] \in Nat
  BY DEF TypeOK
<1>2. QED
  BY <1>1 DEF Request, Statuses, Settled

-----------------------------------------------------------------------------
(* A step that writes no row: the invariant holds if the request it leaves *)
(* is in order.                                                            *)
LEMMA QuietStep ==
  ASSUME IInv, NEW h \in Handlers, UNCHANGED <<checks, history>>,
         requests' \in 0 .. MaxRequests,
         NEW new \in Request \cup {Idle},
         request' = [request EXCEPT ![h] = new],
         new # Idle => RequestOk(new) /\ HasRows(new)
  PROVE  IInv'
<1>1. TypeOK'
  BY DEF IInv, TypeOK, history
<1>2. ASSUME NEW g \in Handlers, Working(g)'
      PROVE  RequestOk(request[g])' /\ HasRows(request[g])'
  <2>1. PICK r : r = request'[g]
    OBVIOUS
  <2>2. RequestOk(r) /\ HasRows(r)
    <3>1. CASE g = h
      BY <1>2, <2>1, <3>1 DEF Working, IInv, TypeOK
    <3>2. CASE g # h
      BY <1>2, <2>1, <3>2 DEF Working, IInv, TypeOK, RequestInv, SyncedStepsHaveRows, HasRows
    <3>3. QED
      BY <3>1, <3>2
  <2>3. RequestOk(r)' /\ HasRows(r)'
    BY <2>2 DEF RequestOk, Keeps, HasRows, history
  <2>4. QED
    BY <2>1, <2>3
<1>3. TickIsKept'
  BY DEF IInv, TickIsKept, history
<1>4. QED
  BY <1>1, <1>2, <1>3 DEF IInv, RequestInv, SyncedStepsHaveRows, HasRows, Working

LEMMA SuffixRefl ==
  ASSUME NEW book \in Seq(Fingerprints)
  PROVE  Suffix(book, book) /\ Len(book) - Len(book) = 0
<1>1. Len(book) \in Nat
  BY LenProperties
<1>2. QED
  BY <1>1 DEF Suffix

(* A tick or a sync starts in order (Server.upsertPlaybookCheck,           *)
(* Fuser.Build).                                                           *)
LEMMA StartStep ==
  ASSUME IInv, NEW h \in Handlers,
         (\E f \in Fingerprints, sent \in Sent : Tick(h, f, sent))
           \/ (\E book \in Books : Sync(h, book))
  PROVE  IInv'
<1>1. requests + 1 \in 0 .. MaxRequests
  BY RequestsAssumption DEF IInv, TypeOK, Tick, Sync
<1>2. ASSUME NEW f \in Fingerprints, NEW sent \in Sent, Tick(h, f, sent)
      PROVE  IInv'
  <2>1. PICK new : new = [kind |-> "tick", step |-> "update", book |-> <<f>>, todo |-> <<f>>,
                          status |-> Normalize(sent), read |-> version[f]]
    OBVIOUS
  <2>2. <<f>> \in Seq(Fingerprints) /\ <<f>> # <<>> /\ Head(<<f>>) = f
    OBVIOUS
  <2>3. version[f] \in Nat /\ Normalize(sent) \in Statuses
    BY NormalizeType DEF IInv, TypeOK
  <2>4. new \in Request
    BY <2>1, <2>2, <2>3 DEF Request
  <2>5. Suffix(<<f>>, <<f>>) /\ Len(<<f>>) - Len(<<f>>) = 0
    BY <2>2, SuffixRefl
  <2>6. RequestOk(new) /\ HasRows(new)
    BY <2>1, <2>2, <2>3, <2>5 DEF RequestOk, HasRows, Passed
  <2>7. UNCHANGED <<checks, history>> /\ request' = [request EXCEPT ![h] = new]
        /\ requests' = requests + 1
    BY <1>2, <2>1 DEF Tick
  <2>8. QED
    BY <1>1, <2>4, <2>6, <2>7, QuietStep
<1>3. ASSUME NEW book \in Books, Sync(h, book)
      PROVE  IInv'
  <2>1. PICK new : new = [kind |-> "sync", step |-> "next", book |-> book, todo |-> book,
                          status |-> "open", read |-> 0]
    OBVIOUS
  <2>2. book \in Seq(Fingerprints)
    BY BooksAssumption
  <2>3. new \in Request
    BY <2>1, <2>2 DEF Request, Statuses, Settled
  <2>4. Suffix(book, book) /\ Len(book) - Len(book) = 0
    BY <2>2, SuffixRefl
  <2>5. RequestOk(new) /\ HasRows(new)
    BY <2>1, <2>2, <2>4 DEF RequestOk, HasRows, Passed
  <2>6. UNCHANGED <<checks, history>> /\ request' = [request EXCEPT ![h] = new]
        /\ requests' = requests + 1
    BY <1>3, <2>1 DEF Sync
  <2>7. QED
    BY <1>1, <2>3, <2>5, <2>6, QuietStep
<1>4. QED
  BY <1>2, <1>3

(* A request ends, well or not.                                            *)
LEMMA EndStep ==
  ASSUME IInv, NEW h \in Handlers, SyncDone(h) \/ InsertRefused(h) \/ Fail(h)
  PROVE  IInv'
<1>1. UNCHANGED <<checks, history>> /\ requests' = requests
      /\ request' = [request EXCEPT ![h] = Idle]
  BY DEF SyncDone, InsertRefused, Fail
<1>2. requests' \in 0 .. MaxRequests
  BY <1>1 DEF IInv, TypeOK
<1>3. QED
  BY <1>1, <1>2, QuietStep

(* The steps that were passed stay passed, and the one at the head joins   *)
(* them once it has a row.                                                 *)
LEMMA PassedGrows ==
  ASSUME NEW r \in Request, r.todo # <<>>, Suffix(r.todo, r.book), HasRows(r),
         checks[Head(r.todo)] # NoRow,
         NEW next \in Request, next.book = r.book, next.todo = Tail(r.todo)
  PROVE  Suffix(next.todo, next.book) /\ HasRows(next)
<1>1. r.todo \in Seq(Fingerprints) /\ r.book \in Seq(Fingerprints)
  BY DEF Request
<1>2. /\ Suffix(Tail(r.todo), r.book)
      /\ Passed(next) = Passed(r) + 1
      /\ r.book[Passed(r) + 1] = Head(r.todo)
  BY <1>1, SuffixTail DEF Passed
<1>3. Passed(r) \in Nat
  BY <1>1, LenProperties DEF Passed, Suffix
<1>4. ASSUME NEW i \in 1 .. Passed(next)
      PROVE  checks[next.book[i]] # NoRow
  <2>1. CASE i = Passed(r) + 1
    BY <1>2, <2>1
  <2>2. CASE i # Passed(r) + 1
    <3>1. i \in 1 .. Passed(r)
      BY <1>2, <1>3, <2>2
    <3>2. QED
      BY <3>1 DEF HasRows
  <2>3. QED
    BY <2>1, <2>2
<1>5. QED
  BY <1>2, <1>4 DEF HasRows

(* The row of the step at the head is read: it is passed, or will be       *)
(* written by a request that knows it as it is (checkByFingerprint).       *)
LEMMA ReadCheckStep ==
  ASSUME IInv, NEW h \in Handlers, ReadCheck(h)
  PROVE  IInv'
<1>1. PICK r : r = request[h]
  OBVIOUS
<1>2. /\ r \in Request /\ r.step = "next" /\ r.todo # <<>>
      /\ RequestOk(r) /\ HasRows(r)
  BY <1>1, WorkingIsRequest
     DEF ReadCheck, IInv, RequestInv, SyncedStepsHaveRows, HasRows, Working, Idle
<1>3. Head(r.todo) \in Fingerprints /\ Current(h) = Head(r.todo)
  BY <1>1, <1>2, ContinueType DEF IInv, Current
<1>4. UNCHANGED <<checks, history>> /\ requests' = requests /\ requests \in 0 .. MaxRequests
  BY DEF ReadCheck, IInv, TypeOK
<1>5. CASE Keeps(Current(h))
  <2>1. PICK new : new = [r EXCEPT !.todo = Tail(@)]
    OBVIOUS
  <2>2. new \in Request
    BY <1>1, <1>2, <2>1, ContinueType DEF IInv
  <2>3. request' = [request EXCEPT ![h] = new]
    BY <1>1, <1>5, <2>1 DEF ReadCheck, IInv, TypeOK
  <2>4. /\ new.book = r.book /\ new.todo = Tail(r.todo)
        /\ new.kind = r.kind /\ new.step = r.step
    BY <1>2, <2>1 DEF Request
  <2>5. checks[Head(r.todo)] # NoRow
    BY <1>3, <1>5 DEF Keeps, Settled, NoRow
  <2>6. Suffix(new.todo, new.book) /\ HasRows(new)
    BY <1>2, <2>2, <2>4, <2>5, PassedGrows DEF RequestOk
  <2>7. RequestOk(new)
    BY <1>2, <2>4, <2>6 DEF RequestOk
  <2>8. QED
    BY <1>4, <2>2, <2>3, <2>6, <2>7, QuietStep
<1>6. CASE ~Keeps(Current(h))
  <2>1. PICK new : new = [r EXCEPT !.step = "update", !.status = "open",
                                   !.read = version[Current(h)]]
    OBVIOUS
  <2>2. new \in Request
    BY <1>1, <1>2, <1>3, <2>1, ReadType DEF IInv
  <2>3. request' = [request EXCEPT ![h] = new]
    BY <1>1, <1>6, <2>1 DEF ReadCheck, IInv, TypeOK
  <2>4. /\ new.book = r.book /\ new.todo = r.todo /\ new.status = "open"
        /\ new.step = "update" /\ new.read = version[Current(h)]
    BY <1>2, <2>1 DEF Request
  <2>5. version[Current(h)] \in Nat
    BY <1>3 DEF IInv, TypeOK
  <2>6. HasRows(new)
    BY <1>2, <2>4 DEF HasRows, Passed
  <2>7. RequestOk(new)
    BY <1>2, <1>3, <1>6, <2>4, <2>5 DEF RequestOk
  <2>8. QED
    BY <1>4, <2>2, <2>3, <2>6, <2>7, QuietStep
<1>7. QED
  BY <1>5, <1>6

(* An UPDATE that met no row changes nothing that the request knows.       *)
LEMMA MissStep ==
  ASSUME IInv, NEW h \in Handlers, UpdateMisses(h)
  PROVE  IInv'
<1>1. PICK r : r = request[h]
  OBVIOUS
<1>2. /\ r \in Request /\ r.step = "update" /\ r.todo # <<>>
      /\ RequestOk(r) /\ HasRows(r)
  BY <1>1, WorkingIsRequest
     DEF UpdateMisses, IInv, RequestInv, RequestOk, SyncedStepsHaveRows, HasRows, Working, Idle
<1>3. PICK new : new = [r EXCEPT !.step = "insert"]
  OBVIOUS
<1>4. new \in Request
  BY <1>2, <1>3 DEF Request
<1>5. /\ new.book = r.book /\ new.todo = r.todo /\ new.status = r.status
      /\ new.step = "insert" /\ new.read = r.read /\ new.kind = r.kind
  BY <1>2, <1>3 DEF Request
<1>6. RequestOk(new) /\ HasRows(new)
  BY <1>2, <1>5 DEF RequestOk, HasRows, Passed
<1>7. request' = [request EXCEPT ![h] = new]
  BY <1>1, <1>3 DEF UpdateMisses, IInv, TypeOK
<1>8. UNCHANGED <<checks, history>> /\ requests' = requests /\ requests \in 0 .. MaxRequests
  BY DEF UpdateMisses, IInv, TypeOK
<1>9. QED
  BY <1>4, <1>6, <1>7, <1>8, QuietStep

(* A write: the row has the status of the request, the others that have    *)
(* read it are behind by one, and a sync that was not behind wrote over a  *)
(* row that was not settled.                                               *)
LEMMA WriteStep ==
  ASSUME IInv, NEW h \in Handlers, UpdateCheck(h) \/ InsertCheck(h)
  PROVE  IInv'
<1>1. PICK r : r = request[h]
  OBVIOUS
<1>2. /\ r \in Request /\ r.step \in {"update", "insert"} /\ r.todo # <<>>
      /\ RequestOk(r) /\ HasRows(r)
  BY <1>1, WorkingIsRequest
     DEF UpdateCheck, InsertCheck, IInv, RequestInv, RequestOk, SyncedStepsHaveRows, HasRows,
         Working, Idle
<1>3. PICK f \in Fingerprints : f = Head(r.todo) /\ f = Current(h)
  BY <1>1, <1>2, ContinueType DEF IInv, Current
<1>4. /\ checks' = [checks EXCEPT ![f] = r.status]
      /\ version' = [version EXCEPT ![f] = @ + 1]
      /\ ticked' = IF r.kind = "tick" THEN [ticked EXCEPT ![f] = r.status] ELSE ticked
      /\ overtaken' = IF r.kind = "tick" THEN overtaken \ {f}
                      ELSE IF r.read # version[f] THEN overtaken \cup {f}
                      ELSE overtaken
      /\ Continue(h)
      /\ UNCHANGED requests
  BY <1>1, <1>3 DEF UpdateCheck, InsertCheck, Write
<1>5. /\ r.status \in Statuses /\ r.kind \in {"tick", "sync"}
      /\ version[f] \in Nat
      /\ checks[f] \in Statuses \cup {NoRow}
      /\ ticked[f] \in Statuses \cup {NoRow}
  BY <1>2 DEF Request, IInv, TypeOK
<1>6. PICK new \in Request \cup {Idle} :
        /\ request' = [request EXCEPT ![h] = new]
        /\ new # Idle => /\ new \in Request /\ r.kind = "sync" /\ new.kind = "sync"
                         /\ new.step = "next"
                         /\ new.book = r.book /\ new.todo = Tail(r.todo)
  <2>1. CASE r.kind = "tick"
    BY <1>1, <1>4, <2>1 DEF Continue
  <2>2. CASE r.kind # "tick"
    <3>1. [r EXCEPT !.step = "next", !.todo = Tail(@)] \in Request
      BY <1>1, <1>2, ContinueType DEF IInv
    <3>2. request' = [request EXCEPT ![h] = [r EXCEPT !.step = "next", !.todo = Tail(@)]]
      BY <1>1, <1>4, <2>2 DEF Continue, IInv, TypeOK
    <3>3. PICK next \in Request : next = [r EXCEPT !.step = "next", !.todo = Tail(@)]
      BY <3>1
    <3>4. /\ next.kind = r.kind /\ next.step = "next"
          /\ next.book = r.book /\ next.todo = Tail(r.todo)
      BY <1>2, <3>3 DEF Request
    <3>5. QED
      BY <1>5, <2>2, <3>2, <3>3, <3>4
  <2>3. QED
    BY <2>1, <2>2
<1>7. TypeOK'
  BY <1>4, <1>5, <1>6 DEF IInv, TypeOK
<1>8. \A g \in Fingerprints : checks[g] # NoRow => checks'[g] # NoRow
  BY <1>4, <1>5 DEF IInv, TypeOK, Statuses, Settled, NoRow
<1>9. checks'[f] # NoRow
  BY <1>4, <1>5 DEF IInv, TypeOK, Statuses, Settled, NoRow
<1>10. ASSUME NEW q \in Request, HasRows(q), Suffix(q.todo, q.book)
       PROVE  HasRows(q)'
  <2>1. \A i \in 1 .. Passed(q) : q.book[i] \in Fingerprints
    <3>1. q.book \in Seq(Fingerprints) /\ q.todo \in Seq(Fingerprints)
      BY DEF Request
    <3>2. Passed(q) \in Nat /\ Passed(q) <= Len(q.book)
      <4>1. Len(q.book) \in Nat /\ Len(q.todo) \in Nat
        BY <3>1, LenProperties
      <4>2. Len(q.todo) <= Len(q.book)
        BY <1>10 DEF Suffix
      <4>3. PICK m \in Nat, n \in Nat : m = Len(q.book) /\ n = Len(q.todo)
        BY <4>1
      <4>4. n <= m /\ Passed(q) = m - n
        BY <4>2, <4>3 DEF Passed
      <4>5. m - n \in Nat /\ m - n <= m
        BY <4>4
      <4>6. QED
        BY <4>3, <4>4, <4>5
    <3>3. QED
      BY <3>1, <3>2, ElementOfSeq
  <2>2. QED
    BY <1>8, <1>10, <2>1 DEF HasRows
<1>11. ASSUME NEW g \in Handlers, g # h, Working(g)
       PROVE  RequestOk(request[g])' /\ HasRows(request[g])'
  <2>1. PICK q \in Request : q = request[g]
    BY <1>11, WorkingIsRequest DEF IInv
  <2>2. RequestOk(q) /\ HasRows(q)
    BY <1>11, <2>1 DEF IInv, RequestInv, SyncedStepsHaveRows, HasRows, Working
  <2>3. HasRows(q)'
    BY <1>10, <2>2 DEF RequestOk
  <2>4. q.step \in {"update", "insert"} => Head(q.todo) \in Fingerprints
    BY <2>2, TodoSplits DEF Request, RequestOk
  <2>5. q.read \in Nat
    BY DEF Request
  <2>6. RequestOk(q)'
    <3>1. CASE q.step \in {"update", "insert"}
      <4>1. version[Head(q.todo)] \in Nat /\ q.read <= version[Head(q.todo)]
        BY <2>2, <2>4, <3>1 DEF IInv, TypeOK, RequestOk
      <4>2. CASE Head(q.todo) = f
        <5>1. version'[f] = version[f] + 1
          BY <1>4 DEF IInv, TypeOK
        <5>2. q.read <= version'[Head(q.todo)] /\ q.read # version'[Head(q.todo)]
          BY <2>5, <4>1, <4>2, <5>1
        <5>3. QED
          BY <2>2, <3>1, <5>2 DEF RequestOk
      <4>3. CASE Head(q.todo) # f
        <5>1. /\ version'[Head(q.todo)] = version[Head(q.todo)]
              /\ checks'[Head(q.todo)] = checks[Head(q.todo)]
          BY <1>4, <2>4, <3>1, <4>3 DEF IInv, TypeOK
        <5>2. QED
          BY <2>2, <3>1, <5>1 DEF RequestOk, Keeps
      <4>4. QED
        BY <4>2, <4>3
    <3>2. CASE q.step \notin {"update", "insert"}
      BY <2>2, <3>2 DEF RequestOk
    <3>3. QED
      BY <3>1, <3>2
  <2>7. QED
    BY <1>6, <1>11, <2>1, <2>3, <2>6 DEF IInv, TypeOK
<1>12. ASSUME new # Idle
       PROVE  RequestOk(new)' /\ HasRows(new)'
  <2>1. Suffix(new.todo, new.book)
    BY <1>2, <1>6, <1>12, SuffixTail DEF RequestOk, Request
  <2>2. HasRows(r)'
    BY <1>2, <1>10 DEF RequestOk
  <2>3. Suffix(new.todo, new.book) /\ HasRows(new)'
    <3>1. r.todo \in Seq(Fingerprints) /\ r.book \in Seq(Fingerprints)
      BY <1>2 DEF Request
    <3>2. /\ Passed(new) = Passed(r) + 1
          /\ r.book[Passed(r) + 1] = f
      BY <1>2, <1>3, <1>6, <1>12, <3>1, SuffixTail DEF Passed, RequestOk
    <3>3. Passed(r) \in Nat
      BY <1>2, <3>1, LenProperties DEF Passed, Suffix, RequestOk
    <3>4. ASSUME NEW i \in 1 .. Passed(new)
          PROVE  checks'[new.book[i]] # NoRow
      <4>1. CASE i = Passed(r) + 1
        BY <1>6, <1>9, <1>12, <3>2, <4>1
      <4>2. CASE i # Passed(r) + 1
        BY <1>6, <1>12, <2>2, <3>2, <3>3, <4>2 DEF HasRows
      <4>3. QED
        BY <4>1, <4>2
    <3>5. QED
      BY <2>1, <3>4 DEF HasRows
  <2>4. QED
    BY <1>6, <1>12, <2>1, <2>3 DEF RequestOk
<1>13. RequestInv' /\ SyncedStepsHaveRows'
  <2>1. ASSUME NEW g \in Handlers, Working(g)'
        PROVE  RequestOk(request[g])' /\ HasRows(request[g])'
    <3>1. CASE g = h
      BY <1>6, <1>12, <2>1, <3>1 DEF Working, IInv, TypeOK
    <3>2. CASE g # h
      BY <1>6, <1>11, <2>1, <3>2 DEF Working, IInv, TypeOK
    <3>3. QED
      BY <3>1, <3>2
  <2>2. QED
    BY <2>1 DEF RequestInv, SyncedStepsHaveRows, HasRows, Working
<1>14. TickIsKept'
  <2> SUFFICES ASSUME NEW g \in Fingerprints
               PROVE  \/ checks'[g] = ticked'[g]
                      \/ /\ checks'[g] = "open"
                         /\ ticked'[g] = NoRow \/ g \in overtaken'
    BY DEF TickIsKept
  <2>1. \/ checks[g] = ticked[g]
        \/ checks[g] = "open" /\ (ticked[g] = NoRow \/ g \in overtaken)
    BY DEF IInv, TickIsKept
  <2>2. CASE g # f
    BY <1>4, <2>1, <2>2 DEF IInv, TypeOK
  <2>3. CASE g = f /\ r.kind = "tick"
    BY <1>4, <2>3 DEF IInv, TypeOK
  <2>4. CASE g = f /\ r.kind # "tick"
    <3>1. checks'[f] = "open" /\ ticked' = ticked
      BY <1>2, <1>4, <1>5, <2>4 DEF IInv, TypeOK, RequestOk
    <3>2. CASE r.read # version[f]
      BY <1>4, <2>4, <3>1, <3>2
    <3>3. CASE r.read = version[f]
      <4>1. checks[f] \notin Settled
        BY <1>2, <1>3, <1>5, <2>4, <3>3 DEF RequestOk, Keeps
      <4>2. checks[f] = "open" \/ checks[f] = NoRow
        BY <1>5, <4>1 DEF Statuses
      <4>3. overtaken' = overtaken
        BY <1>4, <2>4, <3>3
      <4>4. QED
        BY <2>1, <2>4, <3>1, <4>2, <4>3 DEF NoRow
    <3>4. QED
      BY <3>2, <3>3
  <2>5. QED
    BY <2>2, <2>3, <2>4
<1>15. QED
  BY <1>7, <1>13, <1>14 DEF IInv

-----------------------------------------------------------------------------
(* IInv is inductive: it ties what a sync has read to the row as it is now *)
(* by counting the writes in between.                                      *)
THEOREM IndInvariant == Spec => []IInv
<1>1. Init => IInv
  <2> SUFFICES ASSUME Init PROVE IInv
    OBVIOUS
  <2>1. RequestInv /\ SyncedStepsHaveRows
    BY DEF Init, RequestInv, Working, SyncedStepsHaveRows
  <2>2. TickIsKept
    BY DEF Init, TickIsKept
  <2>3. QED
    BY <2>1, <2>2, InitTyped DEF IInv
<1>2. IInv /\ [Next]_vars => IInv'
  <2> SUFFICES ASSUME IInv, [Next]_vars PROVE IInv'
    OBVIOUS
  <2>1. CASE UNCHANGED vars
    BY <2>1 DEF vars, history, IInv, TypeOK, RequestInv, RequestOk, Working, Keeps,
                TickIsKept, SyncedStepsHaveRows
  <2>2. CASE Next
    BY <2>2, StartStep, EndStep, ReadCheckStep, MissStep, WriteStep DEF Next, Step
  <2>3. QED
    BY <2>1, <2>2
<1>3. QED
  BY <1>1, <1>2, PTL DEF Spec

(* Rows and requests stay of their type: only the three statuses are       *)
(* stored (normalizeCheckStatus, the CHECK of migration 014).              *)
THEOREM TypeCorrect == Spec => []TypeOK
<1>1. IInv => TypeOK
  BY DEF IInv
<1>2. QED
  BY <1>1, IndInvariant, PTL

(* A stored tick is shown until the next one, unless a sync had read the   *)
(* check before it (ledger.SyncPlaybookSteps).                             *)
THEOREM TicksAreKept == Spec => []TickIsKept
<1>1. IInv => TickIsKept
  BY DEF IInv
<1>2. QED
  BY <1>1, IndInvariant, PTL

(* Every step that a sync has passed has its row (ledger.SyncPlaybookSteps *)
(* over UpsertPlaybookCheck).                                              *)
THEOREM BooksHaveRows == Spec => []SyncedStepsHaveRows
<1>1. IInv => SyncedStepsHaveRows
  BY DEF IInv
<1>2. QED
  BY <1>1, IndInvariant, PTL
=============================================================================
