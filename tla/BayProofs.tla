--------------------------------- MODULE BayProofs ---------------------------------
(***************************************************************************)
(* What of the bay holds for every number of cars, parked jobs, sockets,   *)
(* commands and modules: an exchange that had the kit to itself is with    *)
(* its own node, the kit can always be closed again, no scanned visit      *)
(* disappears from the screen and none is made of two cars, each but for   *)
(* what the history variables name.                                        *)
(***************************************************************************)
EXTENDS MCBay, JobListsProofs, SequenceTheorems

-----------------------------------------------------------------------------
(* The kit.                                                                *)

(* Where a command can be, and what it has in hand there.                  *)
Shape(c) ==
  /\ c.role = "disconnect" => c.step \in {"close", "forget"}
  /\ c.role = "connect" =>
       c.step \in {"close", "forget", "open", "channel", "publish"} \cup SetUpSteps
  /\ c.role = "work" => c.step \in {"pick", "ready", "wait", "took"} \cup SetUpSteps
  /\ c.kit = NoKit <=> c.step \in {"close", "forget", "open"}
  /\ c.step \in {"ready", "wait", "took"} \cup SetUpSteps => c.node \in Nodes

Connecting(c) == c.role = "connect" /\ c.kit # NoKit

(* A device that is being connected is open, is no other command's, and    *)
(* the worker does not hold it yet.                                        *)
OwnDevice ==
  \A s \in Running : Connecting(thread[s]) =>
    /\ thread[s].kit \in opened /\ thread[s].kit # passthru
    /\ \A q \in Running \ {s} : Connecting(thread[q]) => thread[q].kit # thread[s].kit

(* The device that the worker holds is open, but while it is given up.     *)
HeldIsOpen ==
  \/ passthru \in opened \cup {NoKit}
  \/ \E s \in Running : thread[s].step = "forget"

AloneRuns == \A s \in Running : thread[s].alone => Running = {s}

SetFrom == {"clear", "filter", "flush", "ready", "wait", "took"}

(* What a command that is alone has done to the channel so far.            *)
ChannelOf(c) ==
  /\ c.role = "work" => c.kit \in opened
  /\ c.step \in SetFrom \cup {"rx"} => ids[c.kit].tx = c.node
  /\ c.step \in SetFrom => ids[c.kit].rx = c.node
  /\ c.step = "filter" => filters = {}
  /\ c.step \in {"flush", "ready", "wait", "took"} => filters \subseteq {c.node}
  /\ c.step \in {"ready", "wait", "took"} =>
       \A i \in DOMAIN buffer : buffer[i].from = c.node
  /\ c.step \in {"wait", "took"} => c.to = c.node
  /\ c.step = "took" => c.from = c.node

AloneOnChannel == \A s \in Running : thread[s].alone => ChannelOf(thread[s])

(* But for strays one command at a time replaces the device, and behind    *)
(* its close the worker holds none.                                        *)
OneReplaces ==
  strays = {} =>
    \A s \in Running : thread[s].role # "work" =>
      /\ \A q \in Running : thread[q].role # "work" => q = s
      /\ thread[s].step # "close" => passthru \notin opened

(* Every answer belongs to a request that was sent.                        *)
AnswersAsked ==
  IsFiniteSet(onBus) /\ Len(buffer) + Cardinality(onBus) <= asked

KitShape ==
  /\ KitTypeOK /\ passthru <= connects /\ AnswersAsked
  /\ \A s \in Running : Shape(thread[s])
KitDevices == OwnDevice /\ HeldIsOpen /\ OneReplaces /\ KitStaysReachable
KitChannelOk == AloneRuns /\ AloneOnChannel
KitInv == KitShape /\ KitDevices /\ KitChannelOk

(* A command goes on to the step st with these in hand; the others stay.   *)
MovedTo(s, st, kit, node, ask, to, from) ==
  /\ thread' \in [Sockets -> Command \cup {Rest}] /\ Running' = Running
  /\ \A q \in Sockets \ {s} : thread'[q] = thread[q]
  /\ thread'[s].step = st /\ thread'[s].role = thread[s].role
  /\ thread'[s].kit = kit /\ thread'[s].node = node /\ thread'[s].ask = ask
  /\ thread'[s].to = to /\ thread'[s].from = from
  /\ thread'[s].alone = thread[s].alone

(* A command is over.                                                      *)
Over(s) ==
  /\ thread' \in [Sockets -> Command \cup {Rest}] /\ Running' = Running \ {s}
  /\ \A q \in Sockets \ {s} : thread'[q] = thread[q]

Like(c, d) == c.role = d.role /\ c.alone = d.alone

LEMMA CommandFields ==
  ASSUME NEW c \in Command
  PROVE  /\ c.step \in Steps /\ c.role \in Roles /\ c.kit \in Kits \cup {NoKit}
         /\ c.node \in Nodes \cup {NoNode} /\ c.ask \in Asks \cup {NoAsk}
         /\ c.to \in Nodes \cup {NoNode} /\ c.from \in Nodes \cup {NoNode}
         /\ c.alone \in BOOLEAN
         /\ c # Rest
  BY DEF Command, Rest, Steps, SetUpSteps

LEMMA RunningIsCommand ==
  ASSUME KitTypeOK
  PROVE  /\ \A s \in Running : s \in Sockets /\ thread[s] \in Command
         /\ \A s \in Sockets : s \notin Running => thread[s] = Rest
         /\ \A s \in Sockets : thread[s].step # "rest" => s \in Running
  BY CommandFields DEF KitTypeOK, Running, Rest

CommandAt(st, role, kit, node, ask, to, from, alone) ==
  [step |-> st, role |-> role, kit |-> kit, node |-> node, ask |-> ask,
   to |-> to, from |-> from, alone |-> alone]

LEMMA UpdateStep ==
  ASSUME NEW st, NEW role, NEW kit, NEW node, NEW ask, NEW to, NEW from, NEW alone, NEW x
  PROVE  [CommandAt(st, role, kit, node, ask, to, from, alone) EXCEPT !.step = x]
           = CommandAt(x, role, kit, node, ask, to, from, alone)
  BY DEF CommandAt

LEMMA UpdateKit ==
  ASSUME NEW st, NEW role, NEW kit, NEW node, NEW ask, NEW to, NEW from, NEW alone, NEW x
  PROVE  [CommandAt(st, role, kit, node, ask, to, from, alone) EXCEPT !.kit = x]
           = CommandAt(st, role, x, node, ask, to, from, alone)
  BY DEF CommandAt

LEMMA UpdateNode ==
  ASSUME NEW st, NEW role, NEW kit, NEW node, NEW ask, NEW to, NEW from, NEW alone, NEW x
  PROVE  [CommandAt(st, role, kit, node, ask, to, from, alone) EXCEPT !.node = x]
           = CommandAt(st, role, kit, x, ask, to, from, alone)
  BY DEF CommandAt

LEMMA UpdateAsk ==
  ASSUME NEW st, NEW role, NEW kit, NEW node, NEW ask, NEW to, NEW from, NEW alone, NEW x
  PROVE  [CommandAt(st, role, kit, node, ask, to, from, alone) EXCEPT !.ask = x]
           = CommandAt(st, role, kit, node, x, to, from, alone)
  BY DEF CommandAt

LEMMA UpdateTo ==
  ASSUME NEW st, NEW role, NEW kit, NEW node, NEW ask, NEW to, NEW from, NEW alone, NEW x
  PROVE  [CommandAt(st, role, kit, node, ask, to, from, alone) EXCEPT !.to = x]
           = CommandAt(st, role, kit, node, ask, x, from, alone)
  BY DEF CommandAt

LEMMA UpdateFrom ==
  ASSUME NEW st, NEW role, NEW kit, NEW node, NEW ask, NEW to, NEW from, NEW alone, NEW x
  PROVE  [CommandAt(st, role, kit, node, ask, to, from, alone) EXCEPT !.from = x]
           = CommandAt(st, role, kit, node, ask, to, x, alone)
  BY DEF CommandAt

LEMMA NewThread ==
  ASSUME KitTypeOK, NEW s \in Running,
         NEW st \in Steps, NEW kit \in Kits \cup {NoKit}, NEW node \in Nodes \cup {NoNode},
         NEW ask \in Asks \cup {NoAsk}, NEW to \in Nodes \cup {NoNode},
         NEW from \in Nodes \cup {NoNode},
         thread' = [q \in Sockets |-> thread'[q]],
         \A q \in Sockets \ {s} : thread'[q] = thread[q],
         thread'[s] =
           CommandAt(st, thread[s].role, kit, node, ask, to, from, thread[s].alone)
  PROVE  MovedTo(s, st, kit, node, ask, to, from)
<1>1. s \in Sockets /\ thread[s] \in Command /\ thread \in [Sockets -> Command \cup {Rest}]
  BY RunningIsCommand DEF KitTypeOK
<1>2. thread'[s] \in Command
  <2>1. thread[s].role \in Roles /\ thread[s].alone \in BOOLEAN
    BY <1>1, CommandFields
  <2> QED BY <2>1 DEF Command, CommandAt
<1>3. /\ thread'[s].step = st /\ thread'[s].role = thread[s].role /\ thread'[s].kit = kit
      /\ thread'[s].node = node /\ thread'[s].ask = ask /\ thread'[s].to = to
      /\ thread'[s].from = from /\ thread'[s].alone = thread[s].alone
  BY DEF CommandAt
<1>4. thread' \in [Sockets -> Command \cup {Rest}]
  BY <1>1, <1>2
<1>5. Running' = Running
  BY <1>1, <1>2, CommandFields DEF Running
<1> QED BY <1>3, <1>4, <1>5 DEF MovedTo

(* The forms in which the actions write a thread.                          *)
LEMMA ThreadForms ==
  ASSUME KitTypeOK, NEW s \in Running,
         NEW st \in Steps, NEW kit \in Kits \cup {NoKit}, NEW node \in Nodes \cup {NoNode},
         NEW ask \in Asks \cup {NoAsk}, NEW to \in Nodes \cup {NoNode},
         NEW from \in Nodes \cup {NoNode}
  PROVE  LET c == thread[s] IN
         /\ thread' = [thread EXCEPT ![s].step = st]
              => MovedTo(s, st, c.kit, c.node, c.ask, c.to, c.from)
         /\ thread' = [thread EXCEPT ![s].step = st, ![s].kit = kit]
              => MovedTo(s, st, kit, c.node, c.ask, c.to, c.from)
         /\ thread' = [thread EXCEPT ![s].step = st, ![s].node = node]
              => MovedTo(s, st, c.kit, node, c.ask, c.to, c.from)
         /\ thread' = [thread EXCEPT ![s].step = st, ![s].from = from]
              => MovedTo(s, st, c.kit, c.node, c.ask, c.to, from)
         /\ thread' = [thread EXCEPT ![s].step = st, ![s].ask = ask, ![s].to = to]
              => MovedTo(s, st, c.kit, c.node, ask, to, c.from)
         /\ thread' = [thread EXCEPT ![s].step = st, ![s].ask = ask, ![s].to = to, ![s].from = from]
              => MovedTo(s, st, c.kit, c.node, ask, to, from)
         /\ thread' = [thread EXCEPT ![s] = Rest] => Over(s)
<1>1. s \in Sockets /\ thread[s] \in Command /\ thread \in [Sockets -> Command \cup {Rest}]
  BY RunningIsCommand DEF KitTypeOK
<1>2. PICK c : c = thread[s]
  OBVIOUS
<1>3. /\ c.kit \in Kits \cup {NoKit} /\ c.node \in Nodes \cup {NoNode}
      /\ c.ask \in Asks \cup {NoAsk} /\ c.to \in Nodes \cup {NoNode}
      /\ c.from \in Nodes \cup {NoNode}
  BY <1>1, <1>2, CommandFields
<1>4. c = CommandAt(c.step, c.role, c.kit, c.node, c.ask, c.to, c.from, c.alone)
  BY <1>1, <1>2 DEF Command, CommandAt
<1>5. [c EXCEPT !.step = st] = CommandAt(st, c.role, c.kit, c.node, c.ask, c.to, c.from, c.alone)
  BY <1>4, UpdateStep
<1>6. ASSUME thread' = [thread EXCEPT ![s].step = st]
      PROVE  MovedTo(s, st, c.kit, c.node, c.ask, c.to, c.from)
  <2>1. /\ thread'[s] = [c EXCEPT !.step = st]
        /\ thread' = [q \in Sockets |-> thread'[q]]
        /\ \A q \in Sockets \ {s} : thread'[q] = thread[q]
    BY <1>6, <1>1, <1>2
  <2> QED BY <2>1, <1>5, <1>2, <1>3, NewThread
<1>7. ASSUME thread' = [thread EXCEPT ![s].step = st, ![s].kit = kit]
      PROVE  MovedTo(s, st, kit, c.node, c.ask, c.to, c.from)
  <2>1. /\ thread'[s] = [[c EXCEPT !.step = st] EXCEPT !.kit = kit]
        /\ thread' = [q \in Sockets |-> thread'[q]]
        /\ \A q \in Sockets \ {s} : thread'[q] = thread[q]
    BY <1>7, <1>1, <1>2
  <2>2. [CommandAt(st, c.role, c.kit, c.node, c.ask, c.to, c.from, c.alone) EXCEPT !.kit = kit]
          = CommandAt(st, c.role, kit, c.node, c.ask, c.to, c.from, c.alone)
    BY UpdateKit
  <2>3. [[c EXCEPT !.step = st] EXCEPT !.kit = kit]
          = CommandAt(st, c.role, kit, c.node, c.ask, c.to, c.from, c.alone)
    BY <1>5, <2>2
  <2> QED BY <2>1, <2>3, <1>2, <1>3, NewThread
<1>8. ASSUME thread' = [thread EXCEPT ![s].step = st, ![s].node = node]
      PROVE  MovedTo(s, st, c.kit, node, c.ask, c.to, c.from)
  <2>1. /\ thread'[s] = [[c EXCEPT !.step = st] EXCEPT !.node = node]
        /\ thread' = [q \in Sockets |-> thread'[q]]
        /\ \A q \in Sockets \ {s} : thread'[q] = thread[q]
    BY <1>8, <1>1, <1>2
  <2>2. [CommandAt(st, c.role, c.kit, c.node, c.ask, c.to, c.from, c.alone) EXCEPT !.node = node]
          = CommandAt(st, c.role, c.kit, node, c.ask, c.to, c.from, c.alone)
    BY UpdateNode
  <2>3. [[c EXCEPT !.step = st] EXCEPT !.node = node]
          = CommandAt(st, c.role, c.kit, node, c.ask, c.to, c.from, c.alone)
    BY <1>5, <2>2
  <2> QED BY <2>1, <2>3, <1>2, <1>3, NewThread
<1>9. ASSUME thread' = [thread EXCEPT ![s].step = st, ![s].from = from]
      PROVE  MovedTo(s, st, c.kit, c.node, c.ask, c.to, from)
  <2>1. /\ thread'[s] = [[c EXCEPT !.step = st] EXCEPT !.from = from]
        /\ thread' = [q \in Sockets |-> thread'[q]]
        /\ \A q \in Sockets \ {s} : thread'[q] = thread[q]
    BY <1>9, <1>1, <1>2
  <2>2. [CommandAt(st, c.role, c.kit, c.node, c.ask, c.to, c.from, c.alone) EXCEPT !.from = from]
          = CommandAt(st, c.role, c.kit, c.node, c.ask, c.to, from, c.alone)
    BY UpdateFrom
  <2>3. [[c EXCEPT !.step = st] EXCEPT !.from = from]
          = CommandAt(st, c.role, c.kit, c.node, c.ask, c.to, from, c.alone)
    BY <1>5, <2>2
  <2> QED BY <2>1, <2>3, <1>2, <1>3, NewThread
<1>10. ASSUME thread' = [thread EXCEPT ![s].step = st, ![s].ask = ask, ![s].to = to]
      PROVE  MovedTo(s, st, c.kit, c.node, ask, to, c.from)
  <2>1. /\ thread'[s] = [[[c EXCEPT !.step = st] EXCEPT !.ask = ask] EXCEPT !.to = to]
        /\ thread' = [q \in Sockets |-> thread'[q]]
        /\ \A q \in Sockets \ {s} : thread'[q] = thread[q]
    BY <1>10, <1>1, <1>2
  <2>2. [CommandAt(st, c.role, c.kit, c.node, c.ask, c.to, c.from, c.alone) EXCEPT !.ask = ask]
          = CommandAt(st, c.role, c.kit, c.node, ask, c.to, c.from, c.alone)
    BY UpdateAsk
  <2>3. [[c EXCEPT !.step = st] EXCEPT !.ask = ask]
          = CommandAt(st, c.role, c.kit, c.node, ask, c.to, c.from, c.alone)
    BY <1>5, <2>2
  <2>4. [CommandAt(st, c.role, c.kit, c.node, ask, c.to, c.from, c.alone) EXCEPT !.to = to]
          = CommandAt(st, c.role, c.kit, c.node, ask, to, c.from, c.alone)
    BY UpdateTo
  <2>5. [[[c EXCEPT !.step = st] EXCEPT !.ask = ask] EXCEPT !.to = to]
          = CommandAt(st, c.role, c.kit, c.node, ask, to, c.from, c.alone)
    BY <2>3, <2>4
  <2> QED BY <2>1, <2>5, <1>2, <1>3, NewThread
<1>11. ASSUME thread' = [thread EXCEPT ![s].step = st, ![s].ask = ask, ![s].to = to, ![s].from = from]
      PROVE  MovedTo(s, st, c.kit, c.node, ask, to, from)
  <2>1. /\ thread'[s] = [[[[c EXCEPT !.step = st] EXCEPT !.ask = ask] EXCEPT !.to = to] EXCEPT !.from = from]
        /\ thread' = [q \in Sockets |-> thread'[q]]
        /\ \A q \in Sockets \ {s} : thread'[q] = thread[q]
    BY <1>11, <1>1, <1>2
  <2>2. [CommandAt(st, c.role, c.kit, c.node, c.ask, c.to, c.from, c.alone) EXCEPT !.ask = ask]
          = CommandAt(st, c.role, c.kit, c.node, ask, c.to, c.from, c.alone)
    BY UpdateAsk
  <2>3. [[c EXCEPT !.step = st] EXCEPT !.ask = ask]
          = CommandAt(st, c.role, c.kit, c.node, ask, c.to, c.from, c.alone)
    BY <1>5, <2>2
  <2>4. [CommandAt(st, c.role, c.kit, c.node, ask, c.to, c.from, c.alone) EXCEPT !.to = to]
          = CommandAt(st, c.role, c.kit, c.node, ask, to, c.from, c.alone)
    BY UpdateTo
  <2>5. [[[c EXCEPT !.step = st] EXCEPT !.ask = ask] EXCEPT !.to = to]
          = CommandAt(st, c.role, c.kit, c.node, ask, to, c.from, c.alone)
    BY <2>3, <2>4
  <2>6. [CommandAt(st, c.role, c.kit, c.node, ask, to, c.from, c.alone) EXCEPT !.from = from]
          = CommandAt(st, c.role, c.kit, c.node, ask, to, from, c.alone)
    BY UpdateFrom
  <2>7. [[[[c EXCEPT !.step = st] EXCEPT !.ask = ask] EXCEPT !.to = to] EXCEPT !.from = from]
          = CommandAt(st, c.role, c.kit, c.node, ask, to, from, c.alone)
    BY <2>5, <2>6
  <2> QED BY <2>1, <2>7, <1>2, <1>3, NewThread
<1>12. ASSUME thread' = [thread EXCEPT ![s] = Rest] PROVE Over(s)
  <2>1. /\ thread' \in [Sockets -> Command \cup {Rest}] /\ thread'[s] = Rest
        /\ \A q \in Sockets \ {s} : thread'[q] = thread[q]
    BY <1>1, <1>12
  <2> QED BY <2>1 DEF Over, Running
<1> QED BY <1>2, <1>6, <1>7, <1>8, <1>9, <1>10, <1>11, <1>12

LEMMA StepsAreSteps ==
  /\ \A st \in {"close", "forget", "open", "channel", "publish", "tx", "rx", "clear",
                "filter", "flush", "pick", "ready", "wait", "took"} : st \in Steps
  /\ NoKit \in Kits \cup {NoKit} /\ NoNode \in Nodes \cup {NoNode}
  /\ NoAsk \in Asks \cup {NoAsk}
  BY DEF Steps, SetUpSteps

LEMMA RunningByStep ==
  ASSUME KitTypeOK, NEW s \in Sockets, thread[s].step # "rest"
  PROVE  s \in Running /\ thread[s] \in Command
  BY RunningIsCommand

LEMMA SetUpThread ==
  ASSUME KitTypeOK, NEW s \in Sockets
  PROVE  LET c == thread[s] IN
         /\ SetTx(s) => /\ s \in Running /\ c.step = "tx"
                        /\ MovedTo(s, "rx", c.kit, c.node, c.ask, c.to, c.from)
         /\ SetRx(s) => /\ s \in Running /\ c.step = "rx"
                        /\ MovedTo(s, "clear", c.kit, c.node, c.ask, c.to, c.from)
         /\ ClearFilters(s) => /\ s \in Running /\ c.step = "clear"
                               /\ MovedTo(s, "filter", c.kit, c.node, c.ask, c.to, c.from)
         /\ StartFilter(s) => /\ s \in Running /\ c.step = "filter"
                              /\ MovedTo(s, "flush", c.kit, c.node, c.ask, c.to, c.from)
         /\ Flush(s) => /\ s \in Running /\ c.step = "flush"
                        /\ MovedTo(s, IF c.role = "connect" THEN "publish" ELSE "ready",
                                   c.kit, c.node, c.ask, c.to, c.from)
<1>1. ASSUME NEW st \in Steps, Moves(s, st), thread[s].step # "rest"
      PROVE  /\ s \in Running
             /\ MovedTo(s, st, thread[s].kit, thread[s].node, thread[s].ask,
                        thread[s].to, thread[s].from)
  <2>1. s \in Running /\ thread[s] \in Command
    BY <1>1, RunningByStep
  <2> QED BY <1>1, <2>1, CommandFields, ThreadForms DEF Moves
<1> QED BY <1>1, StepsAreSteps DEF SetTx, SetRx, ClearFilters, StartFilter, Flush

LEMMA ReplaceThread ==
  ASSUME KitTypeOK, NEW s \in Sockets
  PROVE  LET c == thread[s] IN
         /\ CloseKit(s) => /\ s \in Running /\ c.step = "close"
                           /\ MovedTo(s, "forget", c.kit, c.node, c.ask, c.to, c.from)
         /\ ForgetKit(s) => /\ s \in Running /\ c.step = "forget"
                            /\ \/ c.role = "disconnect" /\ Over(s)
                               \/ /\ c.role # "disconnect"
                                  /\ MovedTo(s, "open", c.kit, c.node, c.ask, c.to, c.from)
         /\ OpenKit(s, TRUE) => /\ s \in Running /\ c.step = "open"
                                /\ MovedTo(s, "channel", connects + 1, c.node, c.ask, c.to, c.from)
         /\ OpenKit(s, FALSE) => s \in Running /\ c.step = "open" /\ Over(s)
         /\ OpenChannel(s, TRUE) => /\ s \in Running /\ c.step = "channel"
                                    /\ MovedTo(s, "tx", c.kit, Ecm, c.ask, c.to, c.from)
         /\ OpenChannel(s, FALSE) => s \in Running /\ c.step = "channel" /\ Over(s)
         /\ Publish(s) => s \in Running /\ c.step = "publish" /\ Over(s)
<1> DEFINE c == thread[s]
<1>1. c.step # "rest" => /\ s \in Running /\ c.kit \in Kits \cup {NoKit}
                         /\ c.node \in Nodes \cup {NoNode} /\ c.ask \in Asks \cup {NoAsk}
                         /\ c.to \in Nodes \cup {NoNode} /\ c.from \in Nodes \cup {NoNode}
  BY RunningByStep, CommandFields
<1>2. ASSUME NEW st \in Steps, Moves(s, st), c.step # "rest"
      PROVE  MovedTo(s, st, c.kit, c.node, c.ask, c.to, c.from)
  BY <1>1, <1>2, ThreadForms DEF Moves
<1>3. ASSUME c.step # "rest", Stops(s) PROVE Over(s)
  BY <1>1, <1>3, StepsAreSteps, ThreadForms DEF Stops
<1>4. CloseKit(s) => /\ s \in Running /\ c.step = "close"
                     /\ MovedTo(s, "forget", c.kit, c.node, c.ask, c.to, c.from)
  BY <1>1, <1>2, StepsAreSteps DEF CloseKit
<1>5. ForgetKit(s) => /\ s \in Running /\ c.step = "forget"
                      /\ \/ c.role = "disconnect" /\ Over(s)
                         \/ /\ c.role # "disconnect"
                            /\ MovedTo(s, "open", c.kit, c.node, c.ask, c.to, c.from)
  BY <1>1, <1>2, <1>3, StepsAreSteps DEF ForgetKit
<1>6. OpenKit(s, TRUE) => /\ s \in Running /\ c.step = "open"
                          /\ MovedTo(s, "channel", connects + 1, c.node, c.ask, c.to, c.from)
  <2> SUFFICES ASSUME OpenKit(s, TRUE)
               PROVE  /\ s \in Running /\ c.step = "open"
                      /\ MovedTo(s, "channel", connects + 1, c.node, c.ask, c.to, c.from)
    OBVIOUS
  <2>1. /\ c.step = "open" /\ connects < MaxConnects
        /\ thread' = [thread EXCEPT ![s].step = "channel", ![s].kit = connects + 1]
    BY DEF OpenKit
  <2>2. connects + 1 \in Kits \cup {NoKit}
    BY <2>1, KitBounds DEF KitTypeOK, Kits
  <2> QED BY <1>1, <2>1, <2>2, StepsAreSteps, ThreadForms
<1>7. OpenKit(s, FALSE) => s \in Running /\ c.step = "open" /\ Over(s)
  BY <1>1, <1>3 DEF OpenKit
<1>8. OpenChannel(s, TRUE) => /\ s \in Running /\ c.step = "channel"
                              /\ MovedTo(s, "tx", c.kit, Ecm, c.ask, c.to, c.from)
  <2> SUFFICES ASSUME OpenChannel(s, TRUE)
               PROVE  /\ s \in Running /\ c.step = "channel"
                      /\ MovedTo(s, "tx", c.kit, Ecm, c.ask, c.to, c.from)
    OBVIOUS
  <2>1. c.step = "channel" /\ thread' = [thread EXCEPT ![s].step = "tx", ![s].node = Ecm]
    BY DEF OpenChannel
  <2> QED BY <1>1, <2>1, StepsAreSteps, EcmAssumption, ThreadForms
<1>9. OpenChannel(s, FALSE) => s \in Running /\ c.step = "channel" /\ Over(s)
  BY <1>1, <1>3 DEF OpenChannel
<1>10. Publish(s) => s \in Running /\ c.step = "publish" /\ Over(s)
  BY <1>1, <1>3 DEF Publish
<1> QED BY <1>4, <1>5, <1>6, <1>7, <1>8, <1>9, <1>10

LEMMA ExchangeThread ==
  ASSUME KitTypeOK, NEW s \in Sockets
  PROVE  LET c == thread[s] IN
         /\ \A node \in Nodes : OpenConnection(s, node) =>
              /\ s \in Running /\ c.step = "pick"
              /\ MovedTo(s, "tx", c.kit, node, c.ask, c.to, c.from)
         /\ c.kit \in Kits => \A ask \in Asks : SendRequest(s, ask) =>
              /\ s \in Running /\ c.step = "ready"
              /\ MovedTo(s, "wait", c.kit, c.node, ask, ids[c.kit].tx, c.from)
         /\ TakeAnswer(s) =>
              /\ s \in Running /\ c.step = "wait"
              /\ \/ MovedTo(s, "took", c.kit, c.node, c.ask, c.to, Head(buffer).from)
                 \/ MovedTo(s, "ready", c.kit, c.node, NoAsk, NoNode, NoNode)
         /\ EndExchange(s) =>
              /\ s \in Running /\ c.step \in {"wait", "took"}
              /\ MovedTo(s, "ready", c.kit, c.node, NoAsk, NoNode, NoNode)
         /\ CloseConnection(s) =>
              /\ s \in Running /\ c.step = "ready"
              /\ MovedTo(s, "pick", c.kit, NoNode, c.ask, c.to, c.from)
         /\ EndCommand(s) =>
              s \in Running /\ c.step \in {"pick", "ready", "wait"} /\ Over(s)
<1> DEFINE c == thread[s]
<1>1. c.step # "rest" => /\ s \in Running /\ c.kit \in Kits \cup {NoKit}
                         /\ c.node \in Nodes \cup {NoNode} /\ c.ask \in Asks \cup {NoAsk}
                         /\ c.to \in Nodes \cup {NoNode} /\ c.from \in Nodes \cup {NoNode}
  BY RunningByStep, CommandFields
<1>2. \A node \in Nodes : OpenConnection(s, node) =>
        /\ s \in Running /\ c.step = "pick"
        /\ MovedTo(s, "tx", c.kit, node, c.ask, c.to, c.from)
  <2> SUFFICES ASSUME NEW node \in Nodes, OpenConnection(s, node)
               PROVE  /\ s \in Running /\ c.step = "pick"
                      /\ MovedTo(s, "tx", c.kit, node, c.ask, c.to, c.from)
    OBVIOUS
  <2>1. c.step = "pick" /\ thread' = [thread EXCEPT ![s].step = "tx", ![s].node = node]
    BY DEF OpenConnection
  <2> QED BY <1>1, <2>1, StepsAreSteps, ThreadForms
<1>3. c.kit \in Kits => \A ask \in Asks : SendRequest(s, ask) =>
        /\ s \in Running /\ c.step = "ready"
        /\ MovedTo(s, "wait", c.kit, c.node, ask, ids[c.kit].tx, c.from)
  <2> SUFFICES ASSUME c.kit \in Kits, NEW ask \in Asks, SendRequest(s, ask)
               PROVE  /\ s \in Running /\ c.step = "ready"
                      /\ MovedTo(s, "wait", c.kit, c.node, ask, ids[c.kit].tx, c.from)
    OBVIOUS
  <2>1. c.step = "ready" /\ thread' = [thread EXCEPT ![s].step = "wait", ![s].ask = ask,
                                                     ![s].to = ids[c.kit].tx]
    BY DEF SendRequest
  <2>2. ids[c.kit].tx \in Nodes
    BY DEF KitTypeOK
  <2> QED BY <1>1, <2>1, <2>2, StepsAreSteps, ThreadForms
<1>4. NextExchange(s) /\ c.step # "rest" =>
        MovedTo(s, "ready", c.kit, c.node, NoAsk, NoNode, NoNode)
  <2> SUFFICES ASSUME NextExchange(s), c.step # "rest"
               PROVE  MovedTo(s, "ready", c.kit, c.node, NoAsk, NoNode, NoNode)
    OBVIOUS
  <2>1. thread' = [thread EXCEPT ![s].step = "ready", ![s].ask = NoAsk,
                                 ![s].to = NoNode, ![s].from = NoNode]
    BY DEF NextExchange
  <2> QED BY <1>1, <2>1, StepsAreSteps, ThreadForms
<1>5. TakeAnswer(s) =>
        /\ s \in Running /\ c.step = "wait"
        /\ \/ MovedTo(s, "took", c.kit, c.node, c.ask, c.to, Head(buffer).from)
           \/ MovedTo(s, "ready", c.kit, c.node, NoAsk, NoNode, NoNode)
  <2> SUFFICES ASSUME TakeAnswer(s)
               PROVE  /\ s \in Running /\ c.step = "wait"
                      /\ \/ MovedTo(s, "took", c.kit, c.node, c.ask, c.to, Head(buffer).from)
                         \/ MovedTo(s, "ready", c.kit, c.node, NoAsk, NoNode, NoNode)
    OBVIOUS
  <2>1. /\ c.step = "wait" /\ buffer # <<>>
        /\ \/ thread' = [thread EXCEPT ![s].step = "took", ![s].from = Head(buffer).from]
           \/ NextExchange(s)
    BY DEF TakeAnswer
  <2>2. Head(buffer) \in Answer
    BY <2>1, HeadTailProperties DEF KitTypeOK
  <2>3. Head(buffer).from \in Nodes
    BY <2>2 DEF Answer
  <2>4. thread' = [thread EXCEPT ![s].step = "took", ![s].from = Head(buffer).from] =>
          MovedTo(s, "took", c.kit, c.node, c.ask, c.to, Head(buffer).from)
    BY <1>1, <2>1, <2>3, StepsAreSteps, ThreadForms
  <2> QED BY <1>1, <1>4, <2>1, <2>4
<1>6. EndExchange(s) =>
        /\ s \in Running /\ c.step \in {"wait", "took"}
        /\ MovedTo(s, "ready", c.kit, c.node, NoAsk, NoNode, NoNode)
  BY <1>1, <1>4 DEF EndExchange
<1>7. CloseConnection(s) =>
        /\ s \in Running /\ c.step = "ready"
        /\ MovedTo(s, "pick", c.kit, NoNode, c.ask, c.to, c.from)
  <2> SUFFICES ASSUME CloseConnection(s)
               PROVE  /\ s \in Running /\ c.step = "ready"
                      /\ MovedTo(s, "pick", c.kit, NoNode, c.ask, c.to, c.from)
    OBVIOUS
  <2>1. c.step = "ready" /\ thread' = [thread EXCEPT ![s].step = "pick", ![s].node = NoNode]
    BY DEF CloseConnection
  <2> QED BY <1>1, <2>1, StepsAreSteps, ThreadForms
<1>8. EndCommand(s) => s \in Running /\ c.step \in {"pick", "ready", "wait"} /\ Over(s)
  <2> SUFFICES ASSUME EndCommand(s)
               PROVE  s \in Running /\ c.step \in {"pick", "ready", "wait"} /\ Over(s)
    OBVIOUS
  <2>1. c.step \in {"pick", "ready", "wait"} /\ thread' = [thread EXCEPT ![s] = Rest]
    BY DEF EndCommand, Stops
  <2> QED BY <1>1, <2>1, StepsAreSteps, ThreadForms
<1> QED BY <1>2, <1>3, <1>5, <1>6, <1>7, <1>8

LEMMA ReceiveThread ==
  ASSUME KitTypeOK, NEW s \in Sockets, NEW role \in Roles, Receive(s, role)
  PROVE  /\ s \notin Running /\ Running' = Running \cup {s}
         /\ thread' \in [Sockets -> Command \cup {Rest}]
         /\ thread'[s].role = role
         /\ thread'[s].step = IF role = "work" THEN "pick" ELSE "close"
         /\ thread'[s].kit = IF role = "work" THEN passthru ELSE NoKit
         /\ thread'[s].alone = (Running = {})
         /\ \A q \in Running :
              /\ thread'[q].step = thread[q].step /\ thread'[q].role = thread[q].role
              /\ thread'[q].kit = thread[q].kit /\ thread'[q].node = thread[q].node
              /\ ~thread'[q].alone
<1> DEFINE first == IF role = "work" THEN "pick" ELSE "close"
           kit == IF role = "work" THEN passthru ELSE NoKit
           lone == Running = {}
           c == CommandAt(first, role, kit, NoNode, NoAsk, NoNode, NoNode, lone)
<1>1. thread \in [Sockets -> Command \cup {Rest}] /\ thread[s] = Rest
      /\ passthru \in Kits \cup {NoKit}
  BY DEF KitTypeOK, Receive
<1>2. thread' = [q \in Sockets |->
          CASE q = s -> c
            [] q # s /\ q \in Running -> [thread[q] EXCEPT !.alone = FALSE]
            [] OTHER -> Rest]
  BY DEF Receive, CommandAt
<1>3. s \notin Running
  BY <1>1 DEF Running
<1>4. c \in Command
  <2>1. first \in Steps /\ kit \in Kits \cup {NoKit} /\ lone \in BOOLEAN
    BY <1>1, StepsAreSteps
  <2> HIDE DEF first, kit, lone
  <2> QED BY <2>1, StepsAreSteps DEF Command, CommandAt
<1>5. /\ c.role = role /\ c.step = first /\ c.kit = kit /\ c.alone = lone
  BY DEF CommandAt
<1>6. ASSUME NEW d \in Command
      PROVE  LET e == [d EXCEPT !.alone = FALSE] IN
             /\ e \in Command /\ e.step = d.step /\ e.role = d.role /\ e.kit = d.kit
             /\ e.node = d.node /\ e.alone = FALSE
  BY DEF Command
<1> HIDE DEF c
<1>7. thread'[s] = c /\ \A q \in Running : thread'[q] = [thread[q] EXCEPT !.alone = FALSE]
  BY <1>2, <1>3, RunningIsCommand
<1>8. \A q \in Sockets : q # s /\ q \notin Running => thread'[q] = Rest
  BY <1>2
<1>9. \A q \in Running :
        /\ thread'[q] \in Command
        /\ thread'[q].step = thread[q].step /\ thread'[q].role = thread[q].role
        /\ thread'[q].kit = thread[q].kit /\ thread'[q].node = thread[q].node
        /\ thread'[q].alone = FALSE
  <2> SUFFICES ASSUME NEW q \in Running
               PROVE  /\ thread'[q] \in Command
                      /\ thread'[q].step = thread[q].step /\ thread'[q].role = thread[q].role
                      /\ thread'[q].kit = thread[q].kit /\ thread'[q].node = thread[q].node
                      /\ thread'[q].alone = FALSE
    OBVIOUS
  <2>1. PICK d \in Command : d = thread[q]
    BY RunningIsCommand
  <2>2. thread'[q] = [d EXCEPT !.alone = FALSE]
    BY <1>7, <2>1
  <2>3. LET e == [d EXCEPT !.alone = FALSE] IN
        /\ e \in Command /\ e.step = d.step /\ e.role = d.role /\ e.kit = d.kit
        /\ e.node = d.node /\ e.alone = FALSE
    BY <1>6
  <2> QED BY <2>1, <2>2, <2>3
<1>10. \A q \in Sockets : thread'[q] \in Command \cup {Rest}
  BY <1>4, <1>7, <1>8, <1>9
<1>11. thread' \in [Sockets -> Command \cup {Rest}]
  BY <1>2, <1>10
<1>12. Running' = Running \cup {s}
  BY <1>4, <1>7, <1>8, <1>9, CommandFields DEF Running
<1> QED BY <1>3, <1>5, <1>7, <1>9, <1>11, <1>12

LEMMA KitStarts == KitInit => KitInv
<1> SUFFICES ASSUME KitInit PROVE KitInv
  OBVIOUS
<1>1. Running = {}
  BY DEF KitInit, Running
<1>2. KitTypeOK
  <2>1. ids \in [Kits -> [tx : Nodes, rx : Nodes]]
    BY EcmAssumption DEF KitInit
  <2>2. thread \in [Sockets -> Command \cup {Rest}]
    BY DEF KitInit
  <2>3. buffer \in Seq(Answer) /\ Len(buffer) = 0
    BY DEF KitInit
  <2> QED BY <2>1, <2>2, <2>3, KitBounds DEF KitInit, KitTypeOK
<1>3. passthru = NoKit /\ connects = 0 /\ opened = {} /\ NoKit = 0
  BY DEF KitInit, NoKit
<1>4. AnswersAsked
  BY FS_EmptySet DEF KitInit, AnswersAsked
<1> QED BY <1>1, <1>2, <1>3, <1>4 DEF KitInv, KitShape, KitDevices, KitChannelOk, OwnDevice,
           HeldIsOpen, AloneRuns, AloneOnChannel, OneReplaces, KitStaysReachable

(* A command that goes on keeps the shape of the others.                   *)
LEMMA OthersKeepShape ==
  ASSUME KitShape, NEW s \in Running,
         \/ Over(s)
         \/ /\ thread' \in [Sockets -> Command \cup {Rest}] /\ Running' = Running
            /\ \A q \in Sockets \ {s} : thread'[q] = thread[q]
            /\ Shape(thread'[s])
  PROVE  \A q \in Running' : Shape(thread'[q])
  BY RunningIsCommand DEF KitShape, Over

LEMMA KitShapeStep ==
  ASSUME KitShape, OwnDevice, [KitNext]_kitVars
  PROVE  KitShape'
<1>1. /\ KitTypeOK /\ passthru <= connects /\ \A s \in Running : Shape(thread[s])
      /\ AnswersAsked
  BY DEF KitShape
<1>2. /\ passthru \in Kits \cup {NoKit}
      /\ opened \subseteq 1 .. connects /\ connects \in 0 .. MaxConnects
      /\ ids \in [Kits -> [tx : Nodes, rx : Nodes]]
      /\ filters \subseteq Nodes
      /\ buffer \in Seq(Answer) /\ Len(buffer) <= asked
      /\ onBus \subseteq Answer /\ asked \in 0 .. MaxAsked
      /\ thread \in [Sockets -> Command \cup {Rest}]
      /\ commands \in 0 .. MaxCommands
      /\ strays \subseteq {"overlap", "refused"}
      /\ connects \in Nat /\ MaxConnects \in Nat /\ asked \in Nat
      /\ IsFiniteSet(onBus) /\ Cardinality(onBus) \in Nat /\ Len(buffer) \in Nat
      /\ Len(buffer) + Cardinality(onBus) <= asked
  BY <1>1, KitBounds, FS_CardinalityType DEF KitTypeOK, AnswersAsked
<1>3. \A s \in Running : s \in Sockets /\ thread[s] \in Command
                         /\ thread[s].kit \in Kits \cup {NoKit}
  BY <1>1, RunningIsCommand, CommandFields
(* A step that leaves the rest of the state within its types.              *)
<1>4. ASSUME NEW s \in Running, NEW st, NEW kit, NEW node, NEW ask, NEW to, NEW from,
             MovedTo(s, st, kit, node, ask, to, from),
             thread[s].role = "disconnect" => st \in {"close", "forget"},
             thread[s].role = "connect" =>
               st \in {"close", "forget", "open", "channel", "publish"} \cup SetUpSteps,
             thread[s].role = "work" => st \in {"pick", "ready", "wait", "took"} \cup SetUpSteps,
             kit = NoKit <=> st \in {"close", "forget", "open"},
             st \in {"ready", "wait", "took"} \cup SetUpSteps => node \in Nodes
      PROVE  /\ thread' \in [Sockets -> Command \cup {Rest}]
             /\ \A q \in Running' : Shape(thread'[q])
  BY <1>4, OthersKeepShape DEF MovedTo, Shape
<1>5. ASSUME NEW s \in Running, Over(s)
      PROVE  /\ thread' \in [Sockets -> Command \cup {Rest}]
             /\ \A q \in Running' : Shape(thread'[q])
  BY <1>5, OthersKeepShape DEF Over
<1>6. ASSUME thread' \in [Sockets -> Command \cup {Rest}],
             \A q \in Running' : Shape(thread'[q]),
             UNCHANGED <<driverVars, passthru, ids, commands>>,
             strays' \subseteq strays \cup {"overlap", "refused"}
      PROVE  KitShape'
  BY <1>1, <1>2, <1>6 DEF KitShape, KitTypeOK, AnswersAsked, driverVars
<1>7. ASSUME NEW s \in Sockets, NEW role \in Roles, Receive(s, role) PROVE KitShape'
  <2>1. /\ Running' = Running \cup {s} /\ s \notin Running
        /\ thread' \in [Sockets -> Command \cup {Rest}]
        /\ thread'[s].role = role
        /\ thread'[s].step = IF role = "work" THEN "pick" ELSE "close"
        /\ thread'[s].kit = IF role = "work" THEN passthru ELSE NoKit
        /\ \A q \in Running :
             /\ thread'[q].step = thread[q].step /\ thread'[q].role = thread[q].role
             /\ thread'[q].kit = thread[q].kit /\ thread'[q].node = thread[q].node
    BY <1>1, <1>7, ReceiveThread
  <2>2. /\ role = "work" => passthru # NoKit
        /\ commands < MaxCommands /\ commands' = commands + 1
        /\ strays' \subseteq strays \cup {"overlap"}
        /\ UNCHANGED <<driverVars, passthru, ids>>
    BY <1>7 DEF Receive
  <2>3. Shape(thread'[s])
    BY <2>1, <2>2 DEF Shape, SetUpSteps, Roles
  <2>4. \A q \in Running : Shape(thread'[q])
    BY <1>1, <2>1 DEF Shape
  <2>5. commands' \in 0 .. MaxCommands
    BY <1>2, <2>2, KitBounds
  <2> QED BY <1>1, <1>2, <2>1, <2>2, <2>3, <2>4, <2>5
          DEF KitShape, KitTypeOK, AnswersAsked, driverVars
<1>8. ASSUME NEW s \in Sockets, CloseKit(s) PROVE KitShape'
  <2>1. /\ s \in Running /\ thread[s].step = "close"
        /\ MovedTo(s, "forget", thread[s].kit, thread[s].node, thread[s].ask,
                   thread[s].to, thread[s].from)
    BY <1>1, <1>8, ReplaceThread
  <2>2. /\ thread' \in [Sockets -> Command \cup {Rest}] /\ \A q \in Running' : Shape(thread'[q])
    <3>1. Shape(thread[s])
      BY <1>1, <2>1
    <3> QED BY <3>1, <2>1, <1>4 DEF Shape, SetUpSteps
  <2>3. /\ opened' = opened \ {passthru}
        /\ (filters' = {} /\ buffer' = <<>>) \/ UNCHANGED <<filters, buffer>>
        /\ UNCHANGED <<connects, onBus, asked, passthru, ids, commands, strays>>
    BY <1>8 DEF CloseKit
  <2>4. /\ filters' \subseteq Nodes /\ buffer' \in Seq(Answer) /\ Len(buffer') <= asked
        /\ Len(buffer') + Cardinality(onBus) <= asked
    <3>1. CASE UNCHANGED <<filters, buffer>>
      BY <1>2, <3>1
    <3>2. CASE filters' = {} /\ buffer' = <<>>
      <4>1. Len(buffer') = 0 /\ buffer' \in Seq(Answer)
        BY <3>2
      <4> QED BY <4>1, <3>2, <1>2
    <3> QED BY <2>3, <3>1, <3>2
  <2> QED BY <1>1, <1>2, <2>2, <2>3, <2>4 DEF KitShape, KitTypeOK, AnswersAsked
<1>9. ASSUME NEW s \in Sockets, ForgetKit(s) PROVE KitShape'
  <2>1. /\ s \in Running /\ thread[s].step = "forget"
        /\ \/ thread[s].role = "disconnect" /\ Over(s)
           \/ /\ thread[s].role # "disconnect"
              /\ MovedTo(s, "open", thread[s].kit, thread[s].node, thread[s].ask,
                         thread[s].to, thread[s].from)
    BY <1>1, <1>9, ReplaceThread
  <2>2. Shape(thread[s]) /\ thread[s].role \in Roles
    BY <1>1, <1>3, <2>1, CommandFields
  <2>3. /\ thread' \in [Sockets -> Command \cup {Rest}] /\ \A q \in Running' : Shape(thread'[q])
    BY <2>1, <2>2, <1>4, <1>5 DEF Shape, SetUpSteps
  <2>4. passthru' = NoKit /\ UNCHANGED <<driverVars, ids, commands, strays>>
    BY <1>9 DEF ForgetKit
  <2>5. passthru' <= connects
    BY <1>2, <2>4 DEF NoKit
  <2> QED BY <1>1, <1>2, <2>3, <2>4, <2>5
          DEF KitShape, KitTypeOK, AnswersAsked, driverVars
<1>10. ASSUME NEW s \in Sockets, OpenKit(s, TRUE) PROVE KitShape'
  <2>1. /\ s \in Running /\ thread[s].step = "open"
        /\ MovedTo(s, "channel", connects + 1, thread[s].node, thread[s].ask,
                   thread[s].to, thread[s].from)
    BY <1>1, <1>10, ReplaceThread
  <2>2. Shape(thread[s]) /\ thread[s].role \in Roles
    BY <1>1, <1>3, <2>1, CommandFields
  <2>3. connects + 1 # NoKit
    BY <1>2 DEF NoKit
  <2>4. /\ thread' \in [Sockets -> Command \cup {Rest}] /\ \A q \in Running' : Shape(thread'[q])
    BY <2>1, <2>2, <2>3, <1>4 DEF Shape, SetUpSteps
  <2>5. /\ connects < MaxConnects /\ connects' = connects + 1
        /\ opened' = opened \cup {connects + 1}
        /\ UNCHANGED <<filters, buffer, onBus, asked, passthru, ids, commands, strays>>
    BY <1>10 DEF OpenKit
  <2>6. connects' \in 0 .. MaxConnects /\ opened' \subseteq 1 .. connects'
        /\ passthru' <= connects'
    <3>1. passthru \in Nat
      BY <1>2 DEF Kits, NoKit
    <3> QED BY <3>1, <1>1, <1>2, <2>5
  <2> QED BY <1>1, <1>2, <2>4, <2>5, <2>6 DEF KitShape, KitTypeOK, AnswersAsked
<1>11. ASSUME NEW s \in Sockets, OpenKit(s, FALSE) PROVE KitShape'
  <2>1. s \in Running /\ Over(s) /\ UNCHANGED <<driverVars, passthru, ids, commands, strays>>
    BY <1>1, <1>11, ReplaceThread DEF OpenKit, driverVars
  <2> QED BY <1>5, <1>6, <2>1
<1>12. ASSUME NEW s \in Sockets, OpenChannel(s, TRUE) PROVE KitShape'
  <2>1. /\ s \in Running /\ thread[s].step = "channel"
        /\ MovedTo(s, "tx", thread[s].kit, Ecm, thread[s].ask, thread[s].to, thread[s].from)
        /\ UNCHANGED <<driverVars, passthru, ids, commands, strays>>
    BY <1>1, <1>12, ReplaceThread DEF OpenChannel
  <2>2. Shape(thread[s]) /\ thread[s].role \in Roles
    BY <1>1, <1>3, <2>1, CommandFields
  <2>3. /\ thread' \in [Sockets -> Command \cup {Rest}] /\ \A q \in Running' : Shape(thread'[q])
    BY <2>1, <2>2, <1>4, EcmAssumption DEF Shape, SetUpSteps
  <2> QED BY <2>1, <2>3, <1>6
<1>13. ASSUME NEW s \in Sockets, OpenChannel(s, FALSE) PROVE KitShape'
  <2>1. s \in Running /\ Over(s) /\ UNCHANGED <<driverVars, passthru, ids, commands>>
        /\ strays' = strays \cup {"refused"}
    BY <1>1, <1>13, ReplaceThread DEF OpenChannel
  <2> QED BY <1>5, <1>6, <2>1
<1>14. ASSUME NEW s \in Sockets, Publish(s) PROVE KitShape'
  <2>1. /\ s \in Running /\ thread[s].step = "publish" /\ Over(s)
        /\ passthru' = thread[s].kit /\ UNCHANGED <<driverVars, ids, commands, strays>>
    BY <1>1, <1>14, ReplaceThread DEF Publish
  <2>2. passthru' \in Kits \cup {NoKit}
    BY <1>3, <2>1
  <2>3. /\ thread' \in [Sockets -> Command \cup {Rest}] /\ \A q \in Running' : Shape(thread'[q])
    BY <1>5, <2>1
  <2>4. passthru' <= connects
    <3>1. Shape(thread[s]) /\ thread[s].role \in Roles
      BY <1>1, <1>3, <2>1, CommandFields
    <3>2. Connecting(thread[s])
      BY <2>1, <3>1 DEF Shape, SetUpSteps, Connecting, Roles
    <3>3. thread[s].kit \in 1 .. connects
      BY <1>2, <2>1, <3>2 DEF OwnDevice
    <3> QED BY <1>2, <2>1, <3>3
  <2> QED BY <1>1, <1>2, <2>1, <2>2, <2>3, <2>4
          DEF KitShape, KitTypeOK, AnswersAsked, driverVars
(* The steps of set_can_ids.                                               *)
<1>15. ASSUME NEW s \in Sockets, SetUp(s) PROVE KitShape'
  <2> DEFINE c == thread[s]
             st == CASE c.step = "tx" -> "rx" [] c.step = "rx" -> "clear"
                     [] c.step = "clear" -> "filter" [] c.step = "filter" -> "flush"
                     [] OTHER -> IF c.role = "connect" THEN "publish" ELSE "ready"
  <2>1. /\ s \in Running /\ c.step \in SetUpSteps
        /\ MovedTo(s, st, c.kit, c.node, c.ask, c.to, c.from)
    BY <1>1, <1>15, SetUpThread DEF SetUp, SetUpSteps
  <2>2. Shape(c) /\ c.role \in Roles
    BY <1>1, <1>3, <2>1, CommandFields
  <2>3. st \in {"rx", "clear", "filter", "flush"}
        \/ st = (IF c.role = "connect" THEN "publish" ELSE "ready")
    OBVIOUS
  <2> HIDE DEF st
  <2>4. /\ thread' \in [Sockets -> Command \cup {Rest}] /\ \A q \in Running' : Shape(thread'[q])
    BY <2>1, <2>2, <2>3, <1>4 DEF Shape, SetUpSteps, Roles
  <2>5. c.kit \in Kits /\ c.node \in Nodes
    BY <1>3, <2>1, <2>2 DEF Shape, SetUpSteps
  <2>6. /\ ids' \in [Kits -> [tx : Nodes, rx : Nodes]] /\ filters' \subseteq Nodes
        /\ buffer' \in Seq(Answer) /\ Len(buffer') <= asked
        /\ Len(buffer') + Cardinality(onBus) <= asked
        /\ UNCHANGED <<opened, connects, onBus, asked, passthru, commands, strays>>
    <3>1. CASE SetTx(s)
      BY <1>2, <2>5, <3>1 DEF SetTx, driverVars
    <3>2. CASE SetRx(s)
      BY <1>2, <2>5, <3>2 DEF SetRx, driverVars
    <3>3. CASE ClearFilters(s)
      BY <1>2, <3>3 DEF ClearFilters
    <3>4. CASE StartFilter(s)
      <4>1. ids[c.kit].rx \in Nodes
        BY <1>2, <2>5
      <4> QED BY <1>2, <3>4, <4>1 DEF StartFilter
    <3>5. CASE Flush(s)
      <4>1. buffer' \in {buffer, <<>>}
            /\ UNCHANGED <<opened, connects, filters, onBus, asked, passthru, ids, commands, strays>>
        BY <3>5 DEF Flush
      <4>2. /\ buffer' \in Seq(Answer) /\ Len(buffer') <= asked
            /\ Len(buffer') + Cardinality(onBus) <= asked
        <5>1. CASE buffer' = buffer
          BY <1>2, <5>1
        <5>2. CASE buffer' = <<>>
          <6>1. Len(buffer') = 0 /\ buffer' \in Seq(Answer)
            BY <5>2
          <6> QED BY <6>1, <1>2
        <5> QED BY <4>1, <5>1, <5>2
      <4> QED BY <1>2, <4>1, <4>2
    <3> QED BY <1>15, <3>1, <3>2, <3>3, <3>4, <3>5 DEF SetUp
  <2> QED BY <1>1, <1>2, <2>4, <2>6 DEF KitShape, KitTypeOK, AnswersAsked
<1>16. ASSUME NEW s \in Sockets, NEW node \in Nodes, OpenConnection(s, node) PROVE KitShape'
  <2>1. /\ s \in Running /\ thread[s].step = "pick"
        /\ MovedTo(s, "tx", thread[s].kit, node, thread[s].ask, thread[s].to, thread[s].from)
        /\ UNCHANGED <<driverVars, passthru, ids, commands, strays>>
    BY <1>1, <1>16, ExchangeThread DEF OpenConnection
  <2>2. Shape(thread[s]) /\ thread[s].role \in Roles
    BY <1>1, <1>3, <2>1, CommandFields
  <2>3. /\ thread' \in [Sockets -> Command \cup {Rest}] /\ \A q \in Running' : Shape(thread'[q])
    BY <2>1, <2>2, <1>4 DEF Shape, SetUpSteps
  <2> QED BY <2>1, <2>3, <1>6
<1>17. ASSUME NEW s \in Sockets, NEW ask \in Asks, SendRequest(s, ask) PROVE KitShape'
  <2>0. thread[s].step = "ready"
    BY <1>17 DEF SendRequest
  <2>1. s \in Running /\ Shape(thread[s]) /\ thread[s].kit \in Kits
    BY <1>1, <1>3, <2>0, RunningByStep DEF Shape
  <2>2. MovedTo(s, "wait", thread[s].kit, thread[s].node, ask, ids[thread[s].kit].tx,
                thread[s].from)
    BY <1>1, <1>17, <2>1, ExchangeThread
  <2>3. /\ thread' \in [Sockets -> Command \cup {Rest}] /\ \A q \in Running' : Shape(thread'[q])
    BY <2>0, <2>1, <2>2, <1>4 DEF Shape, SetUpSteps
  <2>4. /\ asked < MaxAsked /\ asked' = asked + 1
        /\ onBus' = onBus \cup {[from |-> ids[thread[s].kit].tx, ask |-> ask]}
        /\ UNCHANGED <<opened, connects, filters, buffer, passthru, ids, commands, strays>>
    BY <1>17 DEF SendRequest
  <2>5. onBus' \subseteq Answer
    <3>1. ids[thread[s].kit].tx \in Nodes
      BY <1>2, <2>1
    <3> QED BY <1>2, <2>4, <3>1 DEF Answer
  <2>6. asked' \in 0 .. MaxAsked /\ Len(buffer') <= asked'
    BY <1>2, <2>4, KitBounds
  <2>7. AnswersAsked'
    <3>1. IsFiniteSet(onBus') /\ Cardinality(onBus') <= Cardinality(onBus) + 1
          /\ Cardinality(onBus') \in Nat
      <4>1. PICK x : onBus' = onBus \cup {x}
        BY <2>4
      <4>2. /\ IsFiniteSet(onBus \cup {x})
            /\ Cardinality(onBus \cup {x}) = IF x \in onBus THEN Cardinality(onBus)
                                                           ELSE Cardinality(onBus) + 1
        BY <1>2, FS_AddElement
      <4> QED BY <1>2, <4>1, <4>2
    <3> QED BY <1>2, <2>4, <3>1 DEF AnswersAsked
  <2> QED BY <1>1, <1>2, <2>3, <2>4, <2>5, <2>6, <2>7 DEF KitShape, KitTypeOK
<1>18. ASSUME NEW s \in Sockets, TakeAnswer(s) PROVE KitShape'
  <2>1. /\ s \in Running /\ thread[s].step = "wait"
        /\ \/ MovedTo(s, "took", thread[s].kit, thread[s].node, thread[s].ask,
                      thread[s].to, Head(buffer).from)
           \/ MovedTo(s, "ready", thread[s].kit, thread[s].node, NoAsk, NoNode, NoNode)
    BY <1>1, <1>18, ExchangeThread
  <2>2. Shape(thread[s]) /\ thread[s].role \in Roles
    BY <1>1, <1>3, <2>1, CommandFields
  <2>3. /\ thread' \in [Sockets -> Command \cup {Rest}] /\ \A q \in Running' : Shape(thread'[q])
    BY <2>1, <2>2, <1>4 DEF Shape, SetUpSteps
  <2>4. /\ buffer # <<>> /\ buffer' = Tail(buffer)
        /\ UNCHANGED <<opened, connects, filters, onBus, asked, passthru, ids, commands, strays>>
    BY <1>18 DEF TakeAnswer
  <2>5. /\ buffer' \in Seq(Answer) /\ Len(buffer') <= asked
        /\ Len(buffer') + Cardinality(onBus) <= asked
    <3>1. buffer' \in Seq(Answer) /\ Len(buffer') = Len(buffer) - 1 /\ Len(buffer) \in Nat
      BY <1>2, <2>4, HeadTailProperties, LenProperties
    <3> QED BY <3>1, <1>2
  <2> QED BY <1>1, <1>2, <2>3, <2>4, <2>5 DEF KitShape, KitTypeOK, AnswersAsked
<1>19. ASSUME NEW s \in Sockets, EndExchange(s) PROVE KitShape'
  <2>1. /\ s \in Running /\ thread[s].step \in {"wait", "took"}
        /\ MovedTo(s, "ready", thread[s].kit, thread[s].node, NoAsk, NoNode, NoNode)
        /\ UNCHANGED <<driverVars, passthru, ids, commands, strays>>
    BY <1>1, <1>19, ExchangeThread DEF EndExchange
  <2>2. Shape(thread[s]) /\ thread[s].role \in Roles
    BY <1>1, <1>3, <2>1, CommandFields
  <2>3. /\ thread' \in [Sockets -> Command \cup {Rest}] /\ \A q \in Running' : Shape(thread'[q])
    BY <2>1, <2>2, <1>4 DEF Shape, SetUpSteps
  <2> QED BY <2>1, <2>3, <1>6
<1>20. ASSUME NEW s \in Sockets, CloseConnection(s) PROVE KitShape'
  <2>1. /\ s \in Running /\ thread[s].step = "ready"
        /\ MovedTo(s, "pick", thread[s].kit, NoNode, thread[s].ask, thread[s].to, thread[s].from)
        /\ UNCHANGED <<driverVars, passthru, ids, commands, strays>>
    BY <1>1, <1>20, ExchangeThread DEF CloseConnection
  <2>2. Shape(thread[s]) /\ thread[s].role \in Roles
    BY <1>1, <1>3, <2>1, CommandFields
  <2>3. /\ thread' \in [Sockets -> Command \cup {Rest}] /\ \A q \in Running' : Shape(thread'[q])
    BY <2>1, <2>2, <1>4 DEF Shape, SetUpSteps
  <2> QED BY <2>1, <2>3, <1>6
<1>21. ASSUME NEW s \in Sockets, EndCommand(s) PROVE KitShape'
  <2>1. s \in Running /\ Over(s) /\ UNCHANGED <<driverVars, passthru, ids, commands, strays>>
    BY <1>1, <1>21, ExchangeThread DEF EndCommand
  <2> QED BY <1>5, <1>6, <2>1
<1>22. ASSUME NEW answer \in onBus, NEW dark \in BOOLEAN, Arrives(answer, dark)
       PROVE  KitShape'
  <2>1. /\ onBus' = onBus \ {answer} /\ buffer' \in {buffer, Append(buffer, answer)}
        /\ UNCHANGED <<opened, connects, filters, asked, passthru, ids, thread, commands, strays>>
    BY <1>22 DEF Arrives
  <2>2. buffer' \in Seq(Answer) /\ Len(buffer') <= Len(buffer) + 1 /\ Len(buffer') \in Nat
    <3>1. CASE buffer' = buffer
      BY <1>2, <3>1
    <3>2. CASE buffer' = Append(buffer, answer)
      <4>1. answer \in Answer
        BY <1>2
      <4>2. buffer' \in Seq(Answer) /\ Len(buffer') = Len(buffer) + 1
        BY <1>2, <3>2, <4>1, AppendProperties
      <4> QED BY <1>2, <4>2
    <3> QED BY <2>1, <3>1, <3>2
  <2>3. IsFiniteSet(onBus') /\ Cardinality(onBus') = Cardinality(onBus) - 1
        /\ Cardinality(onBus') \in Nat
    BY <1>2, <2>1, FS_RemoveElement, FS_CardinalityType
  <2>4. Len(buffer') <= asked /\ AnswersAsked'
    BY <1>2, <2>1, <2>2, <2>3 DEF AnswersAsked
  <2>5. Running' = Running
    BY <2>1 DEF Running
  <2> QED BY <1>1, <1>2, <2>1, <2>2, <2>4, <2>5 DEF KitShape, KitTypeOK
<1>23. CASE UNCHANGED kitVars
  <2>1. Running' = Running
    BY <1>23 DEF kitVars, Running
  <2> QED BY <1>1, <1>2, <1>23, <2>1
          DEF KitShape, KitTypeOK, AnswersAsked, kitVars, driverVars
<1>24. ASSUME NEW s \in Sockets, Exchange(s) PROVE KitShape'
  BY <1>16, <1>17, <1>18, <1>19, <1>20, <1>21, <1>24 DEF Exchange
<1>25. ASSUME NEW s \in Sockets, NEW ok \in BOOLEAN, OpenKit(s, ok) \/ OpenChannel(s, ok)
       PROVE  KitShape'
  BY <1>10, <1>11, <1>12, <1>13, <1>25
<1> QED BY <1>7, <1>8, <1>9, <1>14, <1>15, <1>22, <1>23, <1>24, <1>25 DEF KitNext

-----------------------------------------------------------------------------
(* The devices: each is held or being connected, but for strays.           *)

ConnectingKits == {thread[s].kit : s \in {q \in Running : thread[q].role = "connect"}}

LEMMA Reachable ==
  KitStaysReachable <=> (strays = {} => opened \subseteq {passthru} \cup ConnectingKits)
  BY DEF KitStaysReachable, ConnectingKits

(* A step on a channel, of a command that holds a device and goes on       *)
(* holding it, and the end of one that replaces no device.                 *)
LEMMA ChannelStepKeepsDevices ==
  ASSUME KitShape, KitDevices, NEW s \in Running,
         UNCHANGED <<opened, passthru, strays>>,
         \/ /\ Over(s) /\ thread[s].role = "work"
         \/ \E st, node, ask, to, from :
              /\ MovedTo(s, st, thread[s].kit, node, ask, to, from)
              /\ thread[s].step \notin {"close", "forget"} /\ st # "close"
  PROVE  KitDevices'
<1>1. OwnDevice /\ HeldIsOpen /\ OneReplaces
      /\ (strays = {} => opened \subseteq {passthru} \cup ConnectingKits)
      /\ \A q \in Running : Shape(thread[q])
  BY Reachable DEF KitDevices, KitShape
<1>2. CASE Over(s) /\ thread[s].role = "work"
  <2>1. /\ Running' = Running \ {s} /\ \A q \in Running' : thread'[q] = thread[q]
    BY <1>2, RunningIsCommand DEF Over, KitShape
  <2>2. thread[s].step # "forget"
    BY <1>1, <1>2 DEF Shape, SetUpSteps
  <2>3. OwnDevice' /\ OneReplaces'
    BY <1>1, <2>1 DEF OwnDevice, OneReplaces, Connecting
  <2>4. HeldIsOpen'
    BY <1>1, <2>1, <2>2 DEF HeldIsOpen
  <2>5. KitStaysReachable'
    <3>1. ConnectingKits \subseteq ConnectingKits'
      BY <1>2, <2>1 DEF ConnectingKits
    <3> QED BY <1>1, <3>1 DEF KitStaysReachable, ConnectingKits
  <2> QED BY <2>3, <2>4, <2>5 DEF KitDevices
<1>3. CASE \E st, node, ask, to, from :
             /\ MovedTo(s, st, thread[s].kit, node, ask, to, from)
             /\ thread[s].step \notin {"close", "forget"} /\ st # "close"
  <2>1. /\ Running' = Running
        /\ \A q \in Running : /\ thread'[q].role = thread[q].role
                              /\ thread'[q].kit = thread[q].kit
                              /\ q # s => thread'[q] = thread[q]
        /\ thread[s].step \notin {"close", "forget"} /\ thread'[s].step # "close"
    BY <1>3, RunningIsCommand DEF MovedTo, KitShape
  <2>2. OwnDevice'
    BY <1>1, <2>1 DEF OwnDevice, Connecting
  <2>3. OneReplaces'
    BY <1>1, <2>1 DEF OneReplaces
  <2>4. HeldIsOpen'
    BY <1>1, <2>1 DEF HeldIsOpen
  <2>5. KitStaysReachable'
    <3>1. ConnectingKits' = ConnectingKits
      BY <2>1 DEF ConnectingKits
    <3> QED BY <1>1, <3>1 DEF KitStaysReachable, ConnectingKits
  <2> QED BY <2>2, <2>3, <2>4, <2>5 DEF KitDevices
<1> QED BY <1>2, <1>3

LEMMA KitDevicesStep ==
  ASSUME KitShape, KitDevices, [KitNext]_kitVars
  PROVE  KitDevices'
<1>1. /\ KitTypeOK /\ passthru <= connects /\ \A s \in Running : Shape(thread[s])
      /\ OwnDevice /\ HeldIsOpen /\ OneReplaces
      /\ (strays = {} => opened \subseteq {passthru} \cup ConnectingKits)
  BY Reachable DEF KitShape, KitDevices
<1>2. /\ passthru \in Kits \cup {NoKit} /\ opened \subseteq 1 .. connects
      /\ connects \in 0 .. MaxConnects /\ connects \in Nat
      /\ NoKit \notin opened /\ NoKit \notin Kits
  BY <1>1, KitBounds DEF KitTypeOK, Kits, NoKit
<1>3. \A s \in Running : s \in Sockets /\ thread[s] \in Command /\ thread[s].role \in Roles
                         /\ thread[s].kit \in Kits \cup {NoKit}
  BY <1>1, RunningIsCommand, CommandFields
<1>4. ASSUME NEW s \in Sockets, NEW role \in Roles, Receive(s, role) PROVE KitDevices'
  <2>1. /\ Running' = Running \cup {s} /\ s \notin Running
        /\ thread'[s].role = role
        /\ thread'[s].step = IF role = "work" THEN "pick" ELSE "close"
        /\ thread'[s].kit = IF role = "work" THEN passthru ELSE NoKit
        /\ \A q \in Running :
             /\ thread'[q].step = thread[q].step /\ thread'[q].role = thread[q].role
             /\ thread'[q].kit = thread[q].kit
    BY <1>1, <1>4, ReceiveThread
  <2>2. /\ strays' = IF role # "work" /\ {q \in Running : thread[q].role # "work"} # {}
                     THEN strays \cup {"overlap"} ELSE strays
        /\ UNCHANGED <<opened, passthru>>
    BY <1>4 DEF Receive, driverVars
  <2>3. OwnDevice'
    <3>1. ~Connecting(thread'[s])
      BY <2>1 DEF Connecting
    <3>2. \A q \in Running : Connecting(thread'[q]) <=> Connecting(thread[q])
      BY <2>1 DEF Connecting
    <3> QED BY <1>1, <2>1, <2>2, <3>1, <3>2 DEF OwnDevice
  <2>4. HeldIsOpen'
    BY <1>1, <2>1, <2>2 DEF HeldIsOpen
  <2>5. OneReplaces'
    <3> SUFFICES ASSUME strays' = {},
                        NEW a \in Running', thread'[a].role # "work"
                 PROVE  /\ \A q \in Running' : thread'[q].role # "work" => q = a
                        /\ thread'[a].step # "close" => passthru \notin opened
      BY <2>2 DEF OneReplaces
    <3>1. strays = {} /\ (role # "work" => \A q \in Running : thread[q].role = "work")
      BY <2>2
    <3>2. CASE role = "work"
      BY <1>1, <2>1, <3>1, <3>2 DEF OneReplaces
    <3>3. CASE role # "work"
      BY <2>1, <3>1, <3>3
    <3> QED BY <3>2, <3>3
  <2>6. KitStaysReachable'
    <3>1. ConnectingKits \subseteq ConnectingKits'
      BY <2>1 DEF ConnectingKits
    <3>2. strays' = {} => strays = {}
      BY <2>2
    <3> QED BY <1>1, <2>2, <3>1, <3>2 DEF KitStaysReachable, ConnectingKits
  <2> QED BY <2>3, <2>4, <2>5, <2>6 DEF KitDevices
<1>5. ASSUME NEW s \in Sockets, CloseKit(s) PROVE KitDevices'
  <2>1. /\ s \in Running /\ thread[s].step = "close"
        /\ Running' = Running /\ thread'[s].step = "forget"
        /\ \A q \in Running : /\ thread'[q].role = thread[q].role
                              /\ thread'[q].kit = thread[q].kit
                              /\ q # s => thread'[q] = thread[q]
        /\ opened' = opened \ {passthru} /\ UNCHANGED <<passthru, strays>>
    BY <1>1, <1>3, <1>5, ReplaceThread DEF MovedTo, CloseKit
  <2>2. OwnDevice'
    BY <1>1, <2>1 DEF OwnDevice, Connecting
  <2>3. HeldIsOpen'
    BY <2>1 DEF HeldIsOpen
  <2>4. OneReplaces'
    BY <1>1, <2>1 DEF OneReplaces
  <2>5. KitStaysReachable'
    <3>1. ConnectingKits' = ConnectingKits
      BY <2>1 DEF ConnectingKits
    <3> QED BY <1>1, <2>1, <3>1 DEF KitStaysReachable, ConnectingKits
  <2> QED BY <2>2, <2>3, <2>4, <2>5 DEF KitDevices
<1>6. ASSUME NEW s \in Sockets, ForgetKit(s) PROVE KitDevices'
  <2>1. /\ s \in Running /\ thread[s].step = "forget" /\ thread[s].role # "work"
        /\ passthru' = NoKit /\ UNCHANGED <<opened, strays>>
    <3>1. s \in Running /\ thread[s].step = "forget"
      BY <1>1, <1>6, ReplaceThread
    <3> QED BY <1>1, <1>6, <3>1 DEF ForgetKit, driverVars, Shape, SetUpSteps
  <2>2. /\ Running' \subseteq Running
        /\ \A q \in Running' : /\ thread'[q].role = thread[q].role
                               /\ thread'[q].kit = thread[q].kit
                               /\ q # s => thread'[q] = thread[q]
        /\ \A q \in Running : q # s => q \in Running'
        /\ s \notin Running' => thread[s].role = "disconnect"
    BY <1>1, <1>3, <1>6, ReplaceThread DEF MovedTo, Over
  <2>3. OwnDevice'
    <3>1. \A q \in Running' : thread'[q].kit # NoKit => thread'[q].kit # passthru'
      BY <2>1
    <3> QED BY <1>1, <2>1, <2>2, <3>1 DEF OwnDevice, Connecting
  <2>4. HeldIsOpen'
    BY <2>1 DEF HeldIsOpen
  <2>5. OneReplaces'
    BY <1>1, <1>2, <2>1, <2>2 DEF OneReplaces
  <2>6. KitStaysReachable'
    <3>1. ConnectingKits \subseteq ConnectingKits'
      BY <2>2 DEF ConnectingKits
    <3>2. strays = {} => passthru \notin opened
      BY <1>1, <2>1 DEF OneReplaces
    <3> QED BY <1>1, <2>1, <3>1, <3>2 DEF KitStaysReachable, ConnectingKits
  <2> QED BY <2>3, <2>4, <2>5, <2>6 DEF KitDevices
<1>7. ASSUME NEW s \in Sockets, OpenKit(s, TRUE) PROVE KitDevices'
  <2> DEFINE k == connects + 1
  <2>1. /\ s \in Running /\ thread[s].step = "open"
        /\ Running' = Running /\ thread'[s].step = "channel" /\ thread'[s].kit = k
        /\ \A q \in Running : /\ thread'[q].role = thread[q].role
                              /\ q # s => thread'[q] = thread[q]
        /\ opened' = opened \cup {k} /\ UNCHANGED <<passthru, strays>>
    BY <1>1, <1>3, <1>7, ReplaceThread DEF MovedTo, OpenKit
  <2>2. /\ thread[s].role = "connect" /\ thread[s].kit = NoKit
    BY <1>1, <1>3, <2>1 DEF Shape, SetUpSteps, Roles
  <2>3. k \notin opened /\ k # passthru /\ k # NoKit /\ k \in Nat
    <3>1. passthru \in Nat /\ opened \subseteq 1 .. connects
      BY <1>2 DEF Kits, NoKit
    <3> QED BY <3>1, <1>1, <1>2 DEF NoKit
  <2> HIDE DEF k
  <2>4. OwnDevice'
    <3>1. \A q \in Running \ {s} : Connecting(thread[q]) => thread[q].kit # k
      BY <1>1, <2>3 DEF OwnDevice
    <3> QED BY <1>1, <2>1, <2>2, <2>3, <3>1 DEF OwnDevice, Connecting
  <2>5. HeldIsOpen'
    BY <1>1, <2>1 DEF HeldIsOpen
  <2>6. OneReplaces'
    BY <1>1, <2>1, <2>2, <2>3 DEF OneReplaces
  <2>7. KitStaysReachable'
    <3>1. ConnectingKits \ {NoKit} \subseteq ConnectingKits' /\ k \in ConnectingKits'
      BY <2>1, <2>2 DEF ConnectingKits
    <3> QED BY <1>1, <1>2, <2>1, <3>1 DEF KitStaysReachable, ConnectingKits
  <2> QED BY <2>4, <2>5, <2>6, <2>7 DEF KitDevices
<1>8. ASSUME NEW s \in Sockets, OpenKit(s, FALSE) PROVE KitDevices'
  <2>1. /\ s \in Running /\ thread[s].step = "open"
        /\ Running' = Running \ {s} /\ \A q \in Running' : thread'[q] = thread[q]
        /\ UNCHANGED <<opened, passthru, strays>>
    BY <1>1, <1>3, <1>8, ReplaceThread DEF Over, OpenKit
  <2>2. thread[s].kit = NoKit
    BY <1>1, <2>1 DEF Shape
  <2>3. OwnDevice' /\ OneReplaces'
    BY <1>1, <2>1 DEF OwnDevice, OneReplaces, Connecting
  <2>4. HeldIsOpen'
    BY <1>1, <2>1 DEF HeldIsOpen
  <2>5. KitStaysReachable'
    <3>1. ConnectingKits \ {NoKit} \subseteq ConnectingKits'
      BY <2>1, <2>2 DEF ConnectingKits
    <3> QED BY <1>1, <1>2, <2>1, <3>1 DEF KitStaysReachable, ConnectingKits
  <2> QED BY <2>3, <2>4, <2>5 DEF KitDevices
<1>9. ASSUME NEW s \in Sockets, OpenChannel(s, TRUE) PROVE KitDevices'
  <2>1. /\ s \in Running /\ thread[s].step = "channel"
        /\ MovedTo(s, "tx", thread[s].kit, Ecm, thread[s].ask, thread[s].to, thread[s].from)
        /\ UNCHANGED <<opened, passthru, strays>>
    BY <1>1, <1>9, ReplaceThread DEF OpenChannel, driverVars
  <2> QED BY <2>1, ChannelStepKeepsDevices
<1>10. ASSUME NEW s \in Sockets, OpenChannel(s, FALSE) PROVE KitDevices'
  <2>1. /\ s \in Running /\ thread[s].step = "channel"
        /\ Running' = Running \ {s} /\ \A q \in Running' : thread'[q] = thread[q]
        /\ UNCHANGED <<opened, passthru>> /\ strays' # {}
    BY <1>1, <1>3, <1>10, ReplaceThread DEF Over, OpenChannel, driverVars
  <2>2. OwnDevice' /\ HeldIsOpen'
    BY <1>1, <2>1 DEF OwnDevice, HeldIsOpen, Connecting
  <2> QED BY <2>1, <2>2 DEF KitDevices, OneReplaces, KitStaysReachable
<1>11. ASSUME NEW s \in Sockets, Publish(s) PROVE KitDevices'
  <2>1. /\ s \in Running /\ thread[s].step = "publish"
        /\ Running' = Running \ {s} /\ \A q \in Running' : thread'[q] = thread[q]
        /\ passthru' = thread[s].kit /\ UNCHANGED <<opened, strays>>
    BY <1>1, <1>3, <1>11, ReplaceThread DEF Over, Publish, driverVars
  <2>2. thread[s].role = "connect" /\ Connecting(thread[s])
    BY <1>1, <1>3, <2>1 DEF Shape, SetUpSteps, Roles, Connecting
  <2>3. thread[s].kit \in opened
    BY <1>1, <2>1, <2>2 DEF OwnDevice
  <2>4. OwnDevice'
    BY <1>1, <2>1, <2>2 DEF OwnDevice, Connecting
  <2>5. HeldIsOpen'
    BY <2>1, <2>3 DEF HeldIsOpen
  <2>6. OneReplaces'
    BY <1>1, <2>1, <2>2 DEF OneReplaces
  <2>7. KitStaysReachable'
    <3>1. strays = {} => passthru \notin opened
      BY <1>1, <2>1, <2>2 DEF OneReplaces
    <3>2. ConnectingKits \subseteq ConnectingKits' \cup {thread[s].kit}
      BY <2>1 DEF ConnectingKits
    <3> QED BY <1>1, <2>1, <3>1, <3>2 DEF KitStaysReachable, ConnectingKits
  <2> QED BY <2>4, <2>5, <2>6, <2>7 DEF KitDevices
<1>12. ASSUME NEW s \in Sockets, SetUp(s) PROVE KitDevices'
  <2>1. /\ s \in Running /\ thread[s].step \in SetUpSteps
        /\ \E st : /\ MovedTo(s, st, thread[s].kit, thread[s].node, thread[s].ask,
                              thread[s].to, thread[s].from)
                   /\ st # "close"
    BY <1>1, <1>12, SetUpThread DEF SetUp, SetUpSteps
  <2>2. UNCHANGED <<opened, passthru, strays>>
    BY <1>12 DEF SetUp, SetTx, SetRx, ClearFilters, StartFilter, Flush, driverVars
  <2> QED BY <2>1, <2>2, ChannelStepKeepsDevices DEF SetUpSteps
<1>13. ASSUME NEW s \in Sockets, Exchange(s) PROVE KitDevices'
  <2>1. thread[s].step \in {"pick", "ready", "wait", "took"}
    BY <1>13 DEF Exchange, OpenConnection, SendRequest, TakeAnswer, EndExchange,
                 CloseConnection, EndCommand
  <2>2. s \in Running /\ Shape(thread[s]) /\ thread[s].role = "work"
        /\ thread[s].kit \in Kits
    <3>1. s \in Running /\ Shape(thread[s])
      BY <1>1, <2>1, RunningByStep
    <3> QED BY <1>3, <2>1, <3>1 DEF Shape, SetUpSteps, Roles
  <2>3. UNCHANGED <<opened, passthru, strays>>
    BY <1>13 DEF Exchange, OpenConnection, SendRequest, TakeAnswer, EndExchange,
                 CloseConnection, EndCommand, driverVars
  <2>4. \/ Over(s)
        \/ \E st, node, ask, to, from :
             MovedTo(s, st, thread[s].kit, node, ask, to, from) /\ st # "close"
    <3>1. CASE \E node \in Nodes : OpenConnection(s, node)
      BY <1>1, <3>1, ExchangeThread
    <3>2. CASE \E ask \in Asks : SendRequest(s, ask)
      BY <1>1, <2>2, <3>2, ExchangeThread
    <3>3. CASE TakeAnswer(s)
      BY <1>1, <3>3, ExchangeThread
    <3>4. CASE EndExchange(s)
      BY <1>1, <3>4, ExchangeThread
    <3>5. CASE CloseConnection(s)
      BY <1>1, <3>5, ExchangeThread
    <3>6. CASE EndCommand(s)
      BY <1>1, <3>6, ExchangeThread
    <3> QED BY <1>13, <3>1, <3>2, <3>3, <3>4, <3>5, <3>6 DEF Exchange
  <2> QED BY <2>1, <2>2, <2>3, <2>4, ChannelStepKeepsDevices
<1>14. ASSUME UNCHANGED <<thread, opened, passthru, strays>> PROVE KitDevices'
  <2>1. Running' = Running
    BY <1>14 DEF Running
  <2> QED BY <1>1, <1>14, <2>1 DEF KitDevices, OwnDevice, HeldIsOpen, OneReplaces,
             KitStaysReachable, ConnectingKits, Connecting
<1>15. ASSUME NEW answer \in onBus, NEW dark \in BOOLEAN, Arrives(answer, dark)
       PROVE  KitDevices'
  BY <1>14, <1>15 DEF Arrives
<1>16. ASSUME UNCHANGED kitVars PROVE KitDevices'
  BY <1>14, <1>16 DEF kitVars, driverVars
<1>17. ASSUME NEW s \in Sockets, NEW ok \in BOOLEAN, OpenKit(s, ok) \/ OpenChannel(s, ok)
       PROVE  KitDevices'
  BY <1>7, <1>8, <1>9, <1>10, <1>17
<1> QED BY <1>4, <1>5, <1>6, <1>11, <1>12, <1>13, <1>15, <1>16, <1>17 DEF KitNext

-----------------------------------------------------------------------------
(* The channel of a command that has the kit to itself.                    *)

(* Of two commands neither is alone, so only the one that goes on can be.  *)
LEMMA GoesOnAlone ==
  ASSUME KitTypeOK, KitChannelOk, NEW s \in Running,
         NEW st, NEW kit, NEW node, NEW ask, NEW to, NEW from,
         MovedTo(s, st, kit, node, ask, to, from),
         thread[s].alone => ChannelOf(thread[s])'
  PROVE  KitChannelOk'
<1>1. /\ Running' = Running /\ thread'[s].alone = thread[s].alone
      /\ \A q \in Running \ {s} : thread'[q] = thread[q]
  BY RunningIsCommand DEF MovedTo
<1>2. AloneRuns'
  BY <1>1 DEF KitChannelOk, AloneRuns
<1>3. \A q \in Running' : thread'[q].alone => q = s
  BY <1>1 DEF KitChannelOk, AloneRuns
<1>4. AloneOnChannel'
  BY <1>1, <1>3 DEF AloneOnChannel
<1> QED BY <1>2, <1>4 DEF KitChannelOk

LEMMA OverLeavesNoneAlone ==
  ASSUME KitTypeOK, KitChannelOk, NEW s \in Running, Over(s)
  PROVE  KitChannelOk'
<1>1. \A q \in Running' : q \in Running \ {s} /\ thread'[q] = thread[q]
  BY RunningIsCommand DEF Over
<1>2. \A q \in Running' : ~thread'[q].alone
  BY <1>1 DEF KitChannelOk, AloneRuns
<1> QED BY <1>2 DEF KitChannelOk, AloneRuns, AloneOnChannel

LEMMA SetIds ==
  ASSUME ids \in [Kits -> [tx : Nodes, rx : Nodes]], NEW k \in Kits, NEW n \in Nodes
  PROVE  /\ ids' = [ids EXCEPT ![k].tx = n] => ids'[k].tx = n /\ ids'[k].rx = ids[k].rx
         /\ ids' = [ids EXCEPT ![k].rx = n] => ids'[k].rx = n /\ ids'[k].tx = ids[k].tx
  OBVIOUS

LEMMA OpenReaches ==
  ASSUME NEW k \in opened, NEW reaches \in Reaches(k) PROVE reaches = TRUE
  BY DEF Reaches

LEMMA SetUpKeepsChannel ==
  ASSUME KitShape, OwnDevice, KitChannelOk, NEW s \in Sockets, SetUp(s)
  PROVE  KitChannelOk'
<1> DEFINE c == thread[s]
<1>1. /\ s \in Running /\ c.step \in SetUpSteps /\ KitTypeOK
      /\ ids \in [Kits -> [tx : Nodes, rx : Nodes]]
  BY SetUpThread DEF SetUp, SetUpSteps, KitShape, KitTypeOK
<1>2. c.node \in Nodes /\ c.kit \in Kits /\ c.role \in {"work", "connect"}
  <2>1. Shape(c) /\ c.kit \in Kits \cup {NoKit} /\ c.role \in Roles
    BY <1>1, RunningIsCommand, CommandFields DEF KitShape
  <2> QED BY <1>1, <2>1 DEF Shape, SetUpSteps, Roles
<1>3. c.alone => ChannelOf(c) /\ c.kit \in opened
  <2>1. c.alone => ChannelOf(c)
    BY <1>1 DEF KitChannelOk, AloneOnChannel
  <2>2. c.role = "connect" => c.kit \in opened
    BY <1>1, <1>2 DEF OwnDevice, Connecting, Kits, NoKit
  <2> QED BY <1>2, <2>1, <2>2 DEF ChannelOf
<1>4. CASE SetTx(s)
  <2>1. /\ c.step = "tx" /\ MovedTo(s, "rx", c.kit, c.node, c.ask, c.to, c.from)
        /\ ids' = [ids EXCEPT ![c.kit].tx = c.node] /\ opened' = opened
    BY <1>1, <1>4, SetUpThread DEF SetTx, driverVars
  <2>2. ids'[c.kit].tx = c.node
    BY <1>1, <1>2, <2>1, SetIds
  <2>3. c.alone => ChannelOf(thread[s])'
    BY <1>3, <2>1, <2>2 DEF ChannelOf, MovedTo, SetFrom
  <2> QED BY <1>1, <2>1, <2>3, GoesOnAlone
<1>5. CASE SetRx(s)
  <2>1. /\ c.step = "rx" /\ MovedTo(s, "clear", c.kit, c.node, c.ask, c.to, c.from)
        /\ ids' = [ids EXCEPT ![c.kit].rx = c.node] /\ opened' = opened
    BY <1>1, <1>5, SetUpThread DEF SetRx, driverVars
  <2>2. ids'[c.kit].rx = c.node /\ ids'[c.kit].tx = ids[c.kit].tx
    BY <1>1, <1>2, <2>1, SetIds
  <2>3. c.alone => ChannelOf(thread[s])'
    BY <1>3, <2>1, <2>2 DEF ChannelOf, MovedTo, SetFrom
  <2> QED BY <1>1, <2>1, <2>3, GoesOnAlone
<1>6. CASE ClearFilters(s)
  <2>1. /\ c.step = "clear" /\ MovedTo(s, "filter", c.kit, c.node, c.ask, c.to, c.from)
        /\ UNCHANGED <<opened, ids>>
        /\ \E reaches \in Reaches(c.kit) : filters' = IF reaches THEN {} ELSE filters
    BY <1>1, <1>6, SetUpThread DEF ClearFilters
  <2>2. c.alone => filters' = {}
    <3>1. PICK reaches \in Reaches(c.kit) : filters' = IF reaches THEN {} ELSE filters
      BY <2>1
    <3>2. c.alone => reaches = TRUE
      BY <1>3, OpenReaches
    <3> QED BY <3>1, <3>2
  <2>3. c.alone => ChannelOf(thread[s])'
    BY <1>3, <2>1, <2>2 DEF ChannelOf, MovedTo, SetFrom
  <2> QED BY <1>1, <2>1, <2>3, GoesOnAlone
<1>7. CASE StartFilter(s)
  <2>1. /\ c.step = "filter" /\ MovedTo(s, "flush", c.kit, c.node, c.ask, c.to, c.from)
        /\ UNCHANGED <<opened, ids>>
        /\ \E reaches \in Reaches(c.kit) :
             filters' = IF reaches THEN filters \cup {ids[c.kit].rx} ELSE filters
    BY <1>1, <1>7, SetUpThread DEF StartFilter
  <2>2. c.alone => filters' = {c.node}
    <3>1. PICK reaches \in Reaches(c.kit) :
            filters' = IF reaches THEN filters \cup {ids[c.kit].rx} ELSE filters
      BY <2>1
    <3>2. c.alone => reaches = TRUE
      BY <1>3, OpenReaches
    <3>3. c.alone => filters = {} /\ ids[c.kit].rx = c.node
      BY <1>3, <2>1 DEF ChannelOf, SetFrom
    <3> QED BY <3>1, <3>2, <3>3
  <2>3. c.alone => ChannelOf(thread[s])'
    BY <1>3, <2>1, <2>2 DEF ChannelOf, MovedTo, SetFrom
  <2> QED BY <1>1, <2>1, <2>3, GoesOnAlone
<1>8. CASE Flush(s)
  <2> DEFINE st == IF c.role = "connect" THEN "publish" ELSE "ready"
  <2>1. /\ c.step = "flush" /\ MovedTo(s, st, c.kit, c.node, c.ask, c.to, c.from)
        /\ UNCHANGED <<opened, ids, filters>>
        /\ \E reaches \in Reaches(c.kit) : buffer' = IF reaches THEN <<>> ELSE buffer
    BY <1>1, <1>8, SetUpThread DEF Flush
  <2>2. c.alone => DOMAIN (buffer') = {}
    <3>1. PICK reaches \in Reaches(c.kit) : buffer' = IF reaches THEN <<>> ELSE buffer
      BY <2>1
    <3>2. c.alone => reaches = TRUE
      BY <1>3, OpenReaches
    <3> QED BY <3>1, <3>2
  <2>3. st \in {"publish", "ready"}
    OBVIOUS
  <2> HIDE DEF st
  <2>4. c.alone => ChannelOf(thread[s])'
    BY <1>3, <2>1, <2>2, <2>3 DEF ChannelOf, MovedTo, SetFrom
  <2> QED BY <1>1, <2>1, <2>4, GoesOnAlone
<1> QED BY <1>4, <1>5, <1>6, <1>7, <1>8 DEF SetUp

LEMMA ExchangeKeepsChannel ==
  ASSUME KitShape, KitChannelOk, NEW s \in Sockets, Exchange(s)
  PROVE  KitChannelOk'
<1> DEFINE c == thread[s]
<1>1. c.step \in {"pick", "ready", "wait", "took"}
  BY DEF Exchange, OpenConnection, SendRequest, TakeAnswer, EndExchange,
         CloseConnection, EndCommand
<1>2. s \in Running /\ KitTypeOK /\ Shape(c) /\ c.role \in Roles /\ c.kit \in Kits \cup {NoKit}
  BY <1>1, RunningByStep, CommandFields DEF KitShape
<1>3. c.role = "work" /\ c.kit \in Kits
  BY <1>1, <1>2 DEF Shape, SetUpSteps, Roles
<1>4. c.alone => ChannelOf(c)
  BY <1>2 DEF KitChannelOk, AloneOnChannel
<1>5. opened' = opened /\ ids' = ids /\ filters' = filters
  BY DEF Exchange, OpenConnection, SendRequest, TakeAnswer, EndExchange,
         CloseConnection, EndCommand, driverVars
<1>6. ASSUME NEW node \in Nodes, OpenConnection(s, node) PROVE KitChannelOk'
  <2>1. MovedTo(s, "tx", c.kit, node, c.ask, c.to, c.from)
    BY <1>2, <1>6, ExchangeThread
  <2>2. c.alone => ChannelOf(thread[s])'
    BY <1>3, <1>4, <1>5, <2>1 DEF ChannelOf, MovedTo, SetFrom
  <2> QED BY <1>2, <2>1, <2>2, GoesOnAlone
<1>7. ASSUME NEW ask \in Asks, SendRequest(s, ask) PROVE KitChannelOk'
  <2>1. /\ c.step = "ready" /\ buffer' = buffer
        /\ MovedTo(s, "wait", c.kit, c.node, ask, ids[c.kit].tx, c.from)
    BY <1>2, <1>3, <1>7, ExchangeThread DEF SendRequest
  <2>2. c.alone => ChannelOf(thread[s])'
    BY <1>3, <1>4, <1>5, <2>1 DEF ChannelOf, MovedTo, SetFrom
  <2> QED BY <1>2, <2>1, <2>2, GoesOnAlone
<1>8. ASSUME TakeAnswer(s) PROVE KitChannelOk'
  <2>1. /\ c.step = "wait" /\ buffer # <<>> /\ buffer' = Tail(buffer)
        /\ \/ MovedTo(s, "took", c.kit, c.node, c.ask, c.to, Head(buffer).from)
           \/ MovedTo(s, "ready", c.kit, c.node, NoAsk, NoNode, NoNode)
    BY <1>2, <1>8, ExchangeThread DEF TakeAnswer
  <2>2. /\ buffer \in Seq(Answer) /\ Head(buffer) = buffer[1] /\ 1 \in DOMAIN buffer
        /\ \A i \in DOMAIN (buffer') : i + 1 \in DOMAIN buffer /\ buffer'[i] = buffer[i + 1]
    <3>1. buffer \in Seq(Answer)
      BY <1>2 DEF KitTypeOK
    <3>2. /\ Head(buffer) = buffer[1] /\ Len(Tail(buffer)) = Len(buffer) - 1
          /\ Tail(buffer) \in Seq(Answer) /\ Len(buffer) \in Nat /\ Len(buffer) # 0
          /\ \A i \in 1 .. Len(Tail(buffer)) : Tail(buffer)[i] = buffer[i + 1]
      BY <2>1, <3>1, HeadTailProperties, LenProperties, EmptySeq
    <3>3. DOMAIN buffer = 1 .. Len(buffer) /\ DOMAIN Tail(buffer) = 1 .. Len(Tail(buffer))
      BY <3>1, <3>2, LenProperties
    <3> QED BY <2>1, <3>1, <3>2, <3>3
  <2>3. c.alone => /\ \A i \in DOMAIN (buffer') : buffer'[i].from = c.node
                   /\ Head(buffer).from = c.node
    BY <1>4, <2>1, <2>2 DEF ChannelOf
  <2>4. CASE MovedTo(s, "took", c.kit, c.node, c.ask, c.to, Head(buffer).from)
    <3>1. c.alone => ChannelOf(thread[s])'
      BY <1>3, <1>4, <1>5, <2>1, <2>3, <2>4 DEF ChannelOf, MovedTo, SetFrom
    <3> QED BY <1>2, <2>4, <3>1, GoesOnAlone
  <2>5. CASE MovedTo(s, "ready", c.kit, c.node, NoAsk, NoNode, NoNode)
    <3>1. c.alone => ChannelOf(thread[s])'
      BY <1>3, <1>4, <1>5, <2>1, <2>3, <2>5 DEF ChannelOf, MovedTo, SetFrom
    <3> QED BY <1>2, <2>5, <3>1, GoesOnAlone
  <2> QED BY <2>1, <2>4, <2>5
<1>9. ASSUME EndExchange(s) PROVE KitChannelOk'
  <2>1. /\ c.step \in {"wait", "took"} /\ buffer' = buffer
        /\ MovedTo(s, "ready", c.kit, c.node, NoAsk, NoNode, NoNode)
    BY <1>2, <1>9, ExchangeThread DEF EndExchange, driverVars
  <2>2. c.alone => ChannelOf(thread[s])'
    BY <1>3, <1>4, <1>5, <2>1 DEF ChannelOf, MovedTo, SetFrom
  <2> QED BY <1>2, <2>1, <2>2, GoesOnAlone
<1>10. ASSUME CloseConnection(s) PROVE KitChannelOk'
  <2>1. MovedTo(s, "pick", c.kit, NoNode, c.ask, c.to, c.from)
    BY <1>2, <1>10, ExchangeThread
  <2>2. c.alone => ChannelOf(thread[s])'
    BY <1>3, <1>4, <1>5, <2>1 DEF ChannelOf, MovedTo, SetFrom
  <2> QED BY <1>2, <2>1, <2>2, GoesOnAlone
<1>11. ASSUME EndCommand(s) PROVE KitChannelOk'
  BY <1>2, <1>11, ExchangeThread, OverLeavesNoneAlone
<1> QED BY <1>6, <1>7, <1>8, <1>9, <1>10, <1>11 DEF Exchange

LEMMA ReceiveKeepsChannel ==
  ASSUME KitShape, HeldIsOpen, KitChannelOk,
         NEW s \in Sockets, NEW role \in Roles, Receive(s, role)
  PROVE  KitChannelOk'
<1>1. /\ s \notin Running /\ Running' = Running \cup {s}
      /\ thread'[s].role = role
      /\ thread'[s].step = IF role = "work" THEN "pick" ELSE "close"
      /\ thread'[s].kit = IF role = "work" THEN passthru ELSE NoKit
      /\ thread'[s].alone = (Running = {})
      /\ \A q \in Running : ~thread'[q].alone
  BY ReceiveThread DEF KitShape
<1>2. /\ role = "work" => passthru # NoKit
      /\ UNCHANGED <<opened, ids, filters, buffer>>
  BY DEF Receive, driverVars
<1>3. \A q \in Running' : thread'[q].alone => q = s /\ Running = {}
  BY <1>1
<1>4. AloneRuns'
  BY <1>1, <1>3 DEF AloneRuns
<1>5. Running = {} /\ role = "work" => passthru \in opened
  BY <1>2 DEF HeldIsOpen
<1>6. Running = {} => ChannelOf(thread[s])'
  BY <1>1, <1>2, <1>5 DEF ChannelOf, SetFrom
<1>7. AloneOnChannel'
  BY <1>3, <1>6 DEF AloneOnChannel
<1> QED BY <1>4, <1>7 DEF KitChannelOk

LEMMA ReplacingKeepsChannel ==
  ASSUME KitShape, OwnDevice, KitChannelOk, NEW s \in Sockets,
         \/ CloseKit(s) \/ ForgetKit(s) \/ Publish(s)
         \/ \E ok \in BOOLEAN : OpenKit(s, ok) \/ OpenChannel(s, ok)
  PROVE  KitChannelOk'
<1> DEFINE c == thread[s]
<1>1. c.step \in {"close", "forget", "open", "channel", "publish"}
  BY DEF CloseKit, ForgetKit, Publish, OpenKit, OpenChannel
<1>2. s \in Running /\ KitTypeOK /\ c.role # "work"
  BY <1>1, RunningByStep DEF KitShape, Shape, SetUpSteps
<1>3. ASSUME NEW st \in {"forget", "open", "channel", "tx"},
             NEW kit, NEW node, NEW ask, NEW to, NEW from,
             MovedTo(s, st, kit, node, ask, to, from)
      PROVE  KitChannelOk'
  <2>1. ChannelOf(thread[s])'
    BY <1>2, <1>3 DEF ChannelOf, MovedTo, SetFrom
  <2> QED BY <1>2, <1>3, <2>1, GoesOnAlone
<1>4. Over(s) => KitChannelOk'
  BY <1>2, OverLeavesNoneAlone
<1>5. ASSUME CloseKit(s) \/ ForgetKit(s) \/ Publish(s) PROVE KitChannelOk'
  BY <1>2, <1>3, <1>4, <1>5, ReplaceThread
<1>6. ASSUME NEW ok \in BOOLEAN, OpenKit(s, ok) \/ OpenChannel(s, ok) PROVE KitChannelOk'
  <2>1. OpenKit(s, TRUE) \/ OpenKit(s, FALSE) \/ OpenChannel(s, TRUE) \/ OpenChannel(s, FALSE)
    BY <1>6
  <2> QED BY <1>2, <1>3, <1>4, <2>1, ReplaceThread
<1> QED BY <1>5, <1>6

LEMMA ArrivalKeepsChannel ==
  ASSUME KitShape, KitChannelOk, NEW answer \in onBus, NEW dark \in BOOLEAN,
         Arrives(answer, dark)
  PROVE  KitChannelOk'
<1>1. /\ KitTypeOK /\ buffer \in Seq(Answer) /\ answer \in Answer
      /\ UNCHANGED <<thread, opened, ids, filters>>
      /\ \/ buffer' = buffer
         \/ answer.from \in filters /\ buffer' = Append(buffer, answer)
  BY DEF Arrives, KitShape, KitTypeOK
<1>2. Running' = Running
  BY <1>1 DEF Running
<1>3. \A i \in DOMAIN (buffer') :
        \/ i \in DOMAIN buffer /\ buffer'[i] = buffer[i]
        \/ buffer'[i] = answer /\ answer.from \in filters
  BY <1>1, AppendProperties, LenProperties
<1>4. ASSUME NEW q \in Running, ChannelOf(thread[q]) PROVE ChannelOf(thread[q])'
  BY <1>1, <1>3, <1>4 DEF ChannelOf, SetFrom
<1>5. AloneRuns' /\ AloneOnChannel'
  BY <1>1, <1>2, <1>4 DEF KitChannelOk, AloneRuns, AloneOnChannel
<1> QED BY <1>5 DEF KitChannelOk

LEMMA KitChannelStep ==
  ASSUME KitInv, [KitNext]_kitVars
  PROVE  KitChannelOk'
<1>1. KitShape /\ OwnDevice /\ HeldIsOpen /\ KitChannelOk
  BY DEF KitInv, KitDevices
<1>2. CASE UNCHANGED kitVars
  BY <1>1, <1>2 DEF kitVars, driverVars, KitChannelOk, AloneRuns, AloneOnChannel,
     ChannelOf, Running
<1>3. CASE KitNext
  <2>1. ASSUME NEW s \in Sockets, NEW role \in Roles, Receive(s, role) PROVE KitChannelOk'
    BY <1>1, <2>1, ReceiveKeepsChannel
  <2>2. ASSUME NEW s \in Sockets, CloseKit(s) \/ ForgetKit(s) \/ Publish(s)
        PROVE  KitChannelOk'
    BY <1>1, <2>2, ReplacingKeepsChannel
  <2>3. ASSUME NEW s \in Sockets, SetUp(s) PROVE KitChannelOk'
    BY <1>1, <2>3, SetUpKeepsChannel
  <2>4. ASSUME NEW s \in Sockets, Exchange(s) PROVE KitChannelOk'
    BY <1>1, <2>4, ExchangeKeepsChannel
  <2>5. ASSUME NEW s \in Sockets, NEW ok \in BOOLEAN, OpenKit(s, ok) \/ OpenChannel(s, ok)
        PROVE  KitChannelOk'
    BY <1>1, <2>5, ReplacingKeepsChannel
  <2>6. ASSUME NEW answer \in onBus, NEW dark \in BOOLEAN, Arrives(answer, dark)
        PROVE  KitChannelOk'
    BY <1>1, <2>6, ArrivalKeepsChannel
  <2> QED BY <1>3, <2>1, <2>2, <2>3, <2>4, <2>5, <2>6 DEF KitNext
<1> QED BY <1>2, <1>3

LEMMA KitInvariant == KitSpec => []KitInv
<1>1. KitInit => KitInv
  BY KitStarts
<1>2. KitInv /\ [KitNext]_kitVars => KitInv'
  BY KitShapeStep, KitDevicesStep, KitChannelStep DEF KitInv, KitDevices
<1> QED BY <1>1, <1>2, PTL DEF KitSpec

(* A command that had the kit to itself asks the node it is connected to   *)
(* and takes no other node's answer, for every number of modules, sockets  *)
(* and commands and however late the answers to earlier ones come          *)
(* (set_can_ids, specific_send, specific_wait_frame).                      *)
THEOREM AnswersOfItsNode == KitSpec => []ExchangeOfItsNode
<1>1. KitInv => ExchangeOfItsNode
  BY DEF KitInv, KitChannelOk, AloneOnChannel, ChannelOf, ExchangeOfItsNode
<1> QED BY <1>1, KitInvariant, PTL

(* A device that is open can be closed again, but for two connects or      *)
(* disconnects at once and for a PassThruConnect that failed, for every    *)
(* number of sockets and of devices opened (WorkerState.connect).          *)
THEOREM OpenKitIsReachable == KitSpec => []KitStaysReachable
<1>1. KitInv => KitStaysReachable
  BY DEF KitInv, KitDevices
<1> QED BY <1>1, KitInvariant, PTL

-----------------------------------------------------------------------------
(* The screen and the parked jobs.                                         *)

VinsOnce(rows) == \A i, j \in DOMAIN rows : rows[i].vin = rows[j].vin => i = j

In(row, rows) == \E i \in DOMAIN rows : rows[i] = row

LEMMA WithoutRows ==
  ASSUME NEW rows \in Seq(Stall), NEW vin, VinsOnce(rows)
  PROVE  LET w == Without(rows, vin) IN
         /\ w \in Seq(Stall) /\ Len(w) <= Len(rows) /\ VinsOnce(w)
         /\ \A k \in DOMAIN w : w[k].vin # vin /\ In(w[k], rows)
         /\ \A i \in DOMAIN rows : rows[i].vin # vin => In(rows[i], w)
<1> DEFINE gone == {i \in DOMAIN rows : rows[i].vin = vin}
           w == Dropping(rows, gone)
<1>1. /\ w \in Seq(Stall) /\ Len(w) <= Len(rows)
      /\ \E g : KeptPlaces(rows, gone, g)
  BY DroppingKeeps
<1>2. PICK g : KeptPlaces(rows, gone, g)
  BY <1>1
<1> HIDE DEF w
<1>3. /\ g \in [DOMAIN w -> DOMAIN rows \ gone]
      /\ \A k \in DOMAIN w : w[k] = rows[g[k]]
      /\ \A k, l \in DOMAIN w : g[k] = g[l] => k = l
      /\ \A i \in DOMAIN rows \ gone : \E k \in DOMAIN w : g[k] = i
  BY <1>2 DEF KeptPlaces, w
<1>4. VinsOnce(w)
  BY <1>3 DEF VinsOnce
<1>5. \A k \in DOMAIN w : w[k].vin # vin /\ In(w[k], rows)
  BY <1>3 DEF In
<1>6. \A i \in DOMAIN rows : rows[i].vin # vin => In(rows[i], w)
  BY <1>3 DEF In
<1> QED BY <1>1, <1>4, <1>5, <1>6 DEF Without, w

LEMMA UpsertedRows ==
  ASSUME NEW rows \in Seq(Stall), VinsOnce(rows), NEW row \in Stall
  PROVE  LET u == Upserted(rows, row) IN
         /\ u \in Seq(Stall) /\ Len(u) <= MaxStalls /\ VinsOnce(u) /\ In(row, u)
         /\ \A k \in DOMAIN u : u[k] = row \/ In(u[k], rows)
<1> DEFINE w == Without(rows, row.vin)
           t == <<row>> \o w
           n == IF Len(t) < MaxStalls THEN Len(t) ELSE MaxStalls
           u == SubSeq(t, 1, n)
<1>1. /\ w \in Seq(Stall) /\ VinsOnce(w)
      /\ \A k \in DOMAIN w : w[k].vin # row.vin /\ In(w[k], rows)
  BY WithoutRows
<1> HIDE DEF w
<1>2. /\ t \in Seq(Stall) /\ Len(t) = Len(w) + 1 /\ t[1] = row
      /\ \A i \in 1 .. Len(w) : t[i + 1] = w[i]
  BY <1>1, ConcatProperties
<1>3. Len(w) \in Nat /\ DOMAIN w = 1 .. Len(w) /\ DOMAIN t = 1 .. Len(t)
  BY <1>1, <1>2, LenProperties
<1> HIDE DEF t
<1>4. \A k \in DOMAIN t : k = 1 \/ (k - 1 \in DOMAIN w /\ t[k] = w[k - 1])
  BY <1>2, <1>3
<1>5. VinsOnce(t)
  <2> SUFFICES ASSUME NEW i \in DOMAIN t, NEW j \in DOMAIN t, t[i].vin = t[j].vin
               PROVE  i = j
    BY DEF VinsOnce
  <2>1. CASE i = 1
    BY <1>1, <1>2, <1>4, <2>1
  <2>2. CASE j = 1
    BY <1>1, <1>2, <1>4, <2>2
  <2>3. CASE i # 1 /\ j # 1
    <3>1. i - 1 = j - 1
      BY <1>1, <1>4, <2>3 DEF VinsOnce
    <3> QED BY <1>3, <3>1
  <2> QED BY <2>1, <2>2, <2>3
<1>6. n \in 1 .. Len(t) /\ n <= MaxStalls
  BY <1>2, <1>3, BayBoundAssumption
<1> HIDE DEF n
<1>7. /\ u \in Seq(Stall) /\ Len(u) = n
      /\ \A i \in 1 .. n : u[i] = t[i]
  <2>1. u = [i \in 1 .. n |-> t[i]]
    BY <1>2, <1>6
  <2> QED BY <1>2, <1>3, <1>6, <2>1
<1> HIDE DEF u
<1>8. /\ \A k \in DOMAIN u : k \in DOMAIN t /\ u[k] = t[k]
      /\ 1 \in DOMAIN u
  BY <1>3, <1>6, <1>7
<1>9. VinsOnce(u)
  BY <1>5, <1>8 DEF VinsOnce
<1>10. In(row, u)
  BY <1>2, <1>8 DEF In
<1>11. \A k \in DOMAIN u : u[k] = row \/ In(u[k], rows)
  BY <1>1, <1>2, <1>4, <1>8
<1> QED BY <1>6, <1>7, <1>9, <1>10, <1>11 DEF Upserted, Cut, w, t, n, u

LEMMA ParkedRows ==
  ASSUME BayTypeOK, NEW vin \in Vins, NEW work \in Work
  PROVE  LET p == Parked(vin, work) IN
         /\ p \in Seq(Stall) /\ Len(p) <= MaxStalls /\ VinsOnce(p)
         /\ \A k \in DOMAIN p :
              \/ In(p[k], stalls)
              \/ p[k] = [vin |-> vin, work |-> work]
         /\ vin # None /\ Dirty(work) => In([vin |-> vin, work |-> work], p)
<1>1. stalls \in Seq(Stall) /\ Len(stalls) <= MaxStalls /\ VinsOnce(stalls)
  BY DEF BayTypeOK, VinsOnce
<1>2. CASE vin # None /\ Dirty(work)
  <2>1. [vin |-> vin, work |-> work] \in Stall
    BY <1>2 DEF Stall, Vins
  <2>2. Parked(vin, work) = Upserted(stalls, [vin |-> vin, work |-> work])
    BY <1>2 DEF Parked
  <2> QED BY <1>1, <2>1, <2>2, UpsertedRows
<1>3. CASE ~(vin # None /\ Dirty(work))
  BY <1>1, <1>3 DEF Parked, In
<1> QED BY <1>2, <1>3

LEMMA Records ==
  /\ NoScan \in Scan /\ NoWork \in Work
  /\ \A w \in Work : w.scan \in Scan /\ w.session \in Vins /\ w.book \in Vins
  /\ \A x \in Scan : x.of \in Vins /\ x.said \in Vins
  /\ \A row \in Stall : row.vin \in Cars /\ row.work \in Work
<1>1. NoScan \in Scan
  BY DEF NoScan, Scan, Vins
<1> QED BY <1>1 DEF NoWork, Work, Scan, Stall, Vins

LEMMA HandlerFields ==
  ASSUME NEW h \in Handler
  PROVE  /\ h.vin \in Vins
         /\ h.kind = "read" => h.work \in Work
         /\ h.kind = "clear" => h.scan \in Scan
  BY DEF Handler

LEMMA CarsOnly ==
  /\ CarsOf(NoWork) = {}
  /\ \A w \in Work : CarsOf(w) \subseteq Cars
  /\ \A w \in Work : ~Dirty(w) => w = NoWork
  /\ \A w \in Work, car \in Cars : w.scan.of = car => car \in CarsOf(w) /\ Dirty(w)
<1>1. CarsOf(NoWork) = {}
  BY DEF CarsOf, NoWork, NoScan
<1>2. ASSUME NEW w \in Work PROVE CarsOf(w) \subseteq Cars
  BY Records DEF CarsOf, Vins
<1>3. ASSUME NEW w \in Work, NEW car \in Cars, w.scan.of = car
      PROVE  car \in CarsOf(w) /\ Dirty(w)
  BY <1>3, NoneAssumption DEF CarsOf, Dirty, NoWork, NoScan
<1> QED BY <1>1, <1>2, <1>3 DEF Dirty

LEMMA OneCarAtMost ==
  ASSUME NEW v, NEW S, S \subseteq {v} PROVE Cardinality(S) <= 1
<1>1. S = {} \/ S = {v}
  OBVIOUS
<1>2. Cardinality({}) = 0 /\ Cardinality({v}) = 1
  BY FS_EmptySet, FS_Singleton
<1> QED BY <1>1, <1>2

(* The visit of a car is in a list of parked jobs.                         *)
Visit(car, rows) == \E i \in DOMAIN rows : rows[i].vin = car /\ rows[i].work.scan.of = car
OwnRows(rows) == \A i \in DOMAIN rows : CarsOf(rows[i].work) \subseteq {rows[i].vin}

LEMMA VisitIsIn ==
  ASSUME NEW car, NEW rows
  PROVE  Visit(car, rows) <=> \E row : In(row, rows) /\ row.vin = car /\ row.work.scan.of = car
  BY DEF Visit, In

(* The work on the screen is parked under a VIN that is the car of all of  *)
(* it: no visit is lost but those of the parked jobs that are cut.         *)
LEMMA ParkingTheScreen ==
  ASSUME BayTypeOK, WorkKept, OneCarPerVisit, ways = {},
         NEW v \in Vins, CarsOf(screen) \subseteq {v}, v = None => ~Dirty(screen)
  PROVE  LET p == Parked(v, screen) IN
         /\ p \in Seq(Stall) /\ Len(p) <= MaxStalls /\ VinsOnce(p) /\ OwnRows(p)
         /\ \A car \in scanned :
              \/ screen.scan.of = car /\ v = car /\ In([vin |-> v, work |-> screen], p)
              \/ \E i \in DOMAIN stalls : stalls[i].vin = car /\ stalls[i].work.scan.of = car
<1> DEFINE p == Parked(v, screen)
           mine == [vin |-> v, work |-> screen]
<1>1. screen \in Work /\ scanned \subseteq Cars
  BY Records DEF BayTypeOK
<1>2. /\ p \in Seq(Stall) /\ Len(p) <= MaxStalls /\ VinsOnce(p)
      /\ \A k \in DOMAIN p : In(p[k], stalls) \/ p[k] = mine
      /\ v # None /\ Dirty(screen) => In(mine, p)
  BY <1>1, ParkedRows
<1>3. OwnRows(stalls)
  BY DEF OneCarPerVisit, OwnRows
<1>4. OwnRows(p)
  <2>1. mine.vin = v /\ mine.work = screen
    OBVIOUS
  <2> HIDE DEF p, mine
  <2> QED BY <1>2, <1>3, <2>1 DEF OwnRows, In
<1>5. ASSUME NEW car \in scanned, screen.scan.of = car
      PROVE  v = car /\ In(mine, p)
  <2>1. car \in CarsOf(screen) /\ Dirty(screen)
    BY <1>1, <1>5, CarsOnly
  <2>2. v = car /\ v # None
    BY <1>1, <2>1, NoneAssumption
  <2> QED BY <1>2, <2>1, <2>2
<1>6. \A car \in scanned :
        \/ screen.scan.of = car
        \/ \E i \in DOMAIN stalls : stalls[i].vin = car /\ stalls[i].work.scan.of = car
  BY DEF WorkKept
<1> HIDE DEF p, mine
<1> QED BY <1>2, <1>4, <1>5, <1>6 DEF p, mine

LEMMA NothingTypedOver ==
  ASSUME BayTypeOK, TypedOver = {}, LeftUnnamed(field, screen) = {}
  PROVE  field \in Vins /\ CarsOf(screen) \subseteq {field} /\ (field = None => ~Dirty(screen))
<1>1. field \in Vins /\ screen \in Work
  BY DEF BayTypeOK
<1>2. field = None => ~Dirty(screen)
  BY DEF LeftUnnamed
<1>3. field = None => CarsOf(screen) = {}
  BY <1>1, <1>2, CarsOnly
<1>4. field # None => CarsOf(screen) \subseteq {field}
  BY DEF TypedOver
<1> QED BY <1>1, <1>2, <1>3, <1>4

LEMMA NotPushedOut ==
  ASSUME NEW rows, PushedOut(rows) = {}
  PROVE  \A i \in DOMAIN stalls : In(stalls[i], rows)
  BY DEF PushedOut, In

BayInv == BayTypeOK /\ WorkKept /\ OneCarPerVisit

(* The whole job goes to the parked ones, and the screen is empty.         *)
LEMMA JobIsLeft ==
  ASSUME BayInv, ways = {},
         NEW v \in Vins, CarsOf(screen) \subseteq {v}, v = None => ~Dirty(screen),
         stalls' = Parked(v, screen), PushedOut(stalls') = {},
         screen' = NoWork, scanned' = scanned
  PROVE  WorkKept' /\ OneCarPerVisit'
<1> DEFINE p == Parked(v, screen)
           mine == [vin |-> v, work |-> screen]
<1>1. /\ OwnRows(p)
      /\ \A car \in scanned :
           \/ screen.scan.of = car /\ v = car /\ In(mine, p)
           \/ \E i \in DOMAIN stalls : stalls[i].vin = car /\ stalls[i].work.scan.of = car
  BY ParkingTheScreen DEF BayInv
<1>2. mine.vin = v /\ mine.work = screen
  OBVIOUS
<1>3. \A i \in DOMAIN stalls : In(stalls[i], p)
  BY NotPushedOut
<1> HIDE DEF p, mine
<1>4. \A car \in scanned : Visit(car, p)
  BY <1>1, <1>2, <1>3, VisitIsIn
<1>5. stalls' = p
  BY DEF p
<1>6. WorkKept'
  BY <1>4, <1>5 DEF WorkKept, Visit
<1>7. OneCarPerVisit'
  <2>1. Cardinality(CarsOf(screen')) <= 1
    BY CarsOnly, OneCarAtMost
  <2> QED BY <1>1, <1>5, <2>1 DEF OneCarPerVisit, OwnRows, CarsOf
<1> QED BY <1>6, <1>7

(* And a parked job comes to the screen in its place.                      *)
LEMMA JobIsChanged ==
  ASSUME BayInv, ways = {},
         NEW v \in Vins, CarsOf(screen) \subseteq {v}, v = None => ~Dirty(screen),
         NEW row \in Stall, v # row.vin, CarsOf(row.work) \subseteq {row.vin},
         \A i \in DOMAIN stalls : stalls[i] = row \/ In(stalls[i], Parked(v, screen)),
         \A i \in DOMAIN stalls : stalls[i].vin = row.vin => stalls[i] = row,
         stalls' = Without(Parked(v, screen), row.vin),
         screen' = row.work, scanned' = scanned
  PROVE  WorkKept' /\ OneCarPerVisit'
<1> DEFINE p == Parked(v, screen)
           mine == [vin |-> v, work |-> screen]
           w == Without(p, row.vin)
<1>1. /\ p \in Seq(Stall) /\ VinsOnce(p) /\ OwnRows(p)
      /\ \A car \in scanned :
           \/ screen.scan.of = car /\ v = car /\ In(mine, p)
           \/ \E i \in DOMAIN stalls : stalls[i].vin = car /\ stalls[i].work.scan.of = car
  BY ParkingTheScreen DEF BayInv
<1>2. mine.vin = v /\ mine.work = screen
  OBVIOUS
<1>3. \A i \in DOMAIN stalls : stalls[i] = row \/ In(stalls[i], p)
  OBVIOUS
<1>4. stalls' = w
  OBVIOUS
<1> HIDE DEF p, mine
<1>5. /\ \A k \in DOMAIN w : In(w[k], p)
      /\ \A i \in DOMAIN p : p[i].vin # row.vin => In(p[i], w)
  BY <1>1, WithoutRows
<1> HIDE DEF w
<1>6. ASSUME NEW car \in scanned PROVE row.work.scan.of = car \/ Visit(car, w)
  <2>1. CASE screen.scan.of = car /\ v = car /\ In(mine, p)
    BY <1>2, <1>5, <2>1, VisitIsIn DEF In
  <2>2. CASE \E i \in DOMAIN stalls : stalls[i].vin = car /\ stalls[i].work.scan.of = car
    <3>1. PICK i \in DOMAIN stalls : stalls[i].vin = car /\ stalls[i].work.scan.of = car
      BY <2>2
    <3>2. CASE stalls[i] = row
      BY <3>1, <3>2
    <3>3. CASE stalls[i] # row
      <4>1. In(stalls[i], p) /\ stalls[i].vin # row.vin
        BY <1>3, <3>3
      <4>2. In(stalls[i], w)
        BY <1>5, <4>1 DEF In
      <4> QED BY <3>1, <4>2, VisitIsIn
    <3> QED BY <3>2, <3>3
  <2> QED BY <1>1, <2>1, <2>2
<1>7. WorkKept'
  BY <1>4, <1>6 DEF WorkKept, Visit
<1>8. OneCarPerVisit'
  <2>1. Cardinality(CarsOf(screen')) <= 1
    BY OneCarAtMost
  <2>2. OwnRows(w)
    BY <1>1, <1>5 DEF OwnRows, In
  <2> QED BY <1>4, <2>1, <2>2 DEF OneCarPerVisit, OwnRows, CarsOf
<1> QED BY <1>7, <1>8

(* An answer about the car of the job on the screen comes to that job.     *)
LEMMA AnswerToItsJob ==
  ASSUME BayInv, ways = {}, NEW car \in Vins, CarsOf(screen') \subseteq {car},
         \A one \in scanned' : one \in scanned \/ screen'.scan.of = one,
         \A one \in scanned : screen.scan.of = one => screen'.scan.of = one,
         stalls' = stalls
  PROVE  WorkKept' /\ OneCarPerVisit'
<1>1. WorkKept'
  BY DEF BayInv, WorkKept
<1>2. Cardinality(CarsOf(screen')) <= 1
  BY OneCarAtMost
<1>3. OneCarPerVisit'
  BY <1>2 DEF BayInv, OneCarPerVisit, CarsOf
<1> QED BY <1>1, <1>3

LEMMA NoteOnly ==
  ASSUME NEW what, Note(what), ways' = {} PROVE ways = {} /\ what = {}
  BY DEF Note

LEMMA ScreenMoves ==
  ASSUME BayInv, NewJob \/ LoadTypedVin \/ (\E inOrder \in BOOLEAN : Reload(inOrder)), ways' = {}
  PROVE  WorkKept' /\ OneCarPerVisit'
<1>1. /\ BayTypeOK /\ screen \in Work /\ field \in Vins
      /\ WorkKept /\ OneCarPerVisit /\ VinsOnce(stalls)
  BY DEF BayInv, BayTypeOK, VinsOnce
<1>2. ASSUME stalls' = Parked(field, screen), screen' = NoWork, scanned' = scanned,
             Note(TypedOver \cup LeftUnnamed(field, screen) \cup PushedOut(stalls'))
      PROVE  WorkKept' /\ OneCarPerVisit'
  <2>1. ways = {} /\ TypedOver = {} /\ LeftUnnamed(field, screen) = {} /\ PushedOut(stalls') = {}
    <3>1. TypedOver \cup LeftUnnamed(field, screen) \cup PushedOut(stalls') = {}
      BY <1>2, NoteOnly
    <3> QED BY <1>2, <3>1, NoteOnly
  <2>2. CarsOf(screen) \subseteq {field} /\ (field = None => ~Dirty(screen))
    BY <1>1, <2>1, NothingTypedOver
  <2> QED BY <1>1, <1>2, <2>1, <2>2, JobIsLeft
<1>3. ASSUME UNCHANGED <<screen, stalls, scanned>>, ways = {}
      PROVE  WorkKept' /\ OneCarPerVisit'
  BY <1>1, <1>3 DEF WorkKept, OneCarPerVisit, CarsOf
<1>4. CASE NewJob
  BY <1>2, <1>4 DEF NewJob
<1>5. ASSUME NEW inOrder \in BOOLEAN, Reload(inOrder) PROVE WorkKept' /\ OneCarPerVisit'
  <2>1. CASE inOrder
    BY <1>2, <1>5, <2>1 DEF Reload
  <2>2. CASE ~inOrder
    <3>1. /\ Note(IF Dirty(screen) THEN {"crash"} ELSE {})
          /\ stalls' = stalls /\ scanned' = scanned /\ screen' = NoWork
      BY <1>5, <2>2 DEF Reload
    <3>2. ways = {} /\ ~Dirty(screen)
      BY <3>1, NoteOnly
    <3>3. screen' = screen
      BY <1>1, <3>1, <3>2, CarsOnly
    <3> QED BY <1>3, <3>1, <3>2, <3>3
  <2> QED BY <2>1, <2>2
<1>6. CASE LoadTypedVin
  <2> DEFINE rest == Parked(Held, screen)
             found == {i \in DOMAIN rest : rest[i].vin = field}
  <2>1. Held \in Vins
    BY <1>1, Records DEF Held
  <2>2. CASE ~(Held # None /\ Held # field)
    <3>1. Note(TypedOver) /\ UNCHANGED <<screen, stalls, scanned>>
      BY <1>6, <2>2 DEF LoadTypedVin
    <3>2. ways = {}
      BY <3>1, NoteOnly
    <3> QED BY <1>3, <3>1, <3>2
  <2>3. CASE Held # None /\ Held # field
    <3>1. /\ Note((IF CarsOf(screen) = {Held} THEN {} ELSE {"typed_over"}) \cup PushedOut(rest))
          /\ \/ screen' = NoWork /\ stalls' = rest
             \/ \E i \in found :
                  /\ screen' = Applied(rest[i])
                  /\ stalls' = Without(rest, field)
          /\ scanned' = scanned
      BY <1>6, <2>3 DEF LoadTypedVin
    <3>2. ways = {} /\ CarsOf(screen) = {Held} /\ PushedOut(rest) = {}
      <4>1. (IF CarsOf(screen) = {Held} THEN {} ELSE {"typed_over"}) \cup PushedOut(rest) = {}
        BY <3>1, NoteOnly
      <4> QED BY <3>1, <4>1, NoteOnly
    <3>3. CASE screen' = NoWork /\ stalls' = rest
      BY <1>1, <2>1, <2>3, <3>1, <3>2, <3>3, JobIsLeft
    <3>4. ASSUME NEW i \in found, screen' = Applied(rest[i]), stalls' = Without(rest, field)
          PROVE  WorkKept' /\ OneCarPerVisit'
      <4>1. rest \in Seq(Stall) /\ VinsOnce(rest) /\ OwnRows(rest)
        BY <1>1, <2>1, <2>3, <3>2, ParkingTheScreen
      <4>2. \A j \in DOMAIN stalls : In(stalls[j], rest)
        BY <3>2, NotPushedOut
      <4>3. PICK row : row = rest[i]
        OBVIOUS
      <4> HIDE DEF rest
      <4>4. /\ row \in Stall /\ row.vin = field /\ CarsOf(row.work) \subseteq {row.vin}
            /\ \A j \in DOMAIN rest : rest[j].vin = field => rest[j] = row
        BY <3>4, <4>1, <4>3 DEF VinsOnce, OwnRows
      <4>5. \A j \in DOMAIN stalls : stalls[j].vin = row.vin => stalls[j] = row
        BY <4>2, <4>4 DEF In
      <4>6. screen' = row.work /\ stalls' = Without(rest, row.vin)
        BY <3>4, <4>3, <4>4 DEF Applied
      <4> QED BY <1>1, <2>1, <2>3, <3>1, <3>2, <4>2, <4>4, <4>5, <4>6, JobIsChanged DEF rest
    <3> QED BY <3>1, <3>3, <3>4
  <2> QED BY <2>2, <2>3
<1> QED BY <1>4, <1>5, <1>6

LEMMA FrontRow ==
  ASSUME NEW rows \in Seq(Stall), NEW row \in Stall
  PROVE  \A k \in DOMAIN (<<row>> \o rows) :
           (<<row>> \o rows)[k] = row \/ In((<<row>> \o rows)[k], rows)
<1> DEFINE t == <<row>> \o rows
<1>1. /\ t \in Seq(Stall) /\ Len(t) = Len(rows) + 1 /\ t[1] = row
      /\ \A i \in 1 .. Len(rows) : t[i + 1] = rows[i]
  BY ConcatProperties
<1>2. Len(rows) \in Nat /\ DOMAIN rows = 1 .. Len(rows) /\ DOMAIN t = 1 .. Len(t)
  BY <1>1, LenProperties
<1> HIDE DEF t
<1>3. \A k \in DOMAIN t : k = 1 \/ (k - 1 \in DOMAIN rows /\ t[k] = rows[k - 1])
  BY <1>1, <1>2
<1>4. \A k \in DOMAIN t : t[k] = row \/ In(t[k], rows)
  BY <1>1, <1>3 DEF In
<1> QED BY <1>4 DEF t

LEMMA ChipIsTaken ==
  ASSUME BayInv, NEW i \in DOMAIN stalls, ResumeStall(i), ways' = {}
  PROVE  WorkKept' /\ OneCarPerVisit'
<1> DEFINE row == stalls[i]
           rest == Parked(field, screen)
<1>1. /\ BayTypeOK /\ WorkKept /\ OneCarPerVisit /\ VinsOnce(stalls)
      /\ field \in Vins /\ screen \in Work /\ row \in Stall
  BY DEF BayInv, BayTypeOK, VinsOnce
<1>2. /\ row.vin # field /\ screen' = row.work /\ scanned' = scanned
      /\ stalls' = Without(rest, row.vin)
      /\ Note(TypedOver \cup LeftUnnamed(field, screen) \cup PushedOut(<<row>> \o rest))
  BY DEF ResumeStall, Applied
<1>3. /\ ways = {} /\ TypedOver = {} /\ LeftUnnamed(field, screen) = {}
      /\ PushedOut(<<row>> \o rest) = {}
  <2>1. TypedOver \cup LeftUnnamed(field, screen) \cup PushedOut(<<row>> \o rest) = {}
    BY <1>2, NoteOnly
  <2> QED BY <1>2, <2>1, NoteOnly
<1>4. CarsOf(screen) \subseteq {field} /\ (field = None => ~Dirty(screen))
  BY <1>1, <1>3, NothingTypedOver
<1>5. \A j \in DOMAIN stalls : stalls[j] = row \/ In(stalls[j], rest)
  <2>1. rest \in Seq(Stall)
    BY <1>1, ParkedRows
  <2>2. \A j \in DOMAIN stalls : In(stalls[j], <<row>> \o rest)
    BY <1>3, NotPushedOut
  <2> HIDE DEF row, rest
  <2> QED BY <1>1, <2>1, <2>2, FrontRow DEF In
<1>6. CarsOf(row.work) \subseteq {row.vin}
  BY <1>1, <1>3 DEF OneCarPerVisit
<1>7. \A j \in DOMAIN stalls : stalls[j].vin = row.vin => stalls[j] = row
  BY <1>1 DEF VinsOnce
<1> HIDE DEF row
<1> QED BY <1>1, <1>2, <1>3, <1>4, <1>5, <1>6, <1>7, JobIsChanged

LEMMA AnswersLand ==
  ASSUME BayInv, NEW p \in pending, ways' = {},
         \/ SessionLands(p) \/ ClearLands(p) \/ BookLands(p)
         \/ \E said \in Vins : ScanLands(p, said) \/ ReadLands(p, said)
  PROVE  WorkKept' /\ OneCarPerVisit'
<1>1. /\ BayTypeOK /\ WorkKept /\ OneCarPerVisit /\ screen \in Work /\ field \in Vins
      /\ scanned \subseteq Cars /\ p.handler \in Handler
  BY DEF BayInv, BayTypeOK
<1>2. /\ p.handler.vin \in Vins
      /\ p.handler.kind = "clear" => p.handler.scan \in Scan
  BY <1>1, HandlerFields
<1>3. ASSUME NEW car \in Vins, Note(Astray(p, car))
      PROVE  /\ ways = {} /\ CarsOf(screen) \subseteq {car}
             /\ \A one \in scanned : screen.scan.of = one => one = car
  <2>1. ways = {} /\ Astray(p, car) = {}
    BY <1>3, NoteOnly
  <2>2. CarsOf(screen) \subseteq {car}
    BY <2>1 DEF Astray
  <2>3. \A one \in scanned : screen.scan.of = one => one \in CarsOf(screen)
    BY <1>1, CarsOnly
  <2> QED BY <2>1, <2>2, <2>3
<1>4. ASSUME UNCHANGED <<screen, stalls, scanned>>, ways = {}
      PROVE  WorkKept' /\ OneCarPerVisit'
  BY <1>1, <1>4 DEF WorkKept, OneCarPerVisit, CarsOf
<1>5. CASE SessionLands(p)
  <2>1. /\ screen' = [screen EXCEPT !.session = p.handler.vin]
        /\ Note(Astray(p, p.handler.vin)) /\ UNCHANGED <<stalls, scanned>>
    BY <1>5 DEF SessionLands
  <2>2. /\ screen'.scan = screen.scan /\ screen'.book = screen.book
        /\ screen'.session = p.handler.vin
    BY <1>1, <2>1 DEF Work
  <2>3. CarsOf(screen') \subseteq {p.handler.vin}
    BY <1>2, <1>3, <2>1, <2>2 DEF CarsOf
  <2> QED BY <1>2, <1>3, <2>1, <2>2, <2>3, AnswerToItsJob
<1>6. CASE BookLands(p)
  <2>1. /\ screen' = [screen EXCEPT !.book = p.handler.vin]
        /\ Note(Astray(p, p.handler.vin)) /\ UNCHANGED <<stalls, scanned>>
    BY <1>6 DEF BookLands
  <2>2. /\ screen'.scan = screen.scan /\ screen'.session = screen.session
        /\ screen'.book = p.handler.vin
    BY <1>1, <2>1 DEF Work
  <2>3. CarsOf(screen') \subseteq {p.handler.vin}
    BY <1>2, <1>3, <2>1, <2>2 DEF CarsOf
  <2> QED BY <1>2, <1>3, <2>1, <2>2, <2>3, AnswerToItsJob
<1>7. CASE ClearLands(p)
  <2> DEFINE scan == p.handler.scan
  <2>1. /\ screen' = [screen EXCEPT !.scan = scan] /\ scan.of \in Vins
        /\ Note(Astray(p, scan.of)) /\ UNCHANGED <<stalls, scanned>>
    BY <1>2, <1>7, Records DEF ClearLands
  <2>2. /\ screen'.session = screen.session /\ screen'.book = screen.book
        /\ screen'.scan = scan
    BY <1>1, <2>1 DEF Work
  <2>3. CarsOf(screen') \subseteq {scan.of}
    BY <1>3, <2>1, <2>2 DEF CarsOf
  <2>4. \A one \in scanned : screen.scan.of = one => screen'.scan.of = one
    BY <1>3, <2>1, <2>2
  <2> QED BY <1>3, <2>1, <2>3, <2>4, AnswerToItsJob
<1>8. ASSUME NEW said \in Vins, ScanLands(p, said) PROVE WorkKept' /\ OneCarPerVisit'
  <2> DEFINE car == IF said # None THEN said ELSE p.handler.vin
             scan == [of |-> car, said |-> said]
  <2>1. car \in Vins
    BY <1>2
  <2>2. /\ screen' = [screen EXCEPT !.scan = scan, !.book = None]
        /\ Note(Astray(p, car)) /\ stalls' = stalls
        /\ scanned' = scanned \cup ({car} \ {None})
    BY <1>8 DEF ScanLands
  <2>3. scan.of = car
    OBVIOUS
  <2> HIDE DEF car, scan
  <2>4. screen'.scan = scan /\ screen'.book = None /\ screen'.session = screen.session
    BY <1>1, <2>2 DEF Work
  <2>5. CarsOf(screen') \subseteq {car}
    BY <1>3, <2>1, <2>2, <2>3, <2>4 DEF CarsOf
  <2>6. /\ \A one \in scanned' : one \in scanned \/ screen'.scan.of = one
        /\ \A one \in scanned : screen.scan.of = one => screen'.scan.of = one
    BY <1>3, <2>1, <2>2, <2>3, <2>4
  <2> QED BY <1>3, <2>1, <2>2, <2>5, <2>6, AnswerToItsJob
<1>9. ASSUME NEW said \in Vins, ReadLands(p, said) PROVE WorkKept' /\ OneCarPerVisit'
  <2> DEFINE h == p.handler
  <2>1. CASE said \in {None, h.vin}
    <3>1. /\ Note(IF said = None THEN {} ELSE Astray(p, said))
          /\ UNCHANGED <<screen, stalls, scanned>>
      BY <1>9, <2>1 DEF ReadLands
    <3>2. ways = {}
      BY <3>1, NoteOnly
    <3> QED BY <1>4, <3>1, <3>2
  <2>2. CASE said \notin {None, h.vin}
    <3>1. /\ stalls' = Parked(h.vin, h.work) /\ screen' = NoWork /\ scanned' = scanned
          /\ Note(TypedOver \cup LeftUnnamed(h.vin, h.work) \cup PushedOut(stalls')
                  \cup IF field = h.vin /\ screen = h.work THEN {} ELSE {"late"})
      BY <1>9, <2>2 DEF ReadLands
    <3>2. TypedOver \cup LeftUnnamed(h.vin, h.work) \cup PushedOut(stalls')
            \cup (IF field = h.vin /\ screen = h.work THEN {} ELSE {"late"}) = {}
      BY <3>1, NoteOnly
    <3>3. /\ ways = {} /\ field = h.vin /\ screen = h.work
          /\ TypedOver = {} /\ LeftUnnamed(h.vin, h.work) = {} /\ PushedOut(stalls') = {}
      BY <3>1, <3>2, NoteOnly
    <3>4. CarsOf(screen) \subseteq {field} /\ (field = None => ~Dirty(screen))
      BY <1>1, <3>3, NothingTypedOver
    <3> QED BY <1>1, <3>1, <3>3, <3>4, JobIsLeft
  <2> QED BY <2>1, <2>2
<1> QED BY <1>5, <1>6, <1>7, <1>8, <1>9

LEMMA NothingMixed ==
  ASSUME BayInv, [BayNext]_bayVars
  PROVE  WorkKept' /\ OneCarPerVisit'
<1>1. ways' # {} => WorkKept' /\ OneCarPerVisit'
  BY DEF WorkKept, OneCarPerVisit
<1>2. ASSUME UNCHANGED <<screen, stalls, scanned>>, ways' = {} => ways = {}
      PROVE  WorkKept' /\ OneCarPerVisit'
  BY <1>2 DEF BayInv, WorkKept, OneCarPerVisit, CarsOf
<1>3. ASSUME NEW h, Begins(h) PROVE WorkKept' /\ OneCarPerVisit'
  BY <1>2, <1>3, NoteOnly DEF Begins
<1>4. CASE BeginScan \/ BeginRead \/ BeginLog \/ BeginReport \/ BeginClear \/ BeginRebuild
  BY <1>3, <1>4 DEF BeginScan, BeginRead, BeginLog, BeginReport, BeginClear, BeginRebuild
<1>5. ASSUME NEW vin \in Vins, TypeVin(vin) PROVE WorkKept' /\ OneCarPerVisit'
  BY <1>2, <1>5 DEF TypeVin
<1>6. CASE NewJob \/ LoadTypedVin \/ \E inOrder \in BOOLEAN : Reload(inOrder)
  BY <1>1, <1>6, ScreenMoves
<1>7. ASSUME NEW i \in DOMAIN stalls, ResumeStall(i) PROVE WorkKept' /\ OneCarPerVisit'
  BY <1>1, <1>7, ChipIsTaken
<1>8. ASSUME NEW p \in pending, Fails(p) PROVE WorkKept' /\ OneCarPerVisit'
  BY <1>2, <1>8 DEF Fails
<1>9. ASSUME NEW p \in pending,
             \/ SessionLands(p) \/ ClearLands(p) \/ BookLands(p)
             \/ \E said \in Vins : ScanLands(p, said) \/ ReadLands(p, said)
      PROVE  WorkKept' /\ OneCarPerVisit'
  BY <1>1, <1>9, AnswersLand
<1>10. CASE UNCHANGED bayVars
  BY <1>2, <1>10 DEF bayVars
<1> QED BY <1>4, <1>5, <1>6, <1>7, <1>8, <1>9, <1>10 DEF BayNext

(* The parts of BayTypeOK that the actions change apart from one another.  *)
ScreenTypes == field \in Vins /\ screen \in Work
StallTypes == stalls \in Seq(Stall) /\ Len(stalls) <= MaxStalls /\ VinsOnce(stalls)
PendingTypes ==
  /\ busy \in BOOLEAN /\ begun \in 0 .. MaxBegun
  /\ pending \subseteq [id : 1 .. MaxBegun, handler : Handler]
HistoryTypes == scanned \subseteq Cars /\ ways \subseteq Ways

LEMMA TypeParts ==
  /\ BayTypeOK <=> ScreenTypes /\ StallTypes /\ PendingTypes /\ HistoryTypes
  /\ BayTypeOK' <=> ScreenTypes' /\ StallTypes' /\ PendingTypes' /\ HistoryTypes'
  BY DEF BayTypeOK, ScreenTypes, StallTypes, PendingTypes, HistoryTypes, VinsOnce

LEMMA WaysOnly ==
  /\ TypedOver \subseteq Ways
  /\ \A vin, work : LeftUnnamed(vin, work) \subseteq Ways
  /\ \A rows : PushedOut(rows) \subseteq Ways
  /\ \A p, car : Astray(p, car) \subseteq Ways
  BY DEF TypedOver, LeftUnnamed, PushedOut, Astray, Ways

LEMMA NoteTypes ==
  ASSUME HistoryTypes, NEW what, what \subseteq Ways, Note(what), scanned' \subseteq Cars
  PROVE  HistoryTypes'
  BY DEF HistoryTypes, Note

LEMMA BeginsTypes ==
  ASSUME BayTypeOK, NEW h \in Handler, Begins(h)
  PROVE  BayTypeOK'
<1>1. ScreenTypes /\ StallTypes /\ PendingTypes /\ HistoryTypes
  BY TypeParts
<1>2. ScreenTypes' /\ StallTypes'
  BY <1>1 DEF Begins, ScreenTypes, StallTypes, VinsOnce
<1>3. PendingTypes'
  <2>1. /\ begun < MaxBegun /\ begun' = begun + 1 /\ busy' = TRUE
        /\ pending' = pending \cup {[id |-> begun + 1, handler |-> h]}
    BY DEF Begins
  <2>2. begun + 1 \in 1 .. MaxBegun
    BY <1>1, <2>1, BayBoundAssumption DEF PendingTypes
  <2>3. [id |-> begun + 1, handler |-> h] \in [id : 1 .. MaxBegun, handler : Handler]
    BY <2>2
  <2> QED BY <1>1, <2>1, <2>2, <2>3 DEF PendingTypes
<1>4. HistoryTypes'
  <2>1. Note(TypedOver) /\ scanned' = scanned
    BY DEF Begins
  <2> QED BY <1>1, <2>1, NoteTypes, WaysOnly DEF HistoryTypes
<1> QED BY <1>2, <1>3, <1>4, TypeParts

LEMMA EndsTypes ==
  ASSUME PendingTypes, NEW p \in pending, begun' = begun,
         Ends(p) \/ \E vin \in Vins : GoesOn(p, vin)
  PROVE  PendingTypes'
<1>1. CASE Ends(p)
  BY <1>1 DEF Ends, PendingTypes
<1>2. ASSUME NEW vin \in Vins, GoesOn(p, vin) PROVE PendingTypes'
  <2>1. [kind |-> "book", vin |-> vin] \in Handler
    BY DEF Handler
  <2>2. p.id \in 1 .. MaxBegun
    BY DEF PendingTypes
  <2>3. [id |-> p.id, handler |-> [kind |-> "book", vin |-> vin]]
          \in [id : 1 .. MaxBegun, handler : Handler]
    BY <2>1, <2>2
  <2> QED BY <1>2, <2>3 DEF GoesOn, PendingTypes
<1> QED BY <1>1, <1>2

LEMMA ParkedTypes ==
  ASSUME BayTypeOK, NEW vin \in Vins, NEW work \in Work
  PROVE  LET p == Parked(vin, work) IN
         /\ p \in Seq(Stall) /\ Len(p) <= MaxStalls /\ VinsOnce(p)
         /\ \A v : LET w == Without(p, v) IN
              w \in Seq(Stall) /\ Len(w) <= MaxStalls /\ VinsOnce(w)
<1> DEFINE p == Parked(vin, work)
<1>1. p \in Seq(Stall) /\ Len(p) <= MaxStalls /\ VinsOnce(p)
  BY ParkedRows
<1> HIDE DEF p
<1>2. ASSUME NEW v
      PROVE  /\ Without(p, v) \in Seq(Stall) /\ Len(Without(p, v)) <= MaxStalls
             /\ VinsOnce(Without(p, v))
  <2>1. /\ Without(p, v) \in Seq(Stall) /\ Len(Without(p, v)) <= Len(p)
        /\ VinsOnce(Without(p, v))
    BY <1>1, WithoutRows
  <2>2. Len(Without(p, v)) \in Nat /\ Len(p) \in Nat /\ MaxStalls \in Nat
    BY <1>1, <2>1, LenProperties, BayBoundAssumption
  <2> QED BY <1>1, <2>1, <2>2
<1> QED BY <1>1, <1>2 DEF p

LEMMA MovesTypes ==
  ASSUME BayTypeOK,
         \/ NewJob \/ LoadTypedVin \/ \E inOrder \in BOOLEAN : Reload(inOrder)
         \/ \E i \in DOMAIN stalls : ResumeStall(i)
         \/ \E vin \in Vins : TypeVin(vin)
  PROVE  BayTypeOK'
<1>1. /\ ScreenTypes /\ StallTypes /\ PendingTypes /\ HistoryTypes
      /\ field \in Vins /\ screen \in Work /\ NoWork \in Work /\ None \in Vins
  BY TypeParts, Records DEF ScreenTypes, Vins
<1>2. ASSUME NEW vin \in Vins, TypeVin(vin) PROVE BayTypeOK'
  <2>1. ScreenTypes' /\ StallTypes' /\ PendingTypes' /\ HistoryTypes'
    BY <1>1, <1>2 DEF TypeVin, ScreenTypes, StallTypes, PendingTypes, HistoryTypes, VinsOnce
  <2> QED BY <2>1, TypeParts
<1>3. CASE NewJob
  <2>1. ScreenTypes' /\ StallTypes' /\ PendingTypes'
    BY <1>1, <1>3, ParkedTypes DEF NewJob, ScreenTypes, StallTypes, PendingTypes
  <2>2. HistoryTypes'
    BY <1>1, <1>3, NoteTypes, WaysOnly DEF NewJob, HistoryTypes
  <2> QED BY <2>1, <2>2, TypeParts
<1>4. ASSUME NEW i \in DOMAIN stalls, ResumeStall(i) PROVE BayTypeOK'
  <2>1. stalls[i] \in Stall
    BY <1>1 DEF StallTypes
  <2>2. ScreenTypes'
    BY <1>4, <2>1, Records DEF ResumeStall, Applied, ScreenTypes, Vins
  <2>3. StallTypes'
    BY <1>1, <1>4, ParkedTypes DEF ResumeStall, StallTypes
  <2>4. PendingTypes'
    BY <1>1, <1>4 DEF ResumeStall, PendingTypes
  <2>5. HistoryTypes'
    BY <1>1, <1>4, NoteTypes, WaysOnly DEF ResumeStall, HistoryTypes
  <2> QED BY <2>2, <2>3, <2>4, <2>5, TypeParts
<1>5. CASE LoadTypedVin
  <2> DEFINE rest == Parked(Held, screen)
  <2>1. /\ rest \in Seq(Stall) /\ Len(rest) <= MaxStalls /\ VinsOnce(rest)
        /\ \A v : LET w == Without(rest, v) IN
             w \in Seq(Stall) /\ Len(w) <= MaxStalls /\ VinsOnce(w)
    <3>1. Held \in Vins
      BY <1>1, Records DEF Held
    <3> QED BY <1>1, <3>1, ParkedTypes
  <2>2. PendingTypes'
    BY <1>1, <1>5 DEF LoadTypedVin, PendingTypes
  <2>3. /\ field' = field /\ scanned' = scanned
        /\ \/ screen' = screen /\ stalls' = stalls
           \/ screen' = NoWork /\ stalls' = rest
           \/ \E i \in DOMAIN rest : screen' = rest[i].work /\ stalls' = Without(rest, field)
    BY <1>5 DEF LoadTypedVin, Applied
  <2>4. HistoryTypes'
    <3>1. CASE Held # None /\ Held # field
      <4>1. Note((IF CarsOf(screen) = {Held} THEN {} ELSE {"typed_over"}) \cup PushedOut(rest))
        BY <1>5, <3>1 DEF LoadTypedVin
      <4>2. (IF CarsOf(screen) = {Held} THEN {} ELSE {"typed_over"}) \cup PushedOut(rest) \subseteq Ways
        BY WaysOnly DEF Ways
      <4> QED BY <1>1, <2>3, <4>1, <4>2, NoteTypes DEF HistoryTypes
    <3>2. CASE ~(Held # None /\ Held # field)
      <4>1. Note(TypedOver)
        BY <1>5, <3>2 DEF LoadTypedVin
      <4> QED BY <1>1, <2>3, <4>1, NoteTypes, WaysOnly DEF HistoryTypes
    <3> QED BY <3>1, <3>2
  <2> HIDE DEF rest
  <2>5. ScreenTypes'
    BY <1>1, <2>1, <2>3, Records DEF ScreenTypes
  <2>6. StallTypes'
    BY <1>1, <2>1, <2>3 DEF StallTypes
  <2> QED BY <2>2, <2>4, <2>5, <2>6, TypeParts
<1>6. ASSUME NEW inOrder \in BOOLEAN, Reload(inOrder) PROVE BayTypeOK'
  <2>1. ScreenTypes' /\ PendingTypes'
    BY <1>1, <1>6 DEF Reload, ScreenTypes, PendingTypes
  <2>2. StallTypes'
    BY <1>1, <1>6, ParkedTypes DEF Reload, StallTypes
  <2>3. HistoryTypes'
    <3>1. CASE inOrder
      BY <1>1, <1>6, <3>1, NoteTypes, WaysOnly DEF Reload, HistoryTypes
    <3>2. CASE ~inOrder
      <4>1. Note(IF Dirty(screen) THEN {"crash"} ELSE {}) /\ scanned' = scanned
        BY <1>6, <3>2 DEF Reload
      <4>2. (IF Dirty(screen) THEN {"crash"} ELSE {}) \subseteq Ways
        BY DEF Ways
      <4> QED BY <1>1, <4>1, <4>2, NoteTypes DEF HistoryTypes
    <3> QED BY <3>1, <3>2
  <2> QED BY <2>1, <2>2, <2>3, TypeParts
<1> QED BY <1>2, <1>3, <1>4, <1>5, <1>6

LEMMA LandsTypes ==
  ASSUME BayTypeOK, NEW p \in pending,
         \/ Fails(p) \/ SessionLands(p) \/ ClearLands(p) \/ BookLands(p)
         \/ \E said \in Vins : ScanLands(p, said) \/ ReadLands(p, said)
  PROVE  BayTypeOK'
<1>1. /\ ScreenTypes /\ StallTypes /\ PendingTypes /\ HistoryTypes
      /\ field \in Vins /\ screen \in Work /\ NoWork \in Work /\ None \in Vins
  BY TypeParts, Records DEF ScreenTypes, Vins
<1>2. /\ p.handler \in Handler /\ p.handler.vin \in Vins
      /\ p.handler.kind = "read" => p.handler.work \in Work
      /\ p.handler.kind = "clear" => p.handler.scan \in Scan
  <2>1. p.handler \in Handler
    BY <1>1 DEF PendingTypes
  <2> QED BY <2>1, HandlerFields
<1>3. /\ \A vin \in Vins : [screen EXCEPT !.session = vin] \in Work
      /\ \A vin \in Vins : [screen EXCEPT !.book = vin] \in Work
      /\ \A scan \in Scan : [screen EXCEPT !.scan = scan] \in Work
      /\ \A scan \in Scan, vin \in Vins : [screen EXCEPT !.scan = scan, !.book = vin] \in Work
  BY <1>1 DEF Work
<1>4. CASE Fails(p)
  <2>1. ScreenTypes' /\ StallTypes' /\ HistoryTypes'
    BY <1>1, <1>4 DEF Fails, ScreenTypes, StallTypes, HistoryTypes, VinsOnce
  <2>2. PendingTypes'
    BY <1>1, <1>4, EndsTypes DEF Fails
  <2> QED BY <2>1, <2>2, TypeParts
<1>5. CASE SessionLands(p) \/ ClearLands(p) \/ BookLands(p)
  <2>1. ScreenTypes'
    <3>1. field' = field
      BY <1>5 DEF SessionLands, ClearLands, BookLands
    <3>2. SessionLands(p) => screen' \in Work
      BY <1>2, <1>3 DEF SessionLands
    <3>3. ClearLands(p) => screen' \in Work
      BY <1>2, <1>3 DEF ClearLands
    <3>4. BookLands(p) => screen' \in Work
      BY <1>2, <1>3 DEF BookLands
    <3> QED BY <1>1, <1>5, <3>1, <3>2, <3>3, <3>4 DEF ScreenTypes
  <2>2. StallTypes'
    BY <1>1, <1>5 DEF SessionLands, ClearLands, BookLands, StallTypes, VinsOnce
  <2>3. PendingTypes'
    BY <1>1, <1>2, <1>5, EndsTypes DEF SessionLands, ClearLands, BookLands
  <2>4. HistoryTypes'
    BY <1>1, <1>5, NoteTypes, WaysOnly DEF SessionLands, ClearLands, BookLands, HistoryTypes
  <2> QED BY <2>1, <2>2, <2>3, <2>4, TypeParts
<1>6. ASSUME NEW said \in Vins, ScanLands(p, said) PROVE BayTypeOK'
  <2> DEFINE car == IF said # None THEN said ELSE p.handler.vin
             scan == [of |-> car, said |-> said]
  <2>1. car \in Vins /\ scan \in Scan
    <3>1. car \in Vins
      BY <1>2
    <3> HIDE DEF car
    <3> QED BY <3>1 DEF Scan
  <2>2. /\ screen' = [screen EXCEPT !.scan = scan, !.book = None]
        /\ field' = IF said \in {None, p.handler.vin} THEN field ELSE said
        /\ scanned' = scanned \cup ({car} \ {None})
        /\ Ends(p) \/ GoesOn(p, car)
        /\ Note(Astray(p, car))
        /\ UNCHANGED <<stalls, begun>>
    BY <1>6 DEF ScanLands
  <2> HIDE DEF car, scan
  <2>3. ScreenTypes'
    BY <1>1, <1>3, <2>1, <2>2 DEF ScreenTypes
  <2>4. StallTypes'
    BY <1>1, <2>2 DEF StallTypes, VinsOnce
  <2>5. PendingTypes'
    BY <1>1, <2>1, <2>2, EndsTypes
  <2>6. HistoryTypes'
    <3>1. scanned' \subseteq Cars
      BY <1>1, <2>1, <2>2 DEF HistoryTypes, Vins
    <3> QED BY <1>1, <2>2, <3>1, NoteTypes, WaysOnly
  <2> QED BY <2>3, <2>4, <2>5, <2>6, TypeParts
<1>7. ASSUME NEW said \in Vins, ReadLands(p, said) PROVE BayTypeOK'
  <2> DEFINE h == p.handler
  <2>1. h.kind = "read" /\ Ends(p) /\ begun' = begun /\ scanned' = scanned
    BY <1>7 DEF ReadLands
  <2>2. PendingTypes'
    BY <1>1, <2>1, EndsTypes
  <2>3. CASE said \in {None, h.vin}
    <3>1. /\ field' = IF said = None THEN field ELSE said
          /\ UNCHANGED <<screen, stalls>>
          /\ Note(IF said = None THEN {} ELSE Astray(p, said))
      BY <1>7, <2>3 DEF ReadLands
    <3>2. ScreenTypes' /\ StallTypes'
      BY <1>1, <3>1 DEF ScreenTypes, StallTypes, VinsOnce
    <3>3. (IF said = None THEN {} ELSE Astray(p, said)) \subseteq Ways
      BY WaysOnly
    <3>4. HistoryTypes'
      BY <1>1, <2>1, <3>1, <3>3, NoteTypes DEF HistoryTypes
    <3> QED BY <2>2, <3>2, <3>4, TypeParts
  <2>4. CASE said \notin {None, h.vin}
    <3> DEFINE what == TypedOver \cup LeftUnnamed(h.vin, h.work) \cup PushedOut(stalls')
                         \cup (IF field = h.vin /\ screen = h.work THEN {} ELSE {"late"})
    <3>1. /\ stalls' = Parked(h.vin, h.work) /\ screen' = NoWork /\ field' = said
          /\ Note(what)
      BY <1>7, <2>4 DEF ReadLands
    <3>2. ScreenTypes'
      BY <1>1, <3>1 DEF ScreenTypes
    <3>3. StallTypes'
      BY <1>2, <2>1, <3>1, ParkedTypes DEF StallTypes
    <3>4. what \subseteq Ways
      BY WaysOnly DEF Ways
    <3> HIDE DEF what
    <3>5. HistoryTypes'
      BY <1>1, <2>1, <3>1, <3>4, NoteTypes DEF HistoryTypes
    <3> QED BY <2>2, <3>2, <3>3, <3>5, TypeParts
  <2> QED BY <2>3, <2>4
<1> QED BY <1>4, <1>5, <1>6, <1>7

LEMMA HandlersBegin ==
  ASSUME BayTypeOK,
         BeginScan \/ BeginRead \/ BeginLog \/ BeginReport \/ BeginClear \/ BeginRebuild
  PROVE  BayTypeOK'
<1>1. /\ field \in Vins /\ screen \in Work /\ screen.scan \in Scan
      /\ screen.session \in Vins /\ ScanVin \in Vins
  BY Records DEF BayTypeOK, ScanVin
<1>2. /\ \A kind \in {"scan", "log", "report", "book"}, vin \in Vins :
           [kind |-> kind, vin |-> vin] \in Handler
      /\ \A vin \in Vins, work \in Work :
           [kind |-> "read", vin |-> vin, work |-> work] \in Handler
      /\ \A vin \in Vins, scan \in Scan :
           [kind |-> "clear", vin |-> vin, scan |-> scan] \in Handler
  BY DEF Handler
<1>3. \E h \in Handler : Begins(h)
  BY <1>1, <1>2 DEF BeginScan, BeginRead, BeginLog, BeginReport, BeginClear, BeginRebuild
<1> QED BY <1>3, BeginsTypes

LEMMA BayTypeStep ==
  ASSUME BayTypeOK, [BayNext]_bayVars PROVE BayTypeOK'
<1>1. CASE UNCHANGED bayVars
  BY <1>1 DEF bayVars, BayTypeOK
<1>2. CASE BayNext
  BY <1>2, MovesTypes, HandlersBegin, LandsTypes DEF BayNext
<1> QED BY <1>1, <1>2

LEMMA BayStarts == BayInit => BayInv
<1> SUFFICES ASSUME BayInit PROVE BayInv
  OBVIOUS
<1>1. /\ stalls = <<>> /\ screen = NoWork /\ field = None /\ scanned = {} /\ ways = {}
      /\ busy = FALSE /\ begun = 0 /\ pending = {}
  BY DEF BayInit
<1>2. stalls \in Seq(Stall) /\ Len(stalls) = 0 /\ DOMAIN stalls = {}
  BY <1>1
<1>3. BayTypeOK
  <2>1. ScreenTypes
    BY <1>1, Records DEF ScreenTypes, Vins
  <2>2. StallTypes
    BY <1>2, BayBoundAssumption DEF StallTypes, VinsOnce
  <2>3. PendingTypes
    <3>1. busy \in BOOLEAN
      BY <1>1
    <3>2. begun \in 0 .. MaxBegun
      BY <1>1, BayBoundAssumption
    <3> QED BY <1>1, <3>1, <3>2 DEF PendingTypes
  <2>4. HistoryTypes
    BY <1>1 DEF HistoryTypes
  <2> QED BY <2>1, <2>2, <2>3, <2>4, TypeParts
<1>4. WorkKept
  BY <1>1 DEF WorkKept
<1>5. OneCarPerVisit
  <2>1. Cardinality(CarsOf(screen)) <= 1
    BY <1>1, CarsOnly, OneCarAtMost
  <2> QED BY <1>2, <2>1 DEF OneCarPerVisit
<1> QED BY <1>3, <1>4, <1>5 DEF BayInv

LEMMA BayInvariant == BaySpec => []BayInv
<1>1. BayInit => BayInv
  BY BayStarts
<1>2. BayInv /\ [BayNext]_bayVars => BayInv'
  BY BayTypeStep, NothingMixed DEF BayInv
<1> QED BY <1>1, <1>2, PTL DEF BaySpec

(* No visit disappears: for every number of cars, parked jobs and handlers *)
(* under way, a car that was scanned has its scan on the screen or in the  *)
(* parked job of its VIN, but for what Ways names (Bay.tsx, jobStall.ts).  *)
THEOREM VisitsKept == BaySpec => []WorkKept
<1>1. BayInv => WorkKept
  BY DEF BayInv
<1> QED BY <1>1, BayInvariant, PTL

(* No visit is made of two cars, on the screen or parked, but for what     *)
(* Ways names (applyStall, parkHeld and the answers in Bay.tsx).           *)
THEOREM VisitsApart == BaySpec => []OneCarPerVisit
<1>1. BayInv => OneCarPerVisit
  BY DEF BayInv
<1> QED BY <1>1, BayInvariant, PTL

-----------------------------------------------------------------------------
(* The screen and the kit side by side: what is proved of either holds of  *)
(* their composition, whichever of the two moves.                          *)
LEMMA BothParts == Spec => BaySpec /\ KitSpec
<1>1. Init => BayInit /\ KitInit
  BY DEF Init
<1>2. [Next]_vars => [BayNext]_bayVars /\ [KitNext]_kitVars
  BY DEF Next, vars
<1> QED BY <1>1, <1>2, PTL DEF Spec, BaySpec, KitSpec

(* The screen, the parked jobs, the handlers, the kit and the commands     *)
(* that use it stay within their types and bounds, at most MaxStalls jobs  *)
(* are parked, each VIN once, and no answer is buffered that nobody asked  *)
(* for (Bay.tsx, jobStall.ts, worker.py).                                  *)
THEOREM TypeCorrect == Spec => []TypeOK
<1>1. BayInv /\ KitInv => TypeOK
  BY DEF BayInv, KitInv, KitShape, TypeOK
<1> QED BY <1>1, BothParts, BayInvariant, KitInvariant, PTL

=============================================================================
