--------------------------------- MODULE KitChannel ---------------------------------
(***************************************************************************)
(* The worker's one kit and the threads that share it.  Each WebSocket     *)
(* runs its commands one after the other, every one in a thread of its     *)
(* own; a page that was reloaded during a command has a second socket, and *)
(* so has a second tab.  All work on one WorkerState: connect and          *)
(* disconnect replace its PassThru, the other commands open connections to *)
(* one node after the other on the PassThru they found, and nothing locks. *)
(*                                                                         *)
(* Which node a command asks for what is left open here (ClearCodes has    *)
(* it), and so is the mock adapter, which has no channel.                  *)
(***************************************************************************)
EXTENDS Naturals, Sequences, FiniteSets

CONSTANTS
  Nodes,        \* modules of the car, each with its pair of CAN ids
  Ecm,          \* the one whose ids a new PassThru starts with
  Asks,         \* UDS requests whose answers are told apart
  Sockets,      \* WebSockets of the worker
  MaxCommands,  \* bound: commands received
  MaxConnects,  \* bound: PassThru devices opened
  MaxAsked      \* bound: requests sent

ASSUME EcmAssumption == Ecm \in Nodes
ASSUME KitBounds == MaxCommands \in Nat /\ MaxConnects \in Nat /\ MaxAsked \in Nat

NoKit == 0
Kits == 1 .. MaxConnects

VARIABLES
  passthru,  \* WorkerState.passthru, and with it session
  opened,    \* the device handles that the driver has open
  connects,  \* devices opened so far
  ids,       \* txid and rxid of each PassThru's iface
  filters,   \* nodes whose answers the driver lets through
  buffer,    \* the driver's receive buffer
  onBus,     \* answers that the nodes have yet to give
  asked,     \* requests sent so far
  thread,    \* what each socket's command is doing
  commands,  \* commands received so far
  strays     \* history: how a device came to be open and unreachable

driverVars == <<opened, connects, filters, buffer, onBus, asked>>
kitVars == <<driverVars, passthru, ids, thread, commands, strays>>

Answer == [from : Nodes, ask : Asks]

NoNode == "no node"
NoAsk == "no request"

Roles == {"connect", "disconnect", "work"}
SetUpSteps == {"tx", "rx", "clear", "filter", "flush"}
Steps ==
  {"close", "forget", "open", "channel", "publish"}
  \cup SetUpSteps \cup {"pick", "ready", "wait", "took"}

(* What a command does: its PassThru and the node it is connected to; in   *)
(* an exchange, whom its request went to and whose answer it took.  alone  *)
(* is history: no other command ran during this one.                       *)
Rest == [step |-> "rest"]
Command ==
  [step : Steps, role : Roles, kit : Kits \cup {NoKit}, node : Nodes \cup {NoNode},
   ask : Asks \cup {NoAsk}, to : Nodes \cup {NoNode}, from : Nodes \cup {NoNode},
   alone : BOOLEAN]

KitTypeOK ==
  /\ passthru \in Kits \cup {NoKit}
  /\ opened \subseteq 1 .. connects /\ connects \in 0 .. MaxConnects
  /\ ids \in [Kits -> [tx : Nodes, rx : Nodes]]
  /\ filters \subseteq Nodes
  /\ buffer \in Seq(Answer) /\ Len(buffer) <= asked
  /\ onBus \subseteq Answer /\ asked \in 0 .. MaxAsked
  /\ thread \in [Sockets -> Command \cup {Rest}]
  /\ commands \in 0 .. MaxCommands
  /\ strays \subseteq {"overlap", "refused"}

KitInit ==
  /\ passthru = NoKit /\ opened = {} /\ connects = 0
  /\ ids = [k \in Kits |-> [tx |-> Ecm, rx |-> Ecm]]
  /\ filters = {} /\ buffer = <<>> /\ onBus = {} /\ asked = 0
  /\ thread = [s \in Sockets |-> Rest] /\ commands = 0 /\ strays = {}

-----------------------------------------------------------------------------
(* handle and _dispatch.                                                   *)

Running == {s \in Sockets : thread[s] # Rest}
Moves(s, step) == thread' = [thread EXCEPT ![s].step = step]
Stops(s) == thread' = [thread EXCEPT ![s] = Rest]

(* A command for which there is no session answers an error.               *)
Receive(s, role) ==
  LET first == IF role = "work" THEN "pick" ELSE "close"
      replacing == {q \in Running : thread[q].role # "work"}
  IN /\ thread[s] = Rest
     /\ commands < MaxCommands
     /\ role = "work" => passthru # NoKit
     /\ commands' = commands + 1
     /\ thread' = [q \in Sockets |->
          CASE q = s -> [step |-> first, role |-> role,
                         kit |-> IF role = "work" THEN passthru ELSE NoKit,
                         node |-> NoNode, ask |-> NoAsk, to |-> NoNode,
                         from |-> NoNode, alone |-> Running = {}]
            [] q # s /\ q \in Running -> [thread[q] EXCEPT !.alone = FALSE]
            [] OTHER -> Rest]
     /\ strays' = IF role # "work" /\ replacing # {}
                  THEN strays \cup {"overlap"} ELSE strays
     /\ UNCHANGED <<driverVars, passthru, ids>>

-----------------------------------------------------------------------------
(* WorkerState.disconnect, WorkerState.connect and PassThru().             *)

(* A slip: connect drops the old PassThru without closing it.              *)
CloseKit_OnlyDisconnect(s) ==
  /\ thread[s].step = "close"
  /\ opened' = IF thread[s].role = "disconnect" THEN opened \ {passthru} ELSE opened
  /\ Moves(s, "forget")
  /\ UNCHANGED <<connects, filters, buffer, onBus, asked, passthru, ids, commands, strays>>

(* PassThruDisconnect and PassThruClose; what the driver then does with    *)
(* filters and buffer, if another handle is open, is left open.            *)
CloseKit(s) ==
  /\ thread[s].step = "close"
  /\ opened' = opened \ {passthru}
  /\ \/ filters' = {} /\ buffer' = <<>>
     \/ opened' # {} /\ UNCHANGED <<filters, buffer>>
  /\ Moves(s, "forget")
  /\ UNCHANGED <<connects, onBus, asked, passthru, ids, commands, strays>>

ForgetKit(s) ==
  /\ thread[s].step = "forget"
  /\ passthru' = NoKit
  /\ IF thread[s].role = "disconnect" THEN Stops(s) ELSE Moves(s, "open")
  /\ UNCHANGED <<driverVars, ids, commands, strays>>

(* No library, no cable, or a device that is still open.                   *)
OpenKit(s, ok) ==
  /\ thread[s].step = "open"
  /\ IF ok
     THEN /\ connects < MaxConnects
          /\ connects' = connects + 1
          /\ opened' = opened \cup {connects + 1}
          /\ thread' = [thread EXCEPT ![s].step = "channel", ![s].kit = connects + 1]
     ELSE Stops(s) /\ UNCHANGED <<connects, opened>>
  /\ UNCHANGED <<filters, buffer, onBus, asked, passthru, ids, commands, strays>>

(* PassThruConnect fails: the constructor raises and nobody closes the     *)
(* device that it has opened.                                              *)
OpenChannel(s, ok) ==
  /\ thread[s].step = "channel"
  /\ IF ok
     THEN /\ thread' = [thread EXCEPT ![s].step = "tx", ![s].node = Ecm]
          /\ UNCHANGED strays
     ELSE Stops(s) /\ strays' = strays \cup {"refused"}
  /\ UNCHANGED <<driverVars, passthru, ids, commands>>

Publish(s) ==
  /\ thread[s].step = "publish"
  /\ passthru' = thread[s].kit
  /\ Stops(s)
  /\ UNCHANGED <<driverVars, ids, commands, strays>>

-----------------------------------------------------------------------------
(* set_can_ids, statement by statement.                                    *)

(* Whether a call with this PassThru's channel gets to the driver: no if   *)
(* all is closed, and a handle that was closed may name the new channel.   *)
Reaches(kit) ==
  CASE kit \in opened -> {TRUE} [] opened = {} -> {FALSE} [] OTHER -> BOOLEAN

SetTx(s) ==
  /\ thread[s].step = "tx"
  /\ ids' = [ids EXCEPT ![thread[s].kit].tx = thread[s].node]
  /\ Moves(s, "rx")
  /\ UNCHANGED <<driverVars, passthru, commands, strays>>

SetRx(s) ==
  /\ thread[s].step = "rx"
  /\ ids' = [ids EXCEPT ![thread[s].kit].rx = thread[s].node]
  /\ Moves(s, "clear")
  /\ UNCHANGED <<driverVars, passthru, commands, strays>>

(* A slip: the filters of the nodes before are kept.                       *)
ClearFilters_Kept(s) ==
  /\ thread[s].step = "clear"
  /\ Moves(s, "filter")
  /\ UNCHANGED <<driverVars, passthru, ids, commands, strays>>

ClearFilters(s) ==
  /\ thread[s].step = "clear"
  /\ \E reaches \in Reaches(thread[s].kit) :
       filters' = IF reaches THEN {} ELSE filters
  /\ Moves(s, "filter")
  /\ UNCHANGED <<opened, connects, buffer, onBus, asked, passthru, ids, commands, strays>>

StartFilter(s) ==
  /\ thread[s].step = "filter"
  /\ \E reaches \in Reaches(thread[s].kit) :
       filters' = IF reaches THEN filters \cup {ids[thread[s].kit].rx} ELSE filters
  /\ Moves(s, "flush")
  /\ UNCHANGED <<opened, connects, buffer, onBus, asked, passthru, ids, commands, strays>>

(* CLEAR_RX_BUFFER, last: what came in under the old filter goes.          *)
Flush(s) ==
  /\ thread[s].step = "flush"
  /\ \E reaches \in Reaches(thread[s].kit) :
       buffer' = IF reaches THEN <<>> ELSE buffer
  /\ Moves(s, IF thread[s].role = "connect" THEN "publish" ELSE "ready")
  /\ UNCHANGED <<opened, connects, filters, onBus, asked, passthru, ids, commands, strays>>

-----------------------------------------------------------------------------
(* The connections and exchanges of identify, scan and clear_dtcs.         *)

(* J2534IsoTpConnection.open.                                              *)
OpenConnection(s, node) ==
  /\ thread[s].step = "pick"
  /\ thread' = [thread EXCEPT ![s].step = "tx", ![s].node = node]
  /\ UNCHANGED <<driverVars, passthru, ids, commands, strays>>

(* specific_send: the request goes to whom the iface names by now.         *)
SendRequest(s, ask) ==
  LET to == ids[thread[s].kit].tx IN
  /\ thread[s].step = "ready"
  /\ asked < MaxAsked
  /\ TRUE \in Reaches(thread[s].kit)
  /\ onBus' = onBus \cup {[from |-> to, ask |-> ask]}
  /\ asked' = asked + 1
  /\ thread' = [thread EXCEPT ![s].step = "wait", ![s].ask = ask, ![s].to = to]
  /\ UNCHANGED <<opened, connects, filters, buffer, passthru, ids, commands, strays>>

NextExchange(s) ==
  thread' = [thread EXCEPT ![s].step = "ready", ![s].ask = NoAsk,
                           ![s].to = NoNode, ![s].from = NoNode]

(* specific_wait_frame: the oldest answer in the buffer, whoever gave it.  *)
(* udsoncan refuses one to another request.                                *)
TakeAnswer(s) ==
  /\ thread[s].step = "wait"
  /\ buffer # <<>>
  /\ TRUE \in Reaches(thread[s].kit)
  /\ buffer' = Tail(buffer)
  /\ IF Head(buffer).ask = thread[s].ask
     THEN thread' = [thread EXCEPT ![s].step = "took", ![s].from = Head(buffer).from]
     ELSE NextExchange(s)
  /\ UNCHANGED <<opened, connects, filters, onBus, asked, passthru, ids, commands, strays>>

(* Nothing in time, or the answer has been used.                           *)
EndExchange(s) ==
  /\ thread[s].step \in {"wait", "took"}
  /\ NextExchange(s)
  /\ UNCHANGED <<driverVars, passthru, ids, commands, strays>>

(* close() of a connection leaves ids and filter as they are.              *)
CloseConnection(s) ==
  /\ thread[s].step = "ready"
  /\ thread' = [thread EXCEPT ![s].step = "pick", ![s].node = NoNode]
  /\ UNCHANGED <<driverVars, passthru, ids, commands, strays>>

(* The command has its result, or the driver refused a write or a read.    *)
EndCommand(s) ==
  /\ thread[s].step \in {"pick", "ready", "wait"}
  /\ Stops(s)
  /\ UNCHANGED <<driverVars, passthru, ids, commands, strays>>

(* External: a node answers, however late, and the driver filters; or the  *)
(* node stays dark.                                                        *)
Arrives(answer, dark) ==
  /\ onBus' = onBus \ {answer}
  /\ buffer' = IF ~dark /\ opened # {} /\ answer.from \in filters
               THEN Append(buffer, answer) ELSE buffer
  /\ UNCHANGED <<opened, connects, filters, asked, passthru, ids, thread, commands, strays>>

SetUp(s) == SetTx(s) \/ SetRx(s) \/ ClearFilters(s) \/ StartFilter(s) \/ Flush(s)
Exchange(s) ==
  \/ \E node \in Nodes : OpenConnection(s, node)
  \/ \E ask \in Asks : SendRequest(s, ask)
  \/ TakeAnswer(s) \/ EndExchange(s) \/ CloseConnection(s) \/ EndCommand(s)

KitNext ==
  \/ \E s \in Sockets, role \in Roles : Receive(s, role)
  \/ \E s \in Sockets : CloseKit(s) \/ ForgetKit(s) \/ Publish(s) \/ SetUp(s) \/ Exchange(s)
  \/ \E s \in Sockets, ok \in BOOLEAN : OpenKit(s, ok) \/ OpenChannel(s, ok)
  \/ \E answer \in onBus, dark \in BOOLEAN : Arrives(answer, dark)

KitSpec == KitInit /\ [][KitNext]_kitVars

-----------------------------------------------------------------------------
(* A command that had the kit to itself asks the node it is connected to   *)
(* and takes no other node's answer, however late answers to earlier       *)
(* commands arrive (set_can_ids, specific_send, specific_wait_frame).      *)
ExchangeOfItsNode ==
  \A s \in Running : thread[s].step \in {"wait", "took"} /\ thread[s].alone =>
    /\ thread[s].to = thread[s].node
    /\ thread[s].step = "took" => thread[s].from = thread[s].node

(* A device that is open can be closed: the worker holds its PassThru or a *)
(* command is opening it.  But for two connects or disconnects at once,    *)
(* and for a PassThruConnect that failed (WorkerState.connect, disconnect; *)
(* PassThru.close).                                                        *)
KitStaysReachable ==
  strays = {} =>
    opened \subseteq {passthru} \cup {thread[s].kit : s \in {q \in Running : thread[q].role = "connect"}}
=============================================================================
