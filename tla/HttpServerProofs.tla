--------------------------- MODULE HttpServerProofs ---------------------------
(***************************************************************************)
(* Theorems about HttpServer, for any number of clients, any requests and   *)
(* any file system.                                                         *)
(***************************************************************************)
EXTENDS HttpServer, TLAPS

(* What an operation says about its connection. *)
ProtocolInv ==
    \A c \in Clients :
        /\ c \in upgraded => response[c] = 101 /\ protocol[c] = "WebSocket" /\ op[c] = "none"
        /\ c \in upgraded <=> socket[c] = "moved"
        /\ protocol[c] = "WebSocket" => c \in upgraded
        /\ protocol[c] = "HTTPUpgrading" => op[c] = "write" /\ response[c] = 101
        /\ socket[c] \in {"none", "accepted"} =>
             op[c] = "none" /\ done[c] = "pending" /\ protocol[c] = "HTTP" /\ c \notin connections
        /\ op[c] = "none" => done[c] = "pending"

(* Until stop() is called sockets are closed by their own handlers only. *)
ListedInv ==
    stopStep = "none" =>
        \A c \in Clients :
            /\ socket[c] = "open" => c \in connections
            /\ op[c] # "none" => c \in connections
            /\ c \in connections /\ c \notin upgraded => op[c] # "none" /\ socket[c] = "open"
            /\ done[c] # "aborted"

(* One socket at a time waits for the accept handler. *)
AcceptedInv ==
    /\ \A c \in Clients : socket[c] = "accepted" => acceptOp = "done"
    /\ \A c, d \in Clients : socket[c] = "accepted" /\ socket[d] = "accepted" => c = d

Inv == TypeOK /\ ProtocolInv /\ ListedInv /\ AcceptedInv

LEMMA StatusOfType == \A r : StatusOf(r) \in StatusCodes
BY DEF StatusOf, FileStatus, StatusCodes

LEMMA InvInit == Init => Inv
BY DEF Init, Inv, TypeOK, ProtocolInv, ListedInv, AcceptedInv

(* A step of the clients or the completion of an operation. *)
LEMMA KernelStep ==
    ASSUME Inv, NEW c \in Clients,
           Connect(c) \/ ClientSend(c) \/ ClientLeaves(c) \/ Kernel(c) \/ AcceptFails
             \/ HandlerBegins(c)
    PROVE  Inv'
<1> USE DEF Inv, serverVars, acceptVars, connVars, clientVars
<1>1. CASE Connect(c)
    BY <1>1 DEF Connect, TypeOK, ProtocolInv, ListedInv, AcceptedInv
<1>2. CASE ClientSend(c)
    BY <1>2 DEF ClientSend, TypeOK, ProtocolInv, ListedInv, AcceptedInv
<1>3. CASE ClientLeaves(c)
    BY <1>3 DEF ClientLeaves, TypeOK, ProtocolInv, ListedInv, AcceptedInv
<1>4. CASE AcceptCompletes(c)
    BY <1>4 DEF AcceptCompletes, TypeOK, ProtocolInv, ListedInv, AcceptedInv
<1>5. CASE ReadCompletes(c)
    BY <1>5 DEF ReadCompletes, TypeOK, ProtocolInv, ListedInv, AcceptedInv
<1>6. CASE WriteCompletes(c)
    BY <1>6 DEF WriteCompletes, TypeOK, ProtocolInv, ListedInv, AcceptedInv
<1>7. CASE AcceptFails
    BY <1>7 DEF AcceptFails, TypeOK, ProtocolInv, ListedInv, AcceptedInv
<1>8. CASE HandlerBegins(c)
    BY <1>8 DEF HandlerBegins, TypeOK, ProtocolInv, ListedInv, AcceptedInv
<1> QED
    BY <1>1, <1>2, <1>3, <1>4, <1>5, <1>6, <1>7, <1>8 DEF Kernel

LEMMA AcceptStep ==
    ASSUME Inv, AcceptHandler
    PROVE  Inv'
<1> USE DEF Inv, serverVars, acceptVars, connVars, clientVars
<1>1. CASE AcceptReturns
    BY <1>1 DEF AcceptReturns, TypeOK, ProtocolInv, ListedInv, AcceptedInv
<1>2. CASE AcceptChecked
    BY <1>2 DEF AcceptChecked, TypeOK, ProtocolInv, ListedInv, AcceptedInv
<1>3. CASE AcceptStarts
    BY <1>3 DEF AcceptStarts, AcceptArmed, TypeOK, ProtocolInv, ListedInv, AcceptedInv
<1> QED
    BY <1>1, <1>2, <1>3 DEF AcceptHandler, Accepts

(* A handler that drops its connection. *)
LEMMA StopConnectionStep ==
    ASSUME Inv, NEW c \in Clients, StopConnection(c), protocol[c] = "HTTP", op[c] # "none",
           handling' = {},
           UNCHANGED <<serverVars, acceptVars, protocol, response, upgraded, clientVars>>
    PROVE  Inv'
BY DEF StopConnection, ClosedSockets, Inv, serverVars, acceptVars, clientVars, TypeOK,
       ProtocolInv, ListedInv, AcceptedInv

(* A handler that answers. *)
LEMMA RespondStep ==
    ASSUME Inv, NEW c \in Clients, NEW status \in StatusCodes, Respond(c, status),
           protocol[c] = "HTTP", op[c] = "read", handling' = {},
           UNCHANGED <<serverVars, acceptVars, connections, socket, upgraded, clientVars>>
    PROVE  Inv'
BY DEF Respond, StartOp, Inv, serverVars, acceptVars, clientVars, TypeOK, ProtocolInv, ListedInv, AcceptedInv

LEMMA HandlerStep ==
    ASSUME Inv, NEW c \in Clients, Handler(c)
    PROVE  Inv'
<1> USE DEF Inv, serverVars, acceptVars, connVars, clientVars
<1>1. CASE ReadMore(c)
    BY <1>1 DEF ReadMore, ReadReady, StartOp, HandlerEnds, TypeOK, ProtocolInv, ListedInv, AcceptedInv
<1>2. CASE Answer(c)
    <2>1. CASE Respond(c, StatusOf(want[c])) /\ UNCHANGED serverVars
        BY <1>2, <2>1, RespondStep, StatusOfType DEF Answer, ReadReady, HandlerEnds
    <2>2. CASE Terminate /\ UNCHANGED <<op, done, protocol, response>>
        BY <1>2, <2>2 DEF Answer, ReadReady, HandlerEnds, Terminate, TypeOK, ProtocolInv, ListedInv, AcceptedInv
    <2> QED
        BY <1>2, <2>1, <2>2 DEF Answer
<1>3. CASE AnswerMalformed(c)
    BY <1>3, RespondStep DEF AnswerMalformed, ReadReady, HandlerEnds, StatusCodes
<1>4. CASE ReadFails(c)
    BY <1>4, StopConnectionStep DEF ReadFails, ReadReady, HandlerEnds
<1>5. CASE OperationAborted(c)
    BY <1>5 DEF OperationAborted, HandlerEnds, TypeOK, ProtocolInv, ListedInv, AcceptedInv
<1>6. CASE Upgrade(c)
    <2>1. handling' = {} \/ handling' = {c}
        BY <1>6 DEF Upgrade, IdSearch
    <2> QED
        BY <1>6, <2>1 DEF Upgrade, TypeOK, ProtocolInv, ListedInv, AcceptedInv
<1>7. CASE WriteSucceeds(c)
    <2>1. CASE StopConnection(c) /\ UNCHANGED serverVars
        BY <1>7, <2>1, StopConnectionStep DEF WriteSucceeds, HandlerEnds
    <2>2. CASE Terminate /\ UNCHANGED <<connections, socket, op, done>>
        BY <1>7, <2>2 DEF WriteSucceeds, HandlerEnds, Terminate, TypeOK, ProtocolInv, ListedInv, AcceptedInv
    <2> QED
        BY <1>7, <2>1, <2>2 DEF WriteSucceeds
<1>8. CASE WriteFails(c)
    BY <1>8, StopConnectionStep DEF WriteFails, HandlerEnds
<1> QED
    BY <1>1, <1>2, <1>3, <1>4, <1>5, <1>6, <1>7, <1>8 DEF Handler, OperationEnds

(* What closing the sockets of some connections leaves of the invariant.    *)
LEMMA ClosingKeepsInv ==
    ASSUME Inv, NEW S \in SUBSET Clients,
           socket' = ClosedSockets(S), done' = Cancelled(S), connections' \subseteq connections,
           acceptorOpen' \in BOOLEAN,
           acceptOp' = acceptOp \/ (acceptOp = "pending" /\ acceptOp' = "failed"),
           toStop' \subseteq Clients, server' \in {"running", "stopped", "terminated"},
           stopStep' \in {"stopAll", "cleared", "returned"},
           UNCHANGED <<ioThread, handling, op, protocol, response, upgraded>>, UNCHANGED clientVars
    PROVE  Inv'
<1>1. ASSUME NEW c \in Clients
      PROVE  /\ socket'[c] = IF c \in S /\ socket[c] = "open" THEN "closed" ELSE socket[c]
             /\ done'[c] = IF c \in S /\ op[c] # "none" /\ done[c] = "pending" /\ socket[c] = "open"
                           THEN "aborted" ELSE done[c]
    BY DEF ClosedSockets, Cancelled
<1>2. /\ socket' \in [Clients -> {"none", "accepted", "open", "closed", "moved"}]
      /\ done' \in [Clients -> {"pending", "ok", "error", "aborted"}]
    BY DEF ClosedSockets, Cancelled, Inv, TypeOK
<1>3. UNCHANGED <<peer, want, sent, received>>
    BY DEF clientVars
<1>4. TypeOK'
    BY <1>2, <1>3 DEF Inv, TypeOK
<1>5. ProtocolInv' /\ ListedInv' /\ AcceptedInv'
    BY <1>1 DEF Inv, ProtocolInv, ListedInv, AcceptedInv
<1> QED
    BY <1>4, <1>5 DEF Inv

LEMMA StopsStep ==
    ASSUME Inv, Stop
    PROVE  Inv'
<1> USE DEF serverVars, acceptVars, connVars, clientVars
<1>1. CASE StopFromHandler
    <2>1. connections \in SUBSET Clients /\ toStop \in SUBSET Clients
        BY DEF Inv, TypeOK
    <2> QED
        BY <1>1, <2>1, ClosingKeepsInv DEF StopFromHandler
<1>2. CASE StopClosesAcceptor
    <2>0. acceptorOpen' \in BOOLEAN
        BY <1>2, Zenon DEF StopClosesAcceptor
    <2>1. /\ toStop' = connections /\ stopStep' = "stopAll" /\ server' = server
          /\ UNCHANGED <<ioThread, handling, connections, socket, op, done, protocol, response,
                         upgraded, peer, want, sent, received>>
          /\ (acceptOp' = acceptOp \/ (acceptOp = "pending" /\ acceptOp' = "failed"))
        BY <1>2 DEF StopClosesAcceptor
    <2>2. TypeOK'
        BY <2>0, <2>1 DEF Inv, TypeOK
    <2>3. ProtocolInv' /\ ListedInv' /\ AcceptedInv'
        BY <2>1 DEF Inv, ProtocolInv, ListedInv, AcceptedInv
    <2> QED
        BY <2>2, <2>3 DEF Inv
<1>3. ASSUME NEW c \in Clients, StopOne(c)
      PROVE  Inv'
    <2>1. /\ {c} \in SUBSET Clients /\ toStop \in SUBSET Clients
          /\ acceptorOpen \in BOOLEAN
        BY DEF Inv, TypeOK
    <2> QED
        BY <1>3, <2>1, ClosingKeepsInv DEF StopOne
<1>4. CASE StopClears
    BY <1>4 DEF StopClears, Inv, TypeOK, ProtocolInv, ListedInv, AcceptedInv
<1>5. CASE StopReturns
    BY <1>5 DEF StopReturns, Inv, TypeOK, ProtocolInv, ListedInv, AcceptedInv
<1> QED
    BY <1>1, <1>2, <1>3, <1>4, <1>5 DEF Stop

LEMMA InvNext == Inv /\ [Next]_vars => Inv'
<1> SUFFICES ASSUME Inv, [Next]_vars PROVE Inv'
    OBVIOUS
<1>1. CASE UNCHANGED vars
    BY <1>1 DEF vars, serverVars, acceptVars, connVars, clientVars, Inv, TypeOK, ProtocolInv, ListedInv, AcceptedInv
<1>2. CASE AcceptFails
    BY <1>2 DEF AcceptFails, serverVars, connVars, clientVars, Inv, TypeOK, ProtocolInv, ListedInv, AcceptedInv
<1> QED
    BY <1>1, <1>2, KernelStep, AcceptStep, HandlerStep, StopsStep DEF Next, Client

LEMMA InvAlways == Spec => []Inv
BY InvInit, InvNext, PTL DEF Spec

(* The state of the server, its connections and its clients has the shape   *)
(* of HTTPServer.hpp in every reachable state.                              *)
THEOREM TypeCorrect == Spec => []TypeOK
<1>1. Inv => TypeOK
    BY DEF Inv
<1> QED
    BY <1>1, InvAlways, PTL

(* However clients, completions and handlers interleave, Connection::read   *)
(* and Connection::write never leave a listed connection without the        *)
(* operation that will end it, nor an open socket outside of Connections.   *)
THEOREM NoConnectionForgotten == Spec => []OneOperation
<1>1. Inv => OneOperation
    <2> SUFFICES ASSUME Inv, stopStep = "none"
                 PROVE  /\ \A c \in Clients : socket[c] = "open" => c \in connections
                        /\ \A c \in connections :
                             /\ protocol[c] = "HTTP" => op[c] # "none" /\ socket[c] = "open"
                             /\ protocol[c] = "HTTPUpgrading" => op[c] = "write" /\ socket[c] = "open"
                             /\ protocol[c] = "WebSocket" => op[c] = "none" /\ socket[c] = "moved"
                             /\ protocol[c] \in {"HTTP", "HTTPUpgrading", "WebSocket"}
        BY DEF OneOperation
    <2> QED
        BY DEF Inv, TypeOK, ProtocolInv, ListedInv, AcceptedInv
<1> QED
    BY <1>1, InvAlways, PTL

(* A socket given to onUpgrade by Connection::write was answered 101 and is *)
(* used by no operation of the HTTP layer any more.                         *)
THEOREM UpgradeHandsOver == Spec => []HandedOver
<1>1. Inv => HandedOver
    BY DEF Inv, TypeOK, ProtocolInv, HandedOver
<1> QED
    BY <1>1, InvAlways, PTL

-------------------------------------------------------------------------------
(* stop() called by a handler. *)
EndInv ==
    /\ server = "running" => stopStep = "none"
    /\ server = "stopped" => ioThread = "idle" /\ handling = {}
    /\ ServerSurvives
    /\ StopClosesConnections

LEMMA EndNext ==
    ASSUME StopThread = "io", Inv, EndInv, [Next]_vars
    PROVE  EndInv'
<1> USE DEF serverVars, acceptVars, connVars, clientVars, EndInv
<1>1. ASSUME NEW c \in Clients,
             Connect(c) \/ AcceptCompletes(c) \/ ReadCompletes(c) \/ WriteCompletes(c)
               \/ HandlerBegins(c)
      PROVE  EndInv'
    BY <1>1 DEF Connect, AcceptCompletes, ReadCompletes, WriteCompletes, HandlerBegins, HandlerRuns,
                ServerSurvives, StopClosesConnections
<1>2. ASSUME NEW c \in Clients, ClientSend(c) \/ ClientLeaves(c)
      PROVE  EndInv'
    BY <1>2 DEF ClientSend, ClientLeaves, ServerSurvives, StopClosesConnections, Inv, TypeOK,
                NamesMethodOutOfBounds
<1>3. CASE AcceptHandler
    BY <1>3 DEF AcceptHandler, Accepts, AcceptReturns, AcceptChecked, AcceptStarts, HandlerRuns,
                ServerSurvives, StopClosesConnections
<1>4. ASSUME NEW c \in Clients, Handler(c)
      PROVE  EndInv'
    <2>1. server = "running" /\ stopStep = "none"
        BY <1>4 DEF Handler, OperationEnds, ReadMore, Answer, AnswerMalformed, ReadFails, OperationAborted,
                    Upgrade, WriteSucceeds, WriteFails, ReadReady, HandlerEnds, InHandler, Inv, TypeOK
    <2>2. CASE UNCHANGED serverVars
        BY <2>1, <2>2 DEF ServerSurvives, StopClosesConnections
    <2>3. CASE /\ Answer(c) /\ NamesMethodOutOfBounds(c) /\ Terminate
               /\ UNCHANGED <<op, done, protocol, response>>
        <3>1. /\ c \in connections' /\ op'[c] = "read" /\ done'[c] = "ok"
              /\ want'[c] # Malformed /\ NamesMethodOutOfBounds(c)'
            BY <2>1, <2>3 DEF Answer, ReadReady, HandlerEnds, Inv, ListedInv, NamesMethodOutOfBounds
        <3>2. server' = "terminated"
            BY <2>3 DEF Terminate
        <3> QED
            BY <3>1, <3>2 DEF ServerSurvives, StopClosesConnections
    <2>4. CASE /\ WriteSucceeds(c) /\ ShutdownThrows(c) /\ Terminate
               /\ UNCHANGED <<connections, socket, op, done>>
        <3>1. op[c] = "write" /\ done[c] = "ok" /\ protocol[c] = "HTTP"
            BY <2>4 DEF WriteSucceeds
        <3>2. c \in connections /\ socket[c] = "open"
            BY <2>1, <3>1 DEF Inv, TypeOK, ListedInv, ProtocolInv
        <3>3. peer[c] = "reset"
            BY <2>4, <3>2 DEF ShutdownThrows
        <3>4. /\ c \in connections' /\ op'[c] = "write" /\ done'[c] = "ok" /\ peer'[c] = "reset"
              /\ server' = "terminated"
            BY <2>4, <3>1, <3>2, <3>3 DEF WriteSucceeds, Terminate
        <3> QED
            BY <3>4 DEF ServerSurvives, StopClosesConnections
    <2> QED
        BY <1>4, <2>2, <2>3, <2>4 DEF Handler, OperationEnds, ReadMore, Answer, AnswerMalformed, ReadFails,
                                      OperationAborted, Upgrade, WriteSucceeds, WriteFails
<1>5. CASE StopFromHandler
    <2>1. stopStep = "none" /\ server' = "stopped" /\ connections' = {} /\ op' = op
          /\ handling' = {} /\ upgraded' = upgraded
          /\ acceptOp' = (IF acceptOp = "pending" THEN "failed" ELSE acceptOp)
          /\ socket' = ClosedSockets(connections) /\ done' = Cancelled(connections)
          /\ stopStep' = "returned" /\ ioThread' = "idle"
        BY <1>5 DEF StopFromHandler, HandlerRuns
    <2>2. \A c \in Clients :
             /\ socket[c] = "open" => socket'[c] = "closed"
             /\ socket[c] # "open" => socket'[c] = socket[c]
        BY <2>1 DEF ClosedSockets, Inv, ListedInv
    <2>5. \A c \in Clients :
             \/ socket'[c] \in {"none", "closed"} \/ c \in upgraded'
             \/ socket'[c] = "accepted" /\ acceptOp' = "done"
        BY <2>1, <2>2 DEF Inv, TypeOK, ProtocolInv, AcceptedInv
    <2>6. \A c, d \in Clients : socket'[c] = "accepted" /\ socket'[d] = "accepted" => c = d
        BY <2>2 DEF Inv, AcceptedInv
    <2>3. \A c \in Clients : op[c] # "none" => c \in connections /\ socket[c] = "open"
        BY <2>1 DEF Inv, ListedInv, ProtocolInv
    <2>4. \A c \in Clients : op'[c] # "none" => done'[c] # "pending"
        BY <2>1, <2>3 DEF Cancelled
    <2> QED
        BY <2>1, <2>4, <2>5, <2>6 DEF ServerSurvives, StopClosesConnections
<1>6. ASSUME NEW c \in Clients, StopOne(c)
      PROVE  EndInv'
    BY <1>6 DEF StopOne
<1>7. CASE StopClosesAcceptor \/ StopClears \/ StopReturns
    BY <1>7 DEF StopClosesAcceptor, StopClears, StopReturns
<1>8. CASE UNCHANGED vars
    BY <1>8 DEF vars, ServerSurvives, StopClosesConnections, NamesMethodOutOfBounds
<1>9. CASE AcceptFails
    BY <1>9 DEF AcceptFails, ServerSurvives, StopClosesConnections
<1> QED
    BY <1>1, <1>2, <1>3, <1>4, <1>5, <1>6, <1>7, <1>8, <1>9 DEF Next, Client, Kernel, Stop

LEMMA EndAlways ==
    ASSUME StopThread = "io"
    PROVE  Spec => [](Inv /\ EndInv)
<1>1. Init => Inv /\ EndInv
    BY InvInit DEF Init, EndInv, ServerSurvives, StopClosesConnections
<1>2. Inv /\ EndInv /\ [Next]_vars => Inv' /\ EndInv'
    BY InvNext, EndNext
<1> QED
    BY <1>1, <1>2, PTL DEF Spec

(* When stop() is called by handlers, run() ends with an exception only for *)
(* the two causes named in ServerSurvives.                                  *)
THEOREM OnlyTwoCausesEndTheServer ==
    ASSUME StopThread = "io"
    PROVE  Spec => []ServerSurvives
<1>1. EndInv => ServerSurvives
    BY DEF EndInv
<1> QED
    BY <1>1, EndAlways, PTL

(* stop() called by a handler leaves nothing listed and nothing pending,    *)
(* whatever the connections were doing, and of the sockets only those that  *)
(* were handed over and at most one that was accepted but not looked at.    *)
THEOREM StopLeavesOneAccepted ==
    ASSUME StopThread = "io"
    PROVE  Spec => []StopClosesConnections
<1>1. EndInv => StopClosesConnections
    BY DEF EndInv
<1> QED
    BY <1>1, EndAlways, PTL

-------------------------------------------------------------------------------
(* As long as the server runs nobody has called stop(), and when it was     *)
(* called no handler was left in the middle.                                *)
UnstoppedInv ==
    /\ server = "running" =>
         /\ stopStep = "none" /\ acceptorOpen
         /\ \A c \in Clients : done[c] # "aborted"
    /\ server = "stopped" => handling = {}

LEMMA UnstoppedNext ==
    ASSUME StopThread = "io", UnstoppedInv, TypeOK, [Next]_vars
    PROVE  UnstoppedInv' /\ [OneThreadNext]_vars
<1> USE DEF serverVars, acceptVars, connVars, clientVars
<1>1. CASE UNCHANGED vars
    BY <1>1 DEF vars, UnstoppedInv
<1>2. ASSUME NEW c \in Clients, Client(c)
      PROVE  UnstoppedInv' /\ OneThreadNext
    BY <1>2 DEF Client, Connect, ClientSend, ClientLeaves, UnstoppedInv, OneThreadNext
<1>3. ASSUME NEW c \in Clients, Kernel(c)
      PROVE  UnstoppedInv' /\ OneThreadNext
    BY <1>3 DEF Kernel, AcceptCompletes, ReadCompletes, WriteCompletes, UnstoppedInv,
                OneThreadNext, TypeOK
<1>4. ASSUME NEW c \in Clients, Handler(c)
      PROVE  UnstoppedInv' /\ OneThreadNext
    <2>1. server = "running"
        BY <1>4 DEF Handler, OperationEnds, OperationAborted, ReadMore, Answer, AnswerMalformed,
                    ReadFails, Upgrade, WriteSucceeds, WriteFails, ReadReady, HandlerEnds,
                    InHandler, UnstoppedInv, TypeOK
    <2>2. OperationEnds(c)
        BY <1>4, <2>1 DEF Handler, OperationAborted, UnstoppedInv
    <2>5. server' \in {"running", "terminated"}
        BY <2>1, <2>2 DEF OperationEnds, ReadMore, Answer, AnswerMalformed, ReadFails, Upgrade,
                    WriteSucceeds, WriteFails, Terminate
    <2>3. /\ done' = done \/ \E v \in {"pending", "error"} : done' = [done EXCEPT ![c] = v]
          /\ acceptorOpen' = acceptorOpen /\ stopStep' = stopStep
        <3>1. CASE ReadMore(c) \/ AnswerMalformed(c) \/ ReadFails(c) \/ Upgrade(c) \/ WriteFails(c)
            BY <3>1 DEF ReadMore, AnswerMalformed, ReadFails, Upgrade, WriteFails, Respond, StartOp,
                        StopConnection
        <3>2. CASE Answer(c)
            BY <3>2 DEF Answer, Respond, StartOp, Terminate
        <3>3. CASE WriteSucceeds(c)
            BY <3>3 DEF WriteSucceeds, StopConnection, Terminate
        <3> QED
            BY <2>2, <3>1, <3>2, <3>3 DEF OperationEnds
    <2>4. \A d \in Clients : done'[d] # "aborted"
        BY <2>1, <2>3 DEF UnstoppedInv, TypeOK
    <2> QED
        BY <2>1, <2>2, <2>3, <2>4, <2>5 DEF UnstoppedInv, OneThreadNext
<1>5. CASE AcceptFails
    BY <1>5 DEF AcceptFails, UnstoppedInv, OneThreadNext
<1>6. CASE AcceptHandler
    BY <1>6 DEF AcceptHandler, Accepts, AcceptReturns, AcceptChecked, AcceptStarts, HandlerRuns,
                StartOp, UnstoppedInv, OneThreadNext, TypeOK
<1>7. CASE StopFromHandler
    BY <1>7 DEF StopFromHandler, HandlerRuns, UnstoppedInv, OneThreadNext
<1>9. ASSUME NEW c \in Clients, HandlerBegins(c)
      PROVE  UnstoppedInv' /\ OneThreadNext
    BY <1>9 DEF HandlerBegins, HandlerRuns, UnstoppedInv, OneThreadNext
<1>8. CASE StopClosesAcceptor \/ StopClears \/ StopReturns \/ \E c \in Clients : StopOne(c)
    BY <1>8 DEF StopClosesAcceptor, StopClears, StopReturns, StopOne, UnstoppedInv
<1> QED
    BY <1>1, <1>2, <1>3, <1>4, <1>5, <1>6, <1>7, <1>8, <1>9 DEF Next, Stop

(* With stop() called by handlers alone, the server does nothing but what   *)
(* OneThreadSpec says: the run of it is one of the whole server.            *)
THEOREM OneThreadRuns ==
    ASSUME StopThread = "io"
    PROVE  Spec => OneThreadSpec
<1>1. Init => UnstoppedInv
    BY DEF Init, UnstoppedInv
<1>2. Inv /\ UnstoppedInv /\ [Next]_vars => UnstoppedInv' /\ [OneThreadNext]_vars
    BY UnstoppedNext DEF Inv
<1> QED
    BY <1>1, <1>2, InvAlways, PTL DEF Spec, OneThreadSpec
===============================================================================
