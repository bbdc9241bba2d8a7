------------------------------ MODULE HttpServer ------------------------------
(***************************************************************************)
(* http::Server with its Connections and RequestHandler                    *)
(* (include/http/HTTPServer.hpp).                                           *)
(*                                                                         *)
(* One thread runs the io_context and executes completion handlers one at  *)
(* a time.  Every connection has at most one asynchronous operation: op[c] *)
(* says which, done[c] whether it is pending or with what it completed     *)
(* (its handler is then queued).  Server::stop is called from a handler or *)
(* from another thread, and is cut into its calls in the latter case; so   *)
(* is a handler, into its begin and its effect: ioContext.stop() does not  *)
(* wait for one that runs.                                                 *)
(*                                                                         *)
(* Requests are abstract: what RequestHandler looks at.  Their parsing is  *)
(* reduced to what Connection::read distinguishes: not complete yet,       *)
(* complete, or malformed.                                                 *)
(***************************************************************************)
EXTENDS Naturals, FiniteSets

CONSTANTS
    Clients,        \* the TCP clients, each connects at most once
    Requests,       \* what a client asks for
    Malformed,      \* a request the parser rejects
    Plain, Encoded, \* paths the file system serves as they are, or encoded
    IdSpace,        \* how many links BasicWF has identifiers for
    StopThread      \* who calls Server::stop: "io" (a handler) or "main"

ASSUME HttpAssumption ==
    /\ IsFiniteSet(Clients)
    /\ Malformed \notin Requests
    /\ IdSpace \in Nat
    /\ StopThread \in {"io", "main"}

VARIABLES
    acceptorOpen,  \* acceptor.is_open()
    acceptOp,      \* the asynchronous accept
    ioThread,      \* "accepting" between the is_open check and the rest
    handling,      \* whose operation's handler runs, if any
    connections,   \* Connections::connections
    socket,        \* the server's socket of each client
    op, done,      \* the asynchronous operation of each connection
    protocol,      \* Connection::protocol
    response,      \* status code of Connection::response, 0 before
    upgraded,      \* sockets given to onUpgrade
    server,        \* what ioContext.run() is doing
    stopStep,      \* progress of Server::stop
    toStop,        \* connections the loop of stopAll has not reached
    peer,          \* the client's end of the TCP connection
    want,          \* what the client asks for
    sent, received \* how much of the request the client wrote, the server read

serverVars == <<server, stopStep, toStop>>
acceptVars == <<acceptorOpen, acceptOp, ioThread>>
connVars == <<connections, socket, op, done, protocol, response, upgraded>>
clientVars == <<peer, want, sent, received>>
vars == <<serverVars, acceptVars, handling, connVars, clientVars>>

-------------------------------------------------------------------------------
(* RequestHandler::handleRequest: the status of the answer.                 *)

StatusCodes == {101, 200, 400, 404, 501, 506}

(* decoded uri empty, not absolute, or with "..". *)
IllegalPath(r) == r.path = "illegal"

UpgradeAccepted(r) == r.method = "Get" /\ r.upgrade /\ r.key

(* Mutant of FileStatus: a status the Response class does not know. *)
FileStatusNotAcceptable(r) ==
    IF r.path \notin Plain \cup Encoded THEN 404
    ELSE IF r.path \in Encoded /\ ~r.accepts THEN 406 ELSE 200

(* Opening a file for Get or Head, after the upgrade was ruled out. *)
FileStatus(r) ==
    CASE r.path \notin Plain \cup Encoded                        -> 404
      [] r.method = "Get" /\ r.path \in Encoded /\ ~r.accepts    -> 506
      [] OTHER                                                   -> 200

StatusOf(r) ==
    CASE IllegalPath(r)                -> 400
      [] r.method \notin {"Get", "Head"} -> 501
      [] UpgradeAccepted(r)            -> 101
      [] OTHER                         -> FileStatus(r)

-------------------------------------------------------------------------------
Init ==
    /\ acceptorOpen = TRUE /\ acceptOp = "pending" /\ ioThread = "idle"
    /\ handling = {} /\ connections = {} /\ upgraded = {}
    /\ socket = [c \in Clients |-> "none"]
    /\ op = [c \in Clients |-> "none"]
    /\ done = [c \in Clients |-> "pending"]
    /\ protocol = [c \in Clients |-> "HTTP"]
    /\ response = [c \in Clients |-> 0]
    /\ server = "running" /\ stopStep = "none" /\ toStop = {}
    /\ peer = [c \in Clients |-> "absent"]
    /\ want = [c \in Clients |-> Malformed]
    /\ sent = [c \in Clients |-> "nothing"]
    /\ received = [c \in Clients |-> "nothing"]

-------------------------------------------------------------------------------
(* The clients and the kernel. *)

Connect(c) ==
    /\ peer[c] = "absent" /\ acceptorOpen /\ server = "running"
    /\ peer' = [peer EXCEPT ![c] = "connected"]
    /\ \E r \in Requests \cup {Malformed} : want' = [want EXCEPT ![c] = r]
    /\ UNCHANGED <<serverVars, acceptVars, handling, connVars, sent, received>>

ClientSend(c) ==
    /\ peer[c] = "connected" /\ sent[c] # "whole"
    /\ \E s \in {"part", "whole"} : s # sent[c] /\ sent' = [sent EXCEPT ![c] = s]
    /\ UNCHANGED <<serverVars, acceptVars, handling, connVars, peer, want, received>>

(* The client closes its end (the server reads EOF), or the connection is   *)
(* reset (nothing can be read, written or shut down any more).              *)
ClientLeaves(c) ==
    /\ \/ peer[c] = "connected" /\ peer' = [peer EXCEPT ![c] = "closed"]
       \/ peer[c] \in {"connected", "closed"} /\ peer' = [peer EXCEPT ![c] = "reset"]
    /\ UNCHANGED <<serverVars, acceptVars, handling, connVars, want, sent, received>>

AcceptCompletes(c) ==
    /\ server = "running" /\ acceptOp = "pending"
    /\ peer[c] # "absent" /\ socket[c] = "none"
    /\ acceptOp' = "done"
    /\ socket' = [socket EXCEPT ![c] = "accepted"]
    /\ UNCHANGED <<serverVars, acceptorOpen, ioThread, handling, connections, op, done,
                   protocol, response, upgraded, clientVars>>

(* For instance no file descriptor is left. *)
AcceptFails ==
    /\ server = "running" /\ acceptOp = "pending"
    /\ acceptOp' = "failed"
    /\ UNCHANGED <<serverVars, acceptorOpen, ioThread, handling, connVars, clientVars>>

ReadCompletes(c) ==
    /\ op[c] = "read" /\ done[c] = "pending" /\ server = "running"
    /\ \/ /\ peer[c] # "reset" /\ sent[c] # received[c]
          /\ done' = [done EXCEPT ![c] = "ok"]
          /\ received' = [received EXCEPT ![c] = sent[c]]
       \/ /\ peer[c] = "reset" \/ (peer[c] = "closed" /\ sent[c] = received[c])
          /\ done' = [done EXCEPT ![c] = "error"]
          /\ UNCHANGED received
    /\ UNCHANGED <<serverVars, acceptVars, handling, connections, socket, op, protocol,
                   response, upgraded, peer, want, sent>>

WriteCompletes(c) ==
    /\ op[c] = "write" /\ done[c] = "pending" /\ server = "running"
    /\ done' = [done EXCEPT ![c] = IF peer[c] = "reset" THEN "error" ELSE "ok"]
    /\ UNCHANGED <<serverVars, acceptVars, handling, connections, socket, op, protocol,
                   response, upgraded, clientVars>>

-------------------------------------------------------------------------------
(* What the handlers have in common. *)

HandlerRuns == server = "running" /\ ioThread = "idle" /\ handling = {}

(* The handler of c's operation is called with the result of the operation. *)
HandlerBegins(c) ==
    /\ HandlerRuns /\ op[c] # "none" /\ done[c] # "pending"
    /\ handling' = {c}
    /\ UNCHANGED <<serverVars, acceptVars, connVars, clientVars>>

(* It goes to its end though the io_context was stopped meanwhile.          *)
InHandler(c) == server # "terminated" /\ handling = {c}
HandlerEnds(c) == InHandler(c) /\ handling' = {}

(* async_read_some and async_write: on a closed socket they fail. *)
StartOp(c, kind) ==
    /\ op' = [op EXCEPT ![c] = kind]
    /\ done' = [done EXCEPT ![c] = IF socket[c] = "open" THEN "pending" ELSE "error"]

(* Mutant of ClosedSockets: the socket is not closed. *)
ClosedSocketsNone(S) == socket

(* Connection::stop: closing a socket cancels what is pending on it. *)
ClosedSockets(S) ==
    [c \in Clients |-> IF c \in S /\ socket[c] = "open" THEN "closed" ELSE socket[c]]
Cancelled(S) ==
    [c \in Clients |-> IF c \in S /\ op[c] # "none" /\ done[c] = "pending" /\ socket[c] = "open"
                       THEN "aborted" ELSE done[c]]

(* Mutant of StopConnection: the connection stays in the set. *)
StopConnectionKept(c) ==
    /\ connections' = connections
    /\ socket' = ClosedSockets({c})
    /\ op' = [op EXCEPT ![c] = "none"]
    /\ done' = [done EXCEPT ![c] = "pending"]

(* Connections::stop from the handler of c's operation, which is over. *)
StopConnection(c) ==
    /\ connections' = connections \ {c}
    /\ socket' = ClosedSockets({c})
    /\ op' = [op EXCEPT ![c] = "none"]
    /\ done' = [done EXCEPT ![c] = "pending"]

(* An exception leaves ioContext.run(). *)
Terminate == server' = "terminated" /\ UNCHANGED <<stopStep, toStop>>

-------------------------------------------------------------------------------
(* Server::accept. *)

AcceptArmed == IF acceptorOpen THEN "pending" ELSE "failed"

(* The acceptor was closed: the socket, if any, is destroyed. *)
AcceptReturns ==
    /\ HandlerRuns /\ acceptOp \in {"done", "failed"} /\ ~acceptorOpen
    /\ acceptOp' = "none"
    /\ socket' = [c \in Clients |-> IF socket[c] = "accepted" THEN "closed" ELSE socket[c]]
    /\ UNCHANGED <<serverVars, acceptorOpen, ioThread, handling, connections, op, done,
                   protocol, response, upgraded, clientVars>>

AcceptChecked ==
    /\ HandlerRuns /\ acceptOp \in {"done", "failed"} /\ acceptorOpen
    /\ ioThread' = "accepting"
    /\ UNCHANGED <<serverVars, acceptorOpen, acceptOp, handling, connVars, clientVars>>

(* Connections::start and Connection::start, then accept() again; it too    *)
(* goes to its end though the io_context was stopped meanwhile.             *)
AcceptStarts ==
    LET new == {c \in Clients : socket[c] = "accepted"} IN
    /\ server # "terminated" /\ ioThread = "accepting"
    /\ ioThread' = "idle"
    /\ connections' = connections \cup new
    /\ socket' = [c \in Clients |-> IF c \in new THEN "open" ELSE socket[c]]
    /\ op' = [c \in Clients |-> IF c \in new THEN "read" ELSE op[c]]
    /\ acceptOp' = AcceptArmed
    /\ UNCHANGED <<serverVars, acceptorOpen, handling, done, protocol, response, upgraded,
                   clientVars>>

-------------------------------------------------------------------------------
(* The handler of Connection::read. *)

ReadReady(c, result) ==
    HandlerEnds(c) /\ op[c] = "read" /\ done[c] = result /\ protocol[c] = "HTTP"

Respond(c, status) ==
    /\ response' = [response EXCEPT ![c] = status]
    /\ protocol' = IF status = 101 THEN [protocol EXCEPT ![c] = "HTTPUpgrading"] ELSE protocol
    /\ StartOp(c, "write")

(* Mutant of ReadMore: the rest of the request is not read. *)
ReadMoreForgotten(c) ==
    /\ ReadReady(c, "ok") /\ received[c] = "part"
    /\ op' = [op EXCEPT ![c] = "none"]
    /\ done' = [done EXCEPT ![c] = "pending"]
    /\ UNCHANGED <<serverVars, acceptVars, connections, socket, protocol, response, upgraded,
                   clientVars>>

ReadMore(c) ==
    /\ ReadReady(c, "ok") /\ received[c] = "part"
    /\ StartOp(c, "read")
    /\ UNCHANGED <<serverVars, acceptVars, connections, socket, protocol, response, upgraded,
                   clientVars>>

(* A method that is not one of the nine: getMethodName indexes past the     *)
(* array of names, and the program may do anything; here, die or go on.     *)
NamesMethodOutOfBounds(c) == want[c].method = "Undefined"

Answer(c) ==
    /\ ReadReady(c, "ok") /\ received[c] = "whole" /\ want[c] # Malformed
    /\ \/ /\ Respond(c, StatusOf(want[c]))
          /\ UNCHANGED serverVars
       \/ /\ NamesMethodOutOfBounds(c)
          /\ Terminate
          /\ UNCHANGED <<op, done, protocol, response>>
    /\ UNCHANGED <<acceptVars, connections, socket, upgraded, clientVars>>

(* BadRequestException, possibly before the client has written all. *)
AnswerMalformed(c) ==
    /\ ReadReady(c, "ok") /\ want[c] = Malformed
    /\ Respond(c, 400)
    /\ UNCHANGED <<serverVars, acceptVars, connections, socket, upgraded, clientVars>>

ReadFails(c) ==
    /\ ReadReady(c, "error")
    /\ StopConnection(c)
    /\ UNCHANGED <<serverVars, acceptVars, protocol, response, upgraded, clientVars>>

(* Aborted: the handler returns and the last shared_ptr goes with it. *)
OperationAborted(c) ==
    /\ HandlerEnds(c) /\ op[c] # "none" /\ done[c] = "aborted"
    /\ protocol[c] # "HTTPUpgrading"
    /\ op' = [op EXCEPT ![c] = "none"]
    /\ done' = [done EXCEPT ![c] = "pending"]
    /\ UNCHANGED <<serverVars, acceptVars, connections, socket, protocol, response, upgraded,
                   clientVars>>

-------------------------------------------------------------------------------
(* The handler of Connection::write. *)

(* BasicWF's handler looks for a free identifier, and looks for ever when   *)
(* every one has its link: handlers do not run any more.                    *)
IdSearch(c) ==
    handling' = IF Cardinality(upgraded) < IdSpace THEN {} ELSE {c}

(* Mutant of Upgrade: the connection goes on reading. *)
UpgradeAndRead(c) ==
    /\ InHandler(c) /\ IdSearch(c) /\ op[c] = "write" /\ done[c] # "pending"
    /\ protocol[c] = "HTTPUpgrading"
    /\ protocol' = [protocol EXCEPT ![c] = "WebSocket"]
    /\ upgraded' = upgraded \cup {c}
    /\ socket' = [socket EXCEPT ![c] = "moved"]
    /\ op' = [op EXCEPT ![c] = "read"]
    /\ done' = [done EXCEPT ![c] = "pending"]
    /\ UNCHANGED <<serverVars, acceptVars, connections, response, clientVars>>

(* After a 101 answer, whatever the result of the write. *)
Upgrade(c) ==
    /\ InHandler(c) /\ IdSearch(c) /\ op[c] = "write" /\ done[c] # "pending"
    /\ protocol[c] = "HTTPUpgrading"
    /\ protocol' = [protocol EXCEPT ![c] = "WebSocket"]
    /\ upgraded' = upgraded \cup {c}
    /\ socket' = [socket EXCEPT ![c] = "moved"]
    /\ op' = [op EXCEPT ![c] = "none"]
    /\ done' = [done EXCEPT ![c] = "pending"]
    /\ UNCHANGED <<serverVars, acceptVars, connections, response, clientVars>>

(* Mutant of ShutdownThrows: a client that closed its end is enough. *)
ShutdownThrowsOnClose(c) == peer[c] \in {"closed", "reset"} \/ socket[c] # "open"

(* socket.shutdown throws when the peer is gone or the socket is closed. *)
ShutdownThrows(c) == peer[c] = "reset" \/ socket[c] # "open"

WriteSucceeds(c) ==
    /\ HandlerEnds(c) /\ op[c] = "write" /\ done[c] = "ok" /\ protocol[c] = "HTTP"
    /\ \/ /\ ~ShutdownThrows(c)
          /\ StopConnection(c)
          /\ UNCHANGED serverVars
       \/ /\ ShutdownThrows(c)
          /\ Terminate
          /\ UNCHANGED <<connections, socket, op, done>>
    /\ UNCHANGED <<acceptVars, protocol, response, upgraded, clientVars>>

WriteFails(c) ==
    /\ HandlerEnds(c) /\ op[c] = "write" /\ done[c] = "error" /\ protocol[c] = "HTTP"
    /\ StopConnection(c)
    /\ UNCHANGED <<serverVars, acceptVars, protocol, response, upgraded, clientVars>>

-------------------------------------------------------------------------------
(* Server::stop, called by a handler: acceptor.close, stopAll, ioContext.stop. *)
StopFromHandler ==
    /\ StopThread = "io" /\ HandlerRuns
    /\ acceptorOpen' = FALSE
    /\ acceptOp' = IF acceptOp = "pending" THEN "failed" ELSE acceptOp
    /\ socket' = ClosedSockets(connections)
    /\ done' = Cancelled(connections)
    /\ connections' = {}
    /\ server' = "stopped" /\ stopStep' = "returned"
    /\ UNCHANGED <<ioThread, handling, toStop, op, protocol, response, upgraded, clientVars>>

(* Mutant of StopClosesAcceptor: stop() forgets acceptor.close(). *)
StopKeepsAccepting ==
    /\ StopThread = "main" /\ stopStep = "none" /\ server = "running"
    /\ stopStep' = "stopAll" /\ toStop' = connections
    /\ UNCHANGED <<acceptVars, handling, connVars, clientVars, server>>

(* The same calls from another thread, while handlers run. *)
StopClosesAcceptor ==
    /\ StopThread = "main" /\ stopStep = "none" /\ server = "running"
    /\ acceptorOpen' = FALSE
    /\ acceptOp' = IF acceptOp = "pending" THEN "failed" ELSE acceptOp
    /\ stopStep' = "stopAll" /\ toStop' = connections
    /\ UNCHANGED <<ioThread, handling, connVars, clientVars, server>>

StopOne(c) ==
    /\ stopStep = "stopAll" /\ c \in toStop /\ server = "running"
    /\ toStop' = toStop \ {c}
    /\ socket' = ClosedSockets({c})
    /\ done' = Cancelled({c})
    /\ UNCHANGED <<server, stopStep, acceptVars, handling, connections, op, protocol,
                   response, upgraded, clientVars>>

StopClears ==
    /\ stopStep = "stopAll" /\ toStop = {} /\ server = "running"
    /\ connections' = {}
    /\ stopStep' = "cleared"
    /\ UNCHANGED <<server, toStop, acceptVars, handling, socket, op, done, protocol, response,
                   upgraded, clientVars>>

(* Mutant of StopReturns: stop() forgets ioContext.stop(). *)
StopLeavesRunning ==
    /\ stopStep = "cleared" /\ server = "running"
    /\ stopStep' = "returned" /\ server' = server
    /\ UNCHANGED <<toStop, acceptVars, handling, connVars, clientVars>>

StopReturns ==
    /\ stopStep = "cleared" /\ server = "running"
    /\ stopStep' = "returned" /\ server' = "stopped"
    /\ UNCHANGED <<toStop, acceptVars, handling, connVars, clientVars>>

-------------------------------------------------------------------------------
Kernel(c) == AcceptCompletes(c) \/ ReadCompletes(c) \/ WriteCompletes(c)

OperationEnds(c) ==
    \/ ReadMore(c) \/ Answer(c) \/ AnswerMalformed(c) \/ ReadFails(c)
    \/ Upgrade(c) \/ WriteSucceeds(c) \/ WriteFails(c)

Handler(c) == OperationEnds(c) \/ OperationAborted(c)

Accepts == AcceptChecked \/ AcceptStarts

AcceptHandler == AcceptReturns \/ Accepts

Client(c) == Connect(c) \/ ClientSend(c) \/ ClientLeaves(c)

Stop ==
    \/ StopFromHandler \/ StopClosesAcceptor \/ StopClears \/ StopReturns
    \/ \E c \in Clients : StopOne(c)

Next ==
    \/ \E c \in Clients : Client(c) \/ Kernel(c) \/ HandlerBegins(c) \/ Handler(c)
    \/ AcceptFails \/ AcceptHandler \/ Stop

Spec == Init /\ [][Next]_vars

(* The kernel completes a read that has bytes or an error to report, and a  *)
(* write whose connection is reset; any other write waits for the client to *)
(* read, which no client has to do.  A handler that runs goes to its end.   *)
(* The io_context runs queued handlers in FIFO order, so that one may have  *)
(* to let others run first, even the accept handler again and again while   *)
(* accept fails, but not for ever: strong fairness.                         *)
Fairness ==
    /\ SF_vars(AcceptHandler)
    /\ \A c \in Clients :
         /\ WF_vars(ReadCompletes(c)) /\ WF_vars(peer[c] = "reset" /\ WriteCompletes(c))
         /\ SF_vars(HandlerBegins(c)) /\ WF_vars(Handler(c))

(* What is left of it when only handlers call stop(): no handler finds the  *)
(* acceptor closed or its operation aborted, since none runs after stop().  *)
(* (HttpServerProofs!OneThreadRuns)                                         *)
OneThreadNext ==
    \/ \E c \in Clients : Client(c) \/ Kernel(c) \/ HandlerBegins(c) \/ OperationEnds(c)
    \/ AcceptFails \/ Accepts \/ StopFromHandler

OneThreadSpec == Init /\ [][OneThreadNext]_vars

OneThreadFairSpec == OneThreadSpec /\ Fairness

-------------------------------------------------------------------------------
TypeOK ==
    /\ acceptorOpen \in BOOLEAN
    /\ acceptOp \in {"none", "pending", "done", "failed"}
    /\ ioThread \in {"idle", "accepting"}
    /\ handling = {} \/ \E c \in Clients : handling = {c}
    /\ connections \subseteq Clients /\ upgraded \subseteq Clients /\ toStop \subseteq Clients
    /\ socket \in [Clients -> {"none", "accepted", "open", "closed", "moved"}]
    /\ op \in [Clients -> {"none", "read", "write"}]
    /\ done \in [Clients -> {"pending", "ok", "error", "aborted"}]
    /\ protocol \in [Clients -> {"HTTP", "HTTPUpgrading", "WebSocket"}]
    /\ response \in [Clients -> StatusCodes \cup {0}]
    /\ server \in {"running", "stopped", "terminated"}
    /\ stopStep \in {"none", "stopAll", "cleared", "returned"}
    /\ peer \in [Clients -> {"absent", "connected", "closed", "reset"}]
    /\ want \in [Clients -> Requests \cup {Malformed}]
    /\ sent \in [Clients -> {"nothing", "part", "whole"}]
    /\ received \in [Clients -> {"nothing", "part", "whole"}]

(* No connection is forgotten: as long as stop() was not called, an open    *)
(* socket belongs to a listed connection that waits for exactly the         *)
(* operation its protocol state calls for, and a listed connection without  *)
(* an operation is one whose socket went to the websocket layer.            *)
OneOperation ==
    stopStep = "none" =>
        /\ \A c \in Clients : socket[c] = "open" => c \in connections
        /\ \A c \in connections :
             CASE protocol[c] = "HTTP"          -> op[c] # "none" /\ socket[c] = "open"
               [] protocol[c] = "HTTPUpgrading" -> op[c] = "write" /\ socket[c] = "open"
               [] protocol[c] = "WebSocket"     -> op[c] = "none" /\ socket[c] = "moved"

(* The HTTP layer is through with a socket once it was handed to onUpgrade: *)
(* it was answered 101, and no operation of the connection uses it again.   *)
HandedOver ==
    /\ \A c \in upgraded :
         response[c] = 101 /\ protocol[c] = "WebSocket" /\ socket[c] = "moved" /\ op[c] = "none"
    /\ \A c \in Clients : socket[c] = "moved" => c \in upgraded

(* As far as the HTTP layer goes (what links throw is left to them), run()  *)
(* ends with an exception only when shutdown() is called on a connection    *)
(* that the peer has reset after its answer was written, or when a request  *)
(* has an unknown method; a client that leaves at any other moment, a       *)
(* malformed request or a failed accept never stop the server.              *)
ServerSurvives ==
    server = "terminated" =>
        \E c \in connections :
            \/ op[c] = "write" /\ done[c] = "ok" /\ peer[c] = "reset"
            \/ op[c] = "read" /\ done[c] = "ok" /\ want[c] # Malformed /\ NamesMethodOutOfBounds(c)

(* stop() called by a handler leaves no connection listed, no operation of  *)
(* one pending and no socket of one open.  It leaves two kinds of sockets:  *)
(* those that went to onUpgrade, and one whose accept had completed, its    *)
(* handler being still queued: it is not run any more, and the socket stays *)
(* with it until the io_context is destroyed.                               *)
StopClosesConnections ==
    server = "stopped" =>
        /\ connections = {}
        /\ \A c \in Clients :
             /\ op[c] # "none" => done[c] # "pending"
             /\ \/ socket[c] \in {"none", "closed"}
                \/ c \in upgraded
                \/ socket[c] = "accepted" /\ acceptOp = "done"
        /\ \A c, d \in Clients : socket[c] = "accepted" /\ socket[d] = "accepted" => c = d

(* Nothing in the server times out: a client keeps its connection by        *)
(* sending no more of its request, or by not reading its answer.            *)
Held(c) ==
    /\ done[c] = "pending"
    /\ \/ op[c] = "read" /\ peer[c] = "connected" /\ sent[c] = received[c]
       \/ op[c] = "write" /\ peer[c] # "reset"

(* The handler of an upgrade that finds no identifier. *)
Spinning == \E c \in handling : protocol[c] = "WebSocket"

(* Every accepted connection is answered and dropped, or upgraded, as long  *)
(* as handlers run, unless its own client holds it up for ever: no other    *)
(* client, no failed accept and no request in parts keeps it from that.     *)
EventuallyDropped ==
    \A c \in Clients :
        \/ <>[]Held(c)
        \/ c \in connections ~>
               c \notin connections \/ c \in upgraded \/ server # "running" \/ Spinning

(* When stop() runs beside the handlers, at most one connection slips       *)
(* through it: the one whose accept handler had already found the acceptor  *)
(* open.                                                                    *)
AtMostOneSlipsThrough ==
    stopStep \in {"cleared", "returned"} =>
        Cardinality({c \in Clients : socket[c] = "open"}) <= 1

(* ~BasicWF: "Ensure clean shutdown if user forgot to stop explicitly"      *)
(* (WebFront.hpp:108): stop() beside a running server thread does not make  *)
(* that thread die of an exception.                                         *)
CleanShutdown ==
    server = "terminated" /\ stopStep # "none" =>
        \E c \in Clients : peer[c] = "reset" \/ (want[c] # Malformed /\ NamesMethodOutOfBounds(c))
===============================================================================
