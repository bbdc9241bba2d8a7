------------------------------ MODULE UiLifecycle ------------------------------
(***************************************************************************)
(* BasicWF and the program around it (include/WebFront.hpp): openAndRun     *)
(* starts a thread that runs the server, shows the window and, when that    *)
(* closes, stops the server and joins the thread; ~BasicWF stops and joins  *)
(* in any case.  The server is HttpServer, stopped from another thread      *)
(* than the one that runs it.                                               *)
(***************************************************************************)
EXTENDS HttpServer

CONSTANT MaxOpens   \* bound: calls of openAndRun, with an embedded window or without

ASSUME UiAssumption == StopThread = "main" /\ MaxOpens \in [BOOLEAN -> Nat]

VARIABLES
    embedded,   \* webfrontEmbedCEF: the window is ours, or the system's browser
    app,        \* what the program's main thread does
    leaving,    \* it is in ~BasicWF
    opens,      \* calls of openAndRun
    thread      \* serverThread: none (not joinable), running, ended

uiVars == <<embedded, app, leaving, opens, thread>>
allVars == <<vars, uiVars>>

UiInit ==
    /\ Init
    /\ embedded \in BOOLEAN /\ app = "idle" /\ leaving = FALSE
    /\ opens = 0 /\ thread = "none"

(* std::terminate, when an exception left the server thread, ends it all. *)
Alive == server # "terminated"

-------------------------------------------------------------------------------
(* Mutant of OpenAndRun: the io_context is restarted for the new thread. *)
OpenAndRestart ==
    /\ Alive /\ app = "idle" /\ ~leaving /\ opens < MaxOpens[embedded]
    /\ opens' = opens + 1
    /\ thread' = IF thread = "none" THEN "running" ELSE thread
    /\ server' = "running" /\ app' = "window"
    /\ UNCHANGED <<stopStep, toStop, acceptVars, handling, connVars, clientVars, embedded, leaving>>

(* A thread that is joinable, even one that has ended, is not started anew; *)
(* a stopped io_context is never restarted.                                 *)
OpenAndRun ==
    /\ Alive /\ app = "idle" /\ ~leaving /\ opens < MaxOpens[embedded]
    /\ opens' = opens + 1
    /\ thread' = IF thread = "none" THEN "running" ELSE thread
    /\ app' = "window"
    /\ UNCHANGED <<vars, embedded, leaving>>

(* stop() may have been called before, at the end of another window. *)
Stopping == IF stopStep = "none" THEN "stopping" ELSE "stopping again"

(* cef::open returns when the window was closed; browser::open when someone *)
(* has pressed Enter, and it throws when there is no browser to start.      *)
WindowReturns ==
    /\ Alive /\ app = "window"
    /\ \/ embedded /\ app' = Stopping /\ UNCHANGED leaving
       \/ ~embedded /\ app' = "idle" /\ UNCHANGED leaving
       \/ ~embedded /\ app' = Stopping /\ leaving' = TRUE
    /\ UNCHANGED <<vars, embedded, opens, thread>>

Destructor ==
    /\ Alive /\ app = "idle" /\ ~leaving
    /\ leaving' = TRUE /\ app' = Stopping
    /\ UNCHANGED <<vars, embedded, opens, thread>>

(* stop(), call by call, beside the server thread. *)
FirstStop ==
    /\ app = "stopping"
    /\ StopClosesAcceptor \/ StopClears \/ StopReturns \/ \E c \in Clients : StopOne(c)
    /\ UNCHANGED uiVars

FirstStopReturned ==
    /\ Alive /\ app = "stopping" /\ stopStep = "returned"
    /\ app' = "joining"
    /\ UNCHANGED <<vars, embedded, leaving, opens, thread>>

(* stop() of a server that was stopped before: it runs no handler, and what *)
(* slipped through the first call is closed.                                *)
StopAgain ==
    /\ Alive /\ app = "stopping again"
    /\ connections' = {}
    /\ socket' = ClosedSockets(connections)
    /\ done' = Cancelled(connections)
    /\ app' = "joining"
    /\ UNCHANGED <<serverVars, acceptVars, handling, op, protocol, response, upgraded, clientVars,
                   embedded, leaving, opens, thread>>

(* Mutant of Join: the thread is detached. *)
Detach ==
    /\ Alive /\ app = "joining"
    /\ thread' = thread
    /\ app' = IF leaving THEN "destroying" ELSE "idle"
    /\ UNCHANGED <<vars, embedded, leaving, opens>>

Join ==
    /\ Alive /\ app = "joining" /\ thread # "running"
    /\ thread' = "none"
    /\ app' = IF leaving THEN "destroying" ELSE "idle"
    /\ UNCHANGED <<vars, embedded, leaving, opens>>

(* The members of BasicWF: what is left of the connections goes with them.  *)
Destroyed ==
    /\ Alive /\ app = "destroying"
    /\ app' = "gone"
    /\ connections' = {}
    /\ acceptOp' = "none"
    /\ socket' = [c \in Clients |->
                     IF socket[c] \in {"accepted", "open"} THEN "closed" ELSE socket[c]]
    /\ op' = [c \in Clients |-> "none"]
    /\ done' = [c \in Clients |-> "pending"]
    /\ UNCHANGED <<serverVars, acceptorOpen, ioThread, handling, protocol, response, upgraded,
                   clientVars, embedded, leaving, opens, thread>>

App ==
    \/ OpenAndRun \/ WindowReturns \/ Destructor
    \/ FirstStop \/ FirstStopReturned \/ StopAgain \/ Join \/ Destroyed

-------------------------------------------------------------------------------
(* ioContext.run() of the server thread: handlers, until the context is     *)
(* stopped or has nothing left to wait for.                                 *)
Runs(action) == thread = "running" /\ action /\ UNCHANGED uiVars

ServerRuns ==
    \/ Runs(AcceptFails) \/ Runs(AcceptHandler)
    \/ \E c \in Clients : Runs(Kernel(c)) \/ Runs(HandlerBegins(c)) \/ Runs(Handler(c))

NothingToWaitFor ==
    acceptOp = "none" /\ upgraded = {} /\ \A c \in Clients : op[c] = "none"

ThreadEnds ==
    /\ Alive /\ thread = "running" /\ ioThread = "idle" /\ handling = {}
    /\ server = "stopped" \/ NothingToWaitFor
    /\ thread' = "ended"
    /\ UNCHANGED <<vars, embedded, app, leaving, opens>>

(* Requests arrive whole, and who leaves resets the connection: the rest is *)
(* HttpServer's own business.                                               *)
Page ==
    /\ Alive
    /\ \E c \in Clients :
         \/ Connect(c)
         \/ ClientSend(c) /\ sent'[c] = "whole"
         \/ ClientLeaves(c) /\ peer'[c] = "reset"
    /\ UNCHANGED uiVars

UiNext == App \/ ServerRuns \/ ThreadEnds \/ Page

UiSpec == UiInit /\ [][UiNext]_allVars

(* Both threads go on, the server's to the end of the handler it is in;     *)
(* nobody has to close the window or destroy the object.                    *)
UiFairSpec ==
    /\ UiSpec
    /\ WF_allVars(FirstStop) /\ WF_allVars(FirstStopReturned) /\ WF_allVars(Join)
    /\ WF_allVars(Runs(AcceptHandler)) /\ WF_allVars(ThreadEnds)
    /\ \A c \in Clients : WF_allVars(Runs(Handler(c)))

-------------------------------------------------------------------------------
(* The types; and only the system's browser leaves a server thread running. *)
UiTypeOK ==
    /\ embedded \in BOOLEAN /\ leaving \in BOOLEAN /\ opens \in 0..MaxOpens[embedded]
    /\ app \in {"idle", "window", "stopping", "stopping again", "joining", "destroying", "gone"}
    /\ thread \in {"none", "running", "ended"}
    /\ app \in {"destroying", "gone"} => thread = "none"
    /\ embedded /\ app = "idle" => thread = "none"

(* Nobody touches the object after ~BasicWF: the thread that ran its server *)
(* has been joined whatever way was taken to the destructor, and none is    *)
(* left that would run a handler.                                           *)
GoneIsGone ==
    [][app = "gone" => UNCHANGED <<serverVars, acceptVars, handling, connVars>>]_allVars

(* Joining returns: whatever the clients do, the server thread comes to its *)
(* end after stop(), also when it was in the middle of a handler.  The one  *)
(* exception is the upgrade that finds no identifier for its link: its      *)
(* handler never returns, and neither do run() and join().                  *)
JoinReturns == app = "joining" ~> app # "joining" \/ server = "terminated" \/ Spinning

(* After stop() has returned no handler is called any more: only the one    *)
(* that was running then goes on, and it answers or upgrades its own client *)
(* at most.  In particular nothing answers a window that is opened after an *)
(* embedded one was closed, although openAndRun says "Launch server only    *)
(* once or restart if previous thread ended" (WebFront.hpp:167).            *)
OnlyTheRunningHandlerGoesOn ==
    [][stopStep = "returned" =>
         /\ handling' \subseteq handling
         /\ \A c \in Clients :
              response'[c] # response[c] \/ c \in upgraded' \ upgraded => handling = {c}]_allVars
===============================================================================
