--------------------------- MODULE UiLifecycleProofs ---------------------------
(***************************************************************************)
(* Theorems about UiLifecycle, for any number of clients, any requests and  *)
(* any number of windows.                                                   *)
(***************************************************************************)
EXTENDS UiLifecycle, HttpServerProofs, FiniteSetTheorems

(* What the main thread's place says of the server and of its thread. *)
AppInv ==
    /\ app \in {"destroying", "gone"} => thread = "none"
    /\ embedded /\ app = "idle" => thread = "none"
    /\ app \in {"joining", "stopping again", "destroying", "gone"} => stopStep = "returned"
    /\ stopStep = "returned" => server # "running"
    /\ stopStep \in {"stopAll", "cleared"} => app = "stopping"
    /\ thread # "running" => ioThread = "idle" /\ handling = {}

(* The sockets that stop() does not reach any more. *)
Left(c) == socket[c] = "open" /\ ~(stopStep = "stopAll" /\ c \in toStop)

SlipInv ==
    stopStep # "none" =>
        /\ ~acceptorOpen
        /\ ioThread = "accepting" => \A c \in Clients : ~Left(c)
        /\ \A c, d \in Clients : Left(c) /\ Left(d) => c = d

LiveInv == app # "gone" /\ Inv /\ UiTypeOK /\ AppInv /\ SlipInv

(* What is left to say when the object was destroyed. *)
GoneInv ==
    /\ app = "gone" /\ thread = "none" /\ UiTypeOK
    /\ stopStep = "returned" /\ server # "running"
    /\ \A c \in Clients : socket[c] # "open"

UiInv == LiveInv \/ GoneInv

LEMMA UiInitInv == UiInit => UiInv
<1> SUFFICES ASSUME UiInit PROVE UiInv
    OBVIOUS
<1>1. Inv
    BY InvInit DEF UiInit
<1>2. UiTypeOK
    <2>1. MaxOpens[embedded] \in Nat
        BY UiAssumption DEF UiInit
    <2>2. opens \in 0..MaxOpens[embedded]
        BY <2>1 DEF UiInit
    <2>3. embedded \in BOOLEAN /\ leaving \in BOOLEAN /\ app = "idle" /\ thread = "none"
        BY DEF UiInit
    <2> QED
        BY <2>2, <2>3 DEF UiTypeOK
<1>3. AppInv
    BY DEF UiInit, Init, AppInv
<1>4. SlipInv
    <2>1. stopStep = "none" /\ \A c \in Clients : socket[c] = "none"
        BY DEF UiInit, Init
    <2> QED
        BY <2>1 DEF SlipInv
<1> QED
    BY <1>1, <1>2, <1>3, <1>4 DEF UiInit, UiInv, LiveInv

-------------------------------------------------------------------------------
(* What the steps of HttpServer do to the sockets that slip through stop(). *)
LEMMA SlipOthers ==
    ASSUME LiveInv, NEW c \in Clients,
           Connect(c) \/ ClientSend(c) \/ ClientLeaves(c) \/ Handler(c)
             \/ ReadCompletes(c) \/ WriteCompletes(c) \/ HandlerBegins(c) \/ AcceptFails
    PROVE  SlipInv'
<1> USE DEF serverVars, acceptVars, connVars, clientVars
<1>1. TypeOK /\ SlipInv /\ AcceptedInv
    BY DEF LiveInv, Inv
<1>2. /\ UNCHANGED <<acceptorOpen, ioThread, stopStep, toStop>>
      /\ \A d \in Clients : socket'[d] = "open" => socket[d] = "open"
    <2>1. CASE Connect(c) \/ ClientSend(c) \/ ClientLeaves(c) \/ ReadCompletes(c)
                 \/ WriteCompletes(c) \/ HandlerBegins(c) \/ AcceptFails
        BY <2>1 DEF Connect, ClientSend, ClientLeaves, ReadCompletes, WriteCompletes,
                    HandlerBegins, AcceptFails
    <2>2. CASE ReadMore(c) \/ Answer(c) \/ AnswerMalformed(c) \/ OperationAborted(c)
        BY <2>2 DEF ReadMore, Answer, AnswerMalformed, OperationAborted, Terminate
    <2>3. CASE ReadFails(c) \/ WriteFails(c)
        BY <2>3 DEF ReadFails, WriteFails, StopConnection, ClosedSockets
    <2>4. CASE WriteSucceeds(c)
        BY <2>4 DEF WriteSucceeds, StopConnection, ClosedSockets, Terminate
    <2>5. CASE Upgrade(c)
        BY <1>1, <2>5 DEF Upgrade, TypeOK
    <2> QED
        BY <2>1, <2>2, <2>3, <2>4, <2>5 DEF Handler, OperationEnds
<1>3. \A d \in Clients : Left(d)' => Left(d)
    BY <1>2 DEF Left
<1> QED
    BY <1>1, <1>2, <1>3 DEF SlipInv

LEMMA SlipAccept ==
    ASSUME LiveInv, AcceptHandler \/ \E c \in Clients : AcceptCompletes(c)
    PROVE  SlipInv'
<1> USE DEF serverVars, acceptVars, connVars, clientVars
<1>1. TypeOK /\ SlipInv /\ AcceptedInv
    BY DEF LiveInv, Inv
<1>2. ASSUME NEW c \in Clients, AcceptCompletes(c) PROVE SlipInv'
    <2>1. /\ acceptOp = "pending" /\ acceptOp' = "done"
          /\ UNCHANGED <<acceptorOpen, ioThread, stopStep, toStop>>
          /\ \A d \in Clients : d # c => socket'[d] = socket[d]
          /\ socket'[c] = "accepted"
        BY <1>1, <1>2 DEF AcceptCompletes, TypeOK
    <2>3. \A d \in Clients : Left(d)' => Left(d)
        BY <2>1 DEF Left
    <2> QED
        BY <1>1, <2>1, <2>3 DEF SlipInv
<1>3. CASE AcceptReturns
    <2>1. /\ UNCHANGED <<acceptorOpen, ioThread, stopStep, toStop>>
          /\ \A d \in Clients : socket'[d] = "open" => socket[d] = "open"
        BY <1>3 DEF AcceptReturns
    <2>2. \A d \in Clients : Left(d)' => Left(d)
        BY <2>1 DEF Left
    <2> QED
        BY <1>1, <2>1, <2>2 DEF SlipInv
<1>4. CASE AcceptChecked
    BY <1>1, <1>4 DEF AcceptChecked, SlipInv, Left
<1>5. CASE AcceptStarts
    <2>1. /\ UNCHANGED <<acceptorOpen, stopStep, toStop>> /\ ioThread = "accepting" /\ ioThread' = "idle"
          /\ \A d \in Clients : socket'[d] = IF socket[d] = "accepted" THEN "open" ELSE socket[d]
        BY <1>5 DEF AcceptStarts
    <2>2. stopStep # "none" => \A d \in Clients : Left(d)' => socket[d] = "accepted"
        BY <1>1, <2>1 DEF Left, SlipInv
    <2> QED
        BY <1>1, <2>1, <2>2 DEF SlipInv, AcceptedInv
<1> QED
    BY <1>2, <1>3, <1>4, <1>5 DEF AcceptHandler, Accepts

LEMMA SlipStop ==
    ASSUME LiveInv, StopClosesAcceptor \/ StopClears \/ StopReturns \/ \E c \in Clients : StopOne(c)
    PROVE  SlipInv'
<1> USE DEF serverVars, acceptVars, connVars, clientVars
<1>1. TypeOK /\ SlipInv /\ ListedInv /\ AcceptedInv
    BY DEF LiveInv, Inv
<1>2. CASE StopClosesAcceptor
    <2>1. /\ acceptorOpen' = FALSE /\ stopStep = "none" /\ stopStep' = "stopAll"
          /\ toStop' = connections /\ socket' = socket
          /\ acceptOp' = IF acceptOp = "pending" THEN "failed" ELSE acceptOp
        BY <1>2 DEF StopClosesAcceptor
    <2>2. \A c \in Clients : ~Left(c)'
        BY <1>1, <2>1 DEF Left, ListedInv
    <2> QED
        BY <1>1, <2>1, <2>2 DEF SlipInv
<1>3. CASE StopClears
    <2>1. stopStep = "stopAll" /\ toStop = {} /\ stopStep' = "cleared"
          /\ UNCHANGED <<acceptorOpen, acceptOp, ioThread, socket>>
        BY <1>3 DEF StopClears
    <2> QED
        BY <1>1, <2>1 DEF SlipInv, Left
<1>4. CASE StopReturns
    <2>1. stopStep = "cleared" /\ stopStep' = "returned"
          /\ UNCHANGED <<acceptorOpen, acceptOp, ioThread, socket>>
        BY <1>4 DEF StopReturns
    <2> QED
        BY <1>1, <2>1 DEF SlipInv, Left
<1>5. ASSUME NEW c \in Clients, StopOne(c) PROVE SlipInv'
    <2>1. /\ stopStep = "stopAll" /\ toStop' = toStop \ {c}
          /\ UNCHANGED <<acceptorOpen, acceptOp, ioThread, stopStep>>
          /\ socket' = ClosedSockets({c})
        BY <1>5 DEF StopOne
    <2>2. \A d \in Clients : Left(d)' => Left(d)
        BY <2>1 DEF Left, ClosedSockets
    <2> QED
        BY <1>1, <2>1, <2>2 DEF SlipInv
<1> QED
    BY <1>2, <1>3, <1>4, <1>5

-------------------------------------------------------------------------------
LEMMA ServerRunsInv ==
    ASSUME LiveInv, ServerRuns
    PROVE  LiveInv'
<1> USE DEF serverVars, acceptVars, connVars, clientVars, uiVars
<1>1. Inv'
    <2>1. \/ AcceptFails \/ AcceptHandler
          \/ \E c \in Clients : Kernel(c) \/ HandlerBegins(c) \/ Handler(c)
        BY DEF ServerRuns, Runs
    <2> QED
        BY <2>1, InvNext DEF LiveInv, Next
<1>2. SlipInv'
    <2>1. CASE AcceptFails
        <3>1. CASE Clients = {}
            BY <2>1, <3>1 DEF LiveInv, SlipInv, AcceptFails
        <3>2. ASSUME NEW c \in Clients PROVE SlipInv'
            BY <2>1, SlipOthers
        <3> QED
            BY <3>1, <3>2
    <2>2. CASE AcceptHandler
        BY <2>2, SlipAccept
    <2>3. ASSUME NEW c \in Clients, Kernel(c) \/ HandlerBegins(c) \/ Handler(c) PROVE SlipInv'
        <3>1. CASE AcceptCompletes(c)
            BY <3>1, SlipAccept
        <3>2. CASE ReadCompletes(c) \/ WriteCompletes(c) \/ HandlerBegins(c) \/ Handler(c)
            BY <3>2, SlipOthers
        <3> QED
            BY <2>3, <3>1, <3>2 DEF Kernel
    <2> QED
        BY <2>1, <2>2, <2>3 DEF ServerRuns, Runs
<1>3. UNCHANGED uiVars /\ thread = "running"
    BY DEF ServerRuns, Runs
<1>4. UNCHANGED stopStep /\ (server' = server \/ server' = "terminated")
    BY DEF ServerRuns, Runs, Kernel, HandlerBegins, Handler, OperationEnds, AcceptHandler, Accepts,
           AcceptFails, AcceptCompletes, ReadCompletes, WriteCompletes, AcceptReturns, AcceptChecked, AcceptStarts, ReadMore,
           Answer, AnswerMalformed, ReadFails, OperationAborted, Upgrade, WriteSucceeds,
           WriteFails, Terminate
<1>5. app' # "gone" /\ UiTypeOK' /\ AppInv'
    BY <1>3, <1>4 DEF LiveInv, UiTypeOK, AppInv
<1> QED
    BY <1>1, <1>2, <1>5 DEF LiveInv

LEMMA PageInv ==
    ASSUME LiveInv, Page
    PROVE  LiveInv'
<1> USE DEF serverVars, acceptVars, connVars, clientVars, uiVars
<1>1. PICK c \in Clients : Connect(c) \/ ClientSend(c) \/ ClientLeaves(c)
    BY DEF Page
<1>2. Inv' /\ SlipInv'
    BY <1>1, InvNext, SlipOthers DEF LiveInv, Next, Client
<1>3. UNCHANGED uiVars /\ UNCHANGED <<serverVars, ioThread, handling>>
    BY <1>1 DEF Page, Connect, ClientSend, ClientLeaves
<1> QED
    BY <1>2, <1>3 DEF LiveInv, UiTypeOK, AppInv

LEMMA FirstStopInv ==
    ASSUME LiveInv, FirstStop
    PROVE  LiveInv'
<1> USE DEF serverVars, acceptVars, connVars, clientVars, uiVars
<1>1. StopClosesAcceptor \/ StopClears \/ StopReturns \/ \E c \in Clients : StopOne(c)
    BY DEF FirstStop
<1>2. Inv' /\ SlipInv'
    BY <1>1, InvNext, SlipStop DEF LiveInv, Next, Stop
<1>3. UNCHANGED uiVars /\ UNCHANGED <<ioThread, handling>> /\ app = "stopping"
    BY <1>1 DEF FirstStop, StopClosesAcceptor, StopClears, StopReturns, StopOne
<1>4. /\ stopStep' = "returned" => server' # "running"
      /\ stopStep' \in {"stopAll", "cleared"} => app = "stopping"
    BY <1>1 DEF FirstStop, StopClosesAcceptor, StopClears, StopReturns, StopOne
<1> QED
    BY <1>2, <1>3, <1>4 DEF LiveInv, UiTypeOK, AppInv

LEMMA StopAgainInv ==
    ASSUME LiveInv, StopAgain
    PROVE  LiveInv'
<1> USE DEF serverVars, acceptVars, connVars, clientVars
<1>1. stopStep = "returned" /\ stopStep' = "returned"
    BY DEF StopAgain, LiveInv, AppInv
<1>2. Inv'
    <2>1. /\ Inv /\ connections \in SUBSET Clients /\ toStop \in SUBSET Clients
          /\ acceptorOpen \in BOOLEAN /\ acceptOp \in {"none", "pending", "done", "failed"}
          /\ server \in {"running", "stopped", "terminated"}
        BY DEF LiveInv, Inv, TypeOK
    <2> QED
        BY <1>1, <2>1, ClosingKeepsInv DEF StopAgain
<1>3. SlipInv'
    <2>1. \A c \in Clients : socket'[c] = socket[c] \/ (socket[c] = "open" /\ socket'[c] = "closed")
        BY DEF StopAgain, ClosedSockets
    <2>2. \A c \in Clients : Left(c)' => Left(c)
        BY <1>1, <2>1 DEF Left
    <2> QED
        BY <1>1, <2>1, <2>2 DEF StopAgain, LiveInv, SlipInv
<1>4. app' # "gone" /\ UiTypeOK' /\ AppInv'
    BY <1>1 DEF StopAgain, LiveInv, UiTypeOK, AppInv
<1> QED
    BY <1>2, <1>3, <1>4 DEF LiveInv

LEMMA DestroyedInv ==
    ASSUME LiveInv, Destroyed
    PROVE  GoneInv'
<1> USE DEF serverVars
<1>1. stopStep' = "returned" /\ server' # "running"
    BY DEF Destroyed, LiveInv, AppInv
<1>2. \A c \in Clients : socket'[c] # "open"
    BY DEF Destroyed
<1>3. UiTypeOK' /\ thread' = "none"
    BY DEF Destroyed, LiveInv, UiTypeOK
<1> QED
    BY <1>1, <1>2, <1>3 DEF Destroyed, GoneInv

(* Only the page is left to take a step. *)
LEMMA GoneStays ==
    ASSUME GoneInv, UiNext
    PROVE  /\ Page
           /\ UNCHANGED <<serverVars, acceptVars, handling, connVars, uiVars>>
<1>1. ~ServerRuns /\ ~ThreadEnds
    BY DEF ServerRuns, Runs, ThreadEnds, GoneInv
<1>2. ~App
    BY DEF App, OpenAndRun, WindowReturns, Destructor, FirstStop, FirstStopReturned,
           StopAgain, Join, Destroyed, GoneInv
<1>3. Page
    BY <1>1, <1>2 DEF UiNext
<1> QED
    BY <1>3 DEF Page, Connect, ClientSend, ClientLeaves

LEMMA GoneNextInv == GoneInv /\ [UiNext]_allVars => GoneInv'
<1> SUFFICES ASSUME GoneInv, [UiNext]_allVars PROVE GoneInv'
    OBVIOUS
<1>1. UNCHANGED <<serverVars, connVars, uiVars>>
    BY GoneStays DEF allVars, vars
<1>2. UNCHANGED <<server, stopStep, socket>> /\ UNCHANGED <<embedded, app, leaving, opens, thread>>
    BY <1>1 DEF serverVars, connVars, uiVars
<1> QED
    BY <1>2 DEF GoneInv, UiTypeOK

LEMMA LiveNextInv == LiveInv /\ [UiNext]_allVars => UiInv'
<1> SUFFICES ASSUME LiveInv, [UiNext]_allVars PROVE UiInv'
    OBVIOUS
<1>1. ASSUME UNCHANGED vars PROVE Inv' /\ SlipInv'
    <2>1. Inv'
        BY <1>1, InvNext DEF LiveInv
    <2>2. SlipInv'
        BY <1>1 DEF vars, serverVars, acceptVars, connVars, clientVars, LiveInv, SlipInv, Left
    <2> QED
        BY <2>1, <2>2
<1>2. ASSUME OpenAndRun \/ WindowReturns \/ Destructor \/ FirstStopReturned \/ Join \/ ThreadEnds
      PROVE  LiveInv'
    <2>1. UNCHANGED vars
        BY <1>2 DEF OpenAndRun, WindowReturns, Destructor, FirstStopReturned, Join, ThreadEnds
    <2>2. UNCHANGED <<server, stopStep, ioThread, handling>>
        BY <2>1 DEF vars, serverVars, acceptVars
    <2>3. TypeOK
        BY DEF LiveInv, Inv
    <2>4. UiTypeOK' /\ AppInv'
        <3>1. CASE OpenAndRun
            BY <2>2, <3>1, UiAssumption DEF OpenAndRun, LiveInv, UiTypeOK, AppInv
        <3>2. CASE WindowReturns \/ Destructor
            <4>1. /\ app \in {"window", "idle"} /\ app' \in {Stopping, "idle"}
                  /\ app' = "idle" => ~embedded
                  /\ leaving' \in BOOLEAN /\ UNCHANGED <<embedded, opens, thread>>
                BY <3>2 DEF WindowReturns, Destructor, Stopping, LiveInv, UiTypeOK
            <4>2. /\ Stopping \in {"stopping", "stopping again"}
                  /\ Stopping = "stopping again" => stopStep = "returned"
                BY <2>3, <4>1 DEF Stopping, LiveInv, AppInv, TypeOK
            <4>3. UiTypeOK'
                BY <4>1, <4>2 DEF LiveInv, UiTypeOK
            <4>4. AppInv'
                BY <2>2, <4>1, <4>2 DEF LiveInv, AppInv
            <4> QED
                BY <4>3, <4>4
        <3>3. CASE FirstStopReturned
            BY <2>2, <3>3 DEF FirstStopReturned, LiveInv, UiTypeOK, AppInv
        <3>4. CASE Join
            <4>1. UiTypeOK'
                BY <3>4 DEF Join, LiveInv, UiTypeOK
            <4>2. AppInv'
                BY <2>2, <3>4 DEF Join, LiveInv, UiTypeOK, AppInv
            <4> QED
                BY <4>1, <4>2
        <3>5. CASE ThreadEnds
            <4>1. UiTypeOK'
                BY <3>5 DEF ThreadEnds, LiveInv, UiTypeOK, AppInv
            <4>2. AppInv'
                BY <2>2, <3>5 DEF ThreadEnds, LiveInv, UiTypeOK, AppInv
            <4> QED
                BY <4>1, <4>2
        <3> QED
            BY <1>2, <3>1, <3>2, <3>3, <3>4, <3>5
    <2>5. app' # "gone"
        BY <1>2 DEF LiveInv, OpenAndRun, WindowReturns, Stopping, Destructor, FirstStopReturned, Join,
                    ThreadEnds
    <2> QED
        BY <1>1, <2>1, <2>4, <2>5 DEF UiInv, LiveInv
<1>3. CASE UNCHANGED allVars
    <2>1. UNCHANGED vars /\ UNCHANGED uiVars
        BY <1>3 DEF allVars
    <2>2. app' # "gone" /\ UiTypeOK' /\ AppInv'
        BY <2>1 DEF vars, serverVars, acceptVars, uiVars, LiveInv, UiTypeOK, AppInv
    <2> QED
        BY <1>1, <2>1, <2>2 DEF UiInv, LiveInv
<1> QED
    BY <1>2, <1>3, ServerRunsInv, PageInv, FirstStopInv, StopAgainInv, DestroyedInv
    DEF UiNext, App, UiInv

LEMMA UiNextInv == UiInv /\ [UiNext]_allVars => UiInv'
BY LiveNextInv, GoneNextInv DEF UiInv

LEMMA UiAlways == UiSpec => []UiInv
BY UiInitInv, UiNextInv, PTL DEF UiSpec

(* The types; an embedded program has no server thread between its windows. *)
THEOREM UiTypeCorrect == UiSpec => []UiTypeOK
<1>1. UiInv => UiTypeOK
    BY DEF UiInv, LiveInv, GoneInv
<1> QED
    BY <1>1, UiAlways, PTL

(* stop() beside the server thread misses at most one connection. *)
THEOREM OneSlipsThrough == UiSpec => []AtMostOneSlipsThrough
<1>1. UiInv => AtMostOneSlipsThrough
    <2> SUFFICES ASSUME UiInv, stopStep \in {"cleared", "returned"}
                 PROVE  Cardinality({c \in Clients : socket[c] = "open"}) <= 1
        BY DEF AtMostOneSlipsThrough
    <2> DEFINE S == {c \in Clients : socket[c] = "open"}
    <2>1. \A c, d \in S : c = d
        BY DEF UiInv, LiveInv, GoneInv, SlipInv, Left
    <2>2. CASE S = {}
        BY <2>2, FS_EmptySet
    <2>3. CASE S # {}
        <3>1. PICK c : S = {c}
            BY <2>1, <2>3
        <3> QED
            BY <3>1, FS_Singleton
    <2> QED
        BY <2>2, <2>3
<1> QED
    BY <1>1, UiAlways, PTL

(* Nothing of the server moves any more when the object is gone. *)
THEOREM NobodyUsesTheGone == UiSpec => GoneIsGone
<1>1. UiInv /\ [UiNext]_allVars =>
        [app = "gone" => UNCHANGED <<serverVars, acceptVars, handling, connVars>>]_allVars
    <2> SUFFICES ASSUME UiInv, UiNext, app = "gone"
                 PROVE  UNCHANGED <<serverVars, acceptVars, handling, connVars>>
        OBVIOUS
    <2> QED
        BY GoneStays DEF UiInv, LiveInv
<1> QED
    BY <1>1, UiAlways, PTL DEF UiSpec, GoneIsGone

(* Whatever steps of both threads and of the clients come after stop() has  *)
(* returned, no handler is called, and the one that was running then answers*)
(* or upgrades nobody but its own client.                                   *)
THEOREM NoHandlerAfterStop == UiSpec => OnlyTheRunningHandlerGoesOn
<1> DEFINE Step ==
      stopStep = "returned" =>
         /\ handling' \subseteq handling
         /\ \A c \in Clients :
              response'[c] # response[c] \/ c \in upgraded' \ upgraded => handling = {c}
<1>1. UiInv /\ [UiNext]_allVars => [Step]_allVars
    <2> USE DEF serverVars, acceptVars, connVars, clientVars
    <2> SUFFICES ASSUME UiInv, UiNext, stopStep = "returned"
                 PROVE  Step
        OBVIOUS
    <2>1. server # "running"
        BY DEF UiInv, LiveInv, GoneInv, AppInv
    <2>2. ASSUME UNCHANGED <<handling, response, upgraded>>
          PROVE  Step
        BY <2>2
    <2>3. ASSUME NEW c \in Clients, Runs(Handler(c))
          PROVE  Step
        <3>1. thread = "running" /\ Handler(c)
            BY <2>3 DEF Runs
        <3>2. TypeOK
            BY <3>1 DEF UiInv, LiveInv, GoneInv, Inv
        <3>3. handling = {c} /\ handling' \subseteq {c}
            BY <3>1 DEF Handler, OperationEnds, ReadMore, Answer, AnswerMalformed, ReadFails,
                        OperationAborted, Upgrade, WriteSucceeds, WriteFails, ReadReady,
                        HandlerEnds, InHandler, IdSearch
        <3>4. response' = response \/ \E status : response' = [response EXCEPT ![c] = status]
            BY <3>1 DEF Handler, OperationEnds, ReadMore, Answer, AnswerMalformed, ReadFails,
                        OperationAborted, Upgrade, WriteSucceeds, WriteFails, Respond
        <3>5. upgraded' = upgraded \/ upgraded' = upgraded \cup {c}
            BY <3>1 DEF Handler, OperationEnds, ReadMore, Answer, AnswerMalformed, ReadFails,
                        OperationAborted, Upgrade, WriteSucceeds, WriteFails
        <3>6. \A d \in Clients : d # c => response'[d] = response[d]
            BY <3>2, <3>4 DEF TypeOK
        <3> QED
            BY <3>3, <3>5, <3>6
    <2>4. CASE ServerRuns
        <3>1. ASSUME NEW c \in Clients, Kernel(c) \/ HandlerBegins(c)
              PROVE  FALSE
            BY <2>1, <3>1 DEF Kernel, AcceptCompletes, ReadCompletes, WriteCompletes,
                              HandlerBegins, HandlerRuns
        <3>2. CASE AcceptFails \/ AcceptHandler
            BY <2>2, <3>2 DEF AcceptFails, AcceptHandler, Accepts, AcceptReturns, AcceptChecked,
                              AcceptStarts
        <3> QED
            BY <2>3, <2>4, <3>1, <3>2 DEF ServerRuns, Runs
    <2>5. CASE App
        BY <2>1, <2>2, <2>5 DEF App, OpenAndRun, WindowReturns, Destructor, FirstStop,
               StopClosesAcceptor, StopClears, StopReturns, StopOne, FirstStopReturned,
               StopAgain, Join, Destroyed, vars
    <2>6. CASE ThreadEnds \/ Page
        BY <2>2, <2>6 DEF ThreadEnds, Page, Connect, ClientSend, ClientLeaves, vars
    <2> QED
        BY <2>4, <2>5, <2>6 DEF UiNext
<1> QED
    BY <1>1, UiAlways, PTL DEF UiSpec, OnlyTheRunningHandlerGoesOn
===============================================================================
