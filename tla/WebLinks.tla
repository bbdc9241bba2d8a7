------------------------------- MODULE WebLinks -------------------------------
(***************************************************************************)
(* BasicWF's table of WebLinks (include/WebFront.hpp), WebLink             *)
(* (include/weblink/WebLink.hpp), the life of the WebSocket under it       *)
(* (include/http/WebSocket.hpp), the logger's sinks, and the page's        *)
(* Javascript at the other end.                                            *)
(*                                                                         *)
(* Every handler runs on the io_context's thread; messages are whole: how  *)
(* frames are cut is FrameDecoder's subject.  A handler of the application *)
(* uses at most one UI object, one of those it was given at any time.      *)
(* Several log lines in a row count as one.                                *)
(***************************************************************************)
EXTENDS Integers, Sequences, FiniteSets

CONSTANTS
    Pages,          \* browser pages, each opens one websocket
    IdSpace,        \* number of WebLinkIds, 65536 for uint16_t
    CppFunctions,   \* names given to BasicWF::cppFunction
    CallableNames,  \* names the pages call
    MaxCalls,       \* bound: calls and texts the pages send, all together
    Logging         \* setLogLevel(Info) was called

ASSUME LinksAssumption ==
    /\ IdSpace \in Nat \ {0}
    /\ MaxCalls \in Nat
    /\ Logging \in BOOLEAN

Ids == 0..(IdSpace - 1)

VARIABLES
    server,      \* what ioContext.run() is doing
    webLinks,    \* BasicWF::webLinks: id -> page
    idsCounter,  \* BasicWF::idsCounter
    uiStarted,   \* uiStartedHandler is set
    uis,         \* ids of the UI objects the application was given
    sinks,       \* pages whose link has a sink in log::Sinks
    socket,      \* the link's socket
    started,     \* WebSocket::started
    reads,       \* async_read_some operations whose handler has not run
    late,        \* of those, completed with a message before the socket was stopped
    failing,     \* writes that failed and whose handler has not run
    page,        \* NetLayer.state, "absent" before and "gone" after
    toServer,    \* messages on their way to the server
    toPage,      \* and to the page
    calls,       \* calls made and texts sent by the pages
    reports,     \* errors the link logged
    unreported   \* pages lost and used by addScript without an exception

linkVars == <<server, webLinks, idsCounter, uiStarted, uis, sinks>>
socketVars == <<socket, started, reads, late, reports>>
pageVars == <<page, toServer, calls>>
vars == <<linkVars, socketVars, pageVars, failing, toPage, unreported>>

-------------------------------------------------------------------------------
(* Messages to the server and to the page. *)
Handshake == [command |-> "handshake"]
Close == [command |-> "close"]
Call(name) == [command |-> "callFunction", name |-> name]
Text == [command |-> "text"]
ToServer == {Handshake, Close, Text} \cup [command : {"callFunction"}, name : CallableNames]

Ack == [command |-> "ack", body |-> "none"]
LogLine == [command |-> "textCommand", body |-> "debugLog"]
Script == [command |-> "textCommand", body |-> "injectScript"]
JsCall == [command |-> "callFunction", body |-> "call"]
TextReply == [command |-> "text", body |-> "This is my response"]

(* FunctionReturn inherits header() from MessageBase<FunctionCall>, which   *)
(* gives the FunctionCall part of the object.                               *)
FunctionReturn == [command |-> "callFunction", body |-> "exception"]
ToPage == {Ack, LogLine, Script, JsCall, FunctionReturn, TextReply}

-------------------------------------------------------------------------------
Init ==
    /\ server = "running" /\ webLinks = [id \in {} |-> 0] /\ idsCounter = 0
    /\ uiStarted = FALSE /\ uis = {} /\ sinks = {}
    /\ socket = [p \in Pages |-> "none"] /\ started = [p \in Pages |-> FALSE]
    /\ reads = [p \in Pages |-> 0] /\ late = [p \in Pages |-> 0]
    /\ reports = [p \in Pages |-> 0]
    /\ failing = [p \in Pages |-> 0]
    /\ page = [p \in Pages |-> "absent"] /\ calls = 0
    /\ toServer = [p \in Pages |-> <<>>] /\ toPage = [p \in Pages |-> <<>>]
    /\ unreported = {}

-------------------------------------------------------------------------------
(* The page. *)

(* onopen: the page sends its Handshake. *)
PageOpens(p) ==
    /\ page[p] = "absent"
    /\ page' = [page EXCEPT ![p] = "handshaking"]
    /\ toServer' = [toServer EXCEPT ![p] = Append(@, Handshake)]
    /\ UNCHANGED <<linkVars, socketVars, calls, failing, toPage, unreported>>

(* cppFunctionBinder, or a text frame, which the script of the page does    *)
(* not send itself: at any time, also before the page has the Ack.          *)
PageSends(p, message) ==
    /\ page[p] \in {"handshaking", "linked"}
    /\ calls < MaxCalls
    /\ calls' = calls + 1
    /\ toServer' = [toServer EXCEPT ![p] = Append(@, message)]
    /\ UNCHANGED <<linkVars, socketVars, page, failing, toPage, unreported>>

(* onmessage: only an Ack changes the page's state. *)
PageReceives(p) ==
    /\ page[p] \in {"handshaking", "linked"} /\ toPage[p] # <<>>
    /\ toPage' = [toPage EXCEPT ![p] = Tail(@)]
    /\ page' = IF Head(toPage[p]) = Ack THEN [page EXCEPT ![p] = "linked"] ELSE page
    /\ UNCHANGED <<linkVars, socketVars, calls, toServer, failing, unreported>>

(* The page is closed (a connectionClose frame), or just vanishes. *)
PageLeaves(p) ==
    /\ page[p] \in {"handshaking", "linked"}
    /\ page' = [page EXCEPT ![p] = "gone"]
    /\ toPage' = [toPage EXCEPT ![p] = <<>>]
    /\ \/ toServer' = [toServer EXCEPT ![p] = Append(@, Close)]
       \/ UNCHANGED toServer
    /\ UNCHANGED <<linkVars, socketVars, calls, failing, unreported>>

-------------------------------------------------------------------------------
(* What the server writes in one handler: a sequence of messages per page.  *)

Nothing == [p \in Pages |-> <<>>]
To(q, message) == [p \in Pages |-> IF p = q THEN <<message>> ELSE <<>>]
Then(first, second) == [p \in Pages |-> first[p] \o second[p]]

(* log::Sinks: a line goes to every sink, i.e. to every linked page. *)
Logged ==
    [p \in Pages |-> IF Logging /\ p \in sinks THEN <<LogLine>> ELSE <<>>]

Gone == {p \in Pages : page[p] = "gone"}

(* writeData: a write fails on a closed socket; when the page is gone it    *)
(* fails, or is lost.  queued are the failed writes that were there before. *)
WriteOver(queued, messages) ==
    \E refused \in SUBSET Gone :
        LET Fails(p) == socket[p] # "open" \/ p \in refused IN
        /\ toPage' = [p \in Pages |-> IF Fails(p) \/ p \in Gone THEN toPage[p]
                                       ELSE toPage[p] \o messages[p]]
        /\ failing' = [p \in Pages |->
                         IF Fails(p) THEN queued[p] + Len(messages[p]) ELSE queued[p]]

Write(messages) == WriteOver(failing, messages)

(* The application's handler uses a UI object: addScript or a JsFunction,   *)
(* between what WebLink writes before and after it.  Links stay in the      *)
(* table for ever, since nobody raises the closed event: getLink finds them *)
(* all.                                                                     *)
UseUI(known, before, after) ==
    \/ /\ Write(Then(before, after))
       /\ UNCHANGED unreported
    \/ \E id \in known, message \in {Script, JsCall} :
         LET p == webLinks[id] IN
         /\ Write(Then(Then(before, To(p, message)), after))
         /\ unreported' = IF message = Script /\ socket[p] = "closed"
                          THEN unreported \cup {p} ELSE unreported

-------------------------------------------------------------------------------
(* The upgrade handler of BasicWF. *)

(* How many times the loop increments idsCounter before it tries id. *)
Tries(id) == (id - idsCounter + IdSpace) % IdSpace

(* Mutant of FreeIds: whether an id is taken does not matter. *)
FreeIdsUnchecked == {idsCounter}

FreeIds == Ids \ DOMAIN webLinks

(* Mutant of NextId: the counter is wider than the id. *)
NextIdWide(id) == id + 1

(* try_emplace succeeds with the first free id; idsCounter wraps. *)
NextId(id) == (id + 1) % IdSpace
Inserted(id, p) == [i \in DOMAIN webLinks \cup {id} |-> IF i = id THEN p ELSE webLinks[i]]

(* Mutant of Upgrade: the link adds its sink when it is constructed. *)
UpgradeWithSink(p) ==
    /\ server = "running" /\ socket[p] = "none"
    /\ \E id \in FreeIds :
        /\ \A other \in FreeIds : Tries(id) <= Tries(other)
        /\ webLinks' = Inserted(id, p)
        /\ idsCounter' = NextId(id)
    /\ sinks' = sinks \cup {p}
    /\ socket' = [socket EXCEPT ![p] = "open"]
    /\ started' = [started EXCEPT ![p] = TRUE]
    /\ reads' = [reads EXCEPT ![p] = 2]
    /\ UNCHANGED <<server, uiStarted, uis, late, reports, pageVars, failing, toPage, unreported>>

(* The constructors of WebSocket and WebLink both call start(): two reads. *)
Upgrade(p) ==
    /\ server = "running" /\ socket[p] = "none"
    /\ \E id \in FreeIds :
        /\ \A other \in FreeIds : Tries(id) <= Tries(other)
        /\ webLinks' = Inserted(id, p)
        /\ idsCounter' = NextId(id)
    /\ socket' = [socket EXCEPT ![p] = "open"]
    /\ started' = [started EXCEPT ![p] = TRUE]
    /\ reads' = [reads EXCEPT ![p] = 2]
    /\ UNCHANGED <<server, uiStarted, uis, sinks, late, reports, pageVars, failing, toPage,
                   unreported>>

(* Every id is taken: the loop never ends. *)
UpgradeSpins(p) ==
    /\ server = "running" /\ socket[p] = "none"
    /\ FreeIds = {}
    /\ server' = "spinning"
    /\ UNCHANGED <<webLinks, idsCounter, uiStarted, uis, sinks, socketVars, pageVars, failing, toPage,
                   unreported>>

-------------------------------------------------------------------------------
(* WebSocket::read completed with a message, and WebLink's handler for it.  *)
(* A completion that was queued when the socket was stopped is handled      *)
(* nevertheless, before the errors of the reads that came after it.         *)

MessageArrives(p, command) ==
    /\ server = "running" /\ reads[p] > 0
    /\ socket[p] = "open" \/ late[p] > 0
    /\ toServer[p] # <<>> /\ Head(toServer[p]).command = command
    /\ toServer' = [toServer EXCEPT ![p] = Tail(@)]

(* read() again, which fails on a closed socket. *)
ReadsOn(p) ==
    /\ late' = IF socket[p] = "open" THEN late ELSE [late EXCEPT ![p] = @ - 1]
    /\ UNCHANGED <<socket, started, reads, reports>>

(* Ack, the new sink, the linked event and uiStartedHandler. *)
ReceiveHandshake(p) ==
    /\ MessageArrives(p, "handshake") /\ uiStarted
    /\ \E id \in DOMAIN webLinks :
        /\ webLinks[id] = p
        /\ uis' = uis \cup {id}
        /\ UseUI(uis \cup {id}, Then(Logged, To(p, Ack)), Nothing)
    /\ sinks' = sinks \cup {p}
    /\ ReadsOn(p)
    /\ UNCHANGED <<server, webLinks, idsCounter, uiStarted, page, calls>>

(* An empty std::function throws bad_function_call: run() ends. *)
HandshakeWithoutHandler(p) ==
    /\ MessageArrives(p, "handshake") /\ ~uiStarted
    /\ Write(Then(Logged, To(p, Ack)))
    /\ sinks' = sinks \cup {p}
    /\ server' = "terminated"
    /\ UNCHANGED <<webLinks, idsCounter, uiStarted, uis, socketVars, page, calls, unreported>>

(* A registered function runs and returns; or throws out_of_range, which is *)
(* answered like an unknown name; or another exception, which is logged.    *)
ReceiveCall(p) ==
    /\ MessageArrives(p, "callFunction")
    /\ Head(toServer[p]).name \in CppFunctions
    /\ \E outcome \in {Nothing, To(p, FunctionReturn), Logged} : UseUI(uis, Logged, outcome)
    /\ ReadsOn(p)
    /\ UNCHANGED <<linkVars, page, calls>>

(* cppFunctions.at throws out_of_range: the caller is sent a FunctionReturn. *)
ReceiveUnknownCall(p) ==
    /\ MessageArrives(p, "callFunction")
    /\ Head(toServer[p]).name \notin CppFunctions
    /\ Write(Then(Logged, To(p, FunctionReturn)))
    /\ ReadsOn(p)
    /\ UNCHANGED <<linkVars, page, calls, unreported>>

(* onMessage for a text frame. *)
ReceiveText(p) ==
    /\ MessageArrives(p, "text")
    /\ Write(To(p, TextReply))
    /\ ReadsOn(p)
    /\ UNCHANGED <<linkVars, page, calls, unreported>>

(* WebSocket::stop. *)
Stopped(p) ==
    /\ started' = [started EXCEPT ![p] = FALSE]
    /\ socket' = [socket EXCEPT ![p] = "closed"]

(* It was the first stop(): some of these reads have completed by then. *)
LeavesLate(p, pending) ==
    \E n \in 0..pending :
        n <= Len(toServer'[p]) /\ late' = [late EXCEPT ![p] = n]

(* A connectionClose frame: stop(), and read() again, on a closed socket. *)
ReceiveClose(p) ==
    /\ MessageArrives(p, "close")
    /\ Stopped(p)
    /\ IF socket[p] = "open" THEN LeavesLate(p, reads[p] - 1)
                             ELSE late' = [late EXCEPT ![p] = @ - 1]
    /\ UNCHANGED <<linkVars, reads, reports, page, calls, failing, toPage, unreported>>

-------------------------------------------------------------------------------
(* Completions with an error. *)

Report(p) == reports' = [reports EXCEPT ![p] = @ + 1]

ReadFails(p) ==
    /\ server = "running" /\ reads[p] > 0 /\ late[p] = 0
    /\ socket[p] = "closed" \/ page[p] = "gone"
    /\ reads' = [reads EXCEPT ![p] = @ - 1]
    /\ Write(Logged)
    /\ Report(p)
    /\ Stopped(p)
    /\ UNCHANGED <<linkVars, late, pageVars, unreported>>

Handled(p) == [failing EXCEPT ![p] = @ - 1]

(* Mutant of WriteFailsLate: `started` is not looked at. *)
WriteFailsLateReported(p) ==
    /\ server = "running" /\ failing[p] > 0
    /\ WriteOver(Handled(p), Logged)
    /\ Report(p)
    /\ Stopped(p)
    /\ UNCHANGED <<linkVars, reads, late, pageVars, unreported>>

(* The handler of a failed write, once its socket was stopped. *)
WriteFailsLate(p) ==
    /\ server = "running" /\ failing[p] > 0 /\ ~started[p]
    /\ failing' = Handled(p)
    /\ UNCHANGED <<linkVars, socketVars, pageVars, toPage, unreported>>

(* And before: log::error, then stop(). *)
WriteFails(p) ==
    /\ server = "running" /\ failing[p] > 0 /\ started[p]
    /\ WriteOver(Handled(p), Logged)
    /\ Report(p)
    /\ Stopped(p) /\ UNCHANGED pageVars /\ LeavesLate(p, reads[p])
    /\ UNCHANGED <<linkVars, reads, unreported>>

-------------------------------------------------------------------------------
(* BasicWF::onUIStarted, usually before run(). *)
OnUIStarted ==
    /\ ~uiStarted
    /\ uiStarted' = TRUE
    /\ UNCHANGED <<server, webLinks, idsCounter, uis, sinks, socketVars, pageVars, failing,
                   toPage, unreported>>

PageSteps(p) ==
    \/ PageOpens(p) \/ PageReceives(p) \/ PageLeaves(p)
    \/ PageSends(p, Text) \/ \E name \in CallableNames : PageSends(p, Call(name))

Handlers(p) ==
    \/ Upgrade(p) \/ UpgradeSpins(p)
    \/ ReceiveHandshake(p) \/ HandshakeWithoutHandler(p)
    \/ ReceiveCall(p) \/ ReceiveUnknownCall(p) \/ ReceiveText(p) \/ ReceiveClose(p)
    \/ ReadFails(p) \/ WriteFails(p) \/ WriteFailsLate(p)

Next == OnUIStarted \/ \E p \in Pages : PageSteps(p) \/ Handlers(p)

Spec == Init /\ [][Next]_vars

-------------------------------------------------------------------------------
TypeOK ==
    /\ server \in {"running", "spinning", "terminated"}
    /\ DOMAIN webLinks \subseteq Ids /\ \A id \in DOMAIN webLinks : webLinks[id] \in Pages
    /\ idsCounter \in Ids /\ uiStarted \in BOOLEAN
    /\ uis \subseteq DOMAIN webLinks /\ sinks \subseteq Pages
    /\ socket \in [Pages -> {"none", "open", "closed"}] /\ started \in [Pages -> BOOLEAN]
    /\ reads \in [Pages -> 0..2] /\ late \in [Pages -> 0..2]
    /\ reports \in [Pages -> Nat] /\ failing \in [Pages -> Nat]
    /\ page \in [Pages -> {"absent", "handshaking", "linked", "gone"}]
    /\ calls \in 0..MaxCalls
    /\ toServer \in [Pages -> Seq(ToServer)] /\ toPage \in [Pages -> Seq(ToPage)]
    /\ unreported \subseteq Pages

(* The Ack is the first message of a page that has not seen it: neither a   *)
(* log line due to another page, nor a script or a call of the application, *)
(* overtakes it.                                                            *)
AckFirst ==
    \A p \in Pages :
        page[p] = "handshaking" /\ toPage[p] # <<>> => Head(toPage[p]) = Ack

(* However often idsCounter wrapped, every websocket has its own link: a    *)
(* UI object speaks to the page it was made for, and no link replaces one   *)
(* that is in the table.                                                    *)
OneLinkEach ==
    /\ \A p \in Pages : socket[p] # "none" => \E id \in DOMAIN webLinks : webLinks[id] = p
    /\ \A i, j \in DOMAIN webLinks : webLinks[i] = webLinks[j] => i = j

(* The errors of a connection are logged, and with sinks in the pages a log *)
(* line is itself written to connections that may fail: still each          *)
(* connection reports at most three errors, those of its two reads and one  *)
(* of its writes.                                                           *)
ErrorsDieOut == \A p \in Pages : reports[p] <= 3

(* addScript: "Connection with client lost" (WebFront.hpp:53) is thrown     *)
(* when the client is lost.                                                 *)
LostClientReported == unreported = {}
===============================================================================
