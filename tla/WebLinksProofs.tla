---------------------------- MODULE WebLinksProofs ----------------------------
(***************************************************************************)
(* Theorems about WebLinks, for every set of pages, every number of ids and *)
(* of registered functions, with or without logging.                        *)
(***************************************************************************)
EXTENDS WebLinks, TLAPS

(* Batches: what one handler writes, a sequence of messages for each page. *)
Batch == [Pages -> Seq(ToPage)]

LEMMA MessageTypes ==
    /\ Ack \in ToPage /\ LogLine \in ToPage /\ Script \in ToPage
    /\ JsCall \in ToPage /\ FunctionReturn \in ToPage /\ TextReply \in ToPage
    /\ Handshake \in ToServer /\ Close \in ToServer /\ Text \in ToServer
    /\ \A name \in CallableNames : Call(name) \in ToServer
BY DEF ToPage, ToServer, Handshake, Close, Call

LEMMA ConcatType ==
    ASSUME NEW S, NEW s \in Seq(S), NEW t \in Seq(S)
    PROVE  s \o t \in Seq(S)
OBVIOUS

LEMMA LoggedType == Logged \in Batch /\ Nothing \in Batch
BY MessageTypes DEF Logged, Nothing, Batch

LEMMA ToType ==
    ASSUME NEW q, NEW message \in ToPage
    PROVE  To(q, message) \in Batch
BY DEF To, Batch

LEMMA ThenType ==
    ASSUME NEW a \in Batch, NEW b \in Batch
    PROVE  Then(a, b) \in Batch
<1>1. \A p \in Pages : a[p] \o b[p] \in Seq(ToPage)
    BY ConcatType DEF Batch
<1> QED BY <1>1 DEF Then, Batch

(* A write adds the messages of its batch to a page that is there and whose *)
(* socket is open, and to another page adds them or nothing.                *)
LEMMA WriteEffect ==
    ASSUME NEW queued, NEW messages, WriteOver(queued, messages), NEW p \in Pages
    PROVE  /\ toPage'[p] = toPage[p] \/ toPage'[p] = toPage[p] \o messages[p]
           /\ socket[p] = "open" /\ page[p] # "gone" => toPage'[p] = toPage[p] \o messages[p]
           /\ page[p] # "gone" /\ socket[p] # "open" => toPage'[p] = toPage[p]
BY DEF WriteOver, Gone

LEMMA WriteType ==
    ASSUME TypeOK, NEW queued \in [Pages -> Nat], NEW messages \in Batch,
           WriteOver(queued, messages)
    PROVE  toPage' \in [Pages -> Seq(ToPage)] /\ failing' \in [Pages -> Nat]
<1>1. PICK refused \in SUBSET Gone :
        /\ toPage' = [p \in Pages |->
                        IF (socket[p] # "open" \/ p \in refused) \/ p \in Gone THEN toPage[p]
                        ELSE toPage[p] \o messages[p]]
        /\ failing' = [p \in Pages |->
                         IF socket[p] # "open" \/ p \in refused
                         THEN queued[p] + Len(messages[p]) ELSE queued[p]]
    BY DEF WriteOver
<1>2. ASSUME NEW p \in Pages
      PROVE  /\ toPage[p] \in Seq(ToPage) /\ toPage[p] \o messages[p] \in Seq(ToPage)
             /\ queued[p] \in Nat /\ queued[p] + Len(messages[p]) \in Nat
    <2>1. messages[p] \in Seq(ToPage) /\ toPage[p] \in Seq(ToPage)
        BY DEF Batch, TypeOK
    <2> QED BY <2>1, ConcatType
<1> QED BY <1>1, <1>2

(* messages is what is written before and after the application's handler   *)
(* and, to some of the pages it knows, one message between.                 *)
PutsBetween(known, before, after, messages) ==
    \A q \in Pages :
        \/ messages[q] = before[q] \o after[q]
        \/ /\ \E id \in known : webLinks[id] = q
           /\ \E m \in ToPage : messages[q] = (before[q] \o <<m>>) \o after[q]

(* A handler of the application writes one message at most, to a page whose *)
(* UI object it knows.                                                      *)
LEMMA UseUIWrites ==
    ASSUME NEW known, NEW before \in Batch, NEW after \in Batch, UseUI(known, before, after),
           known \subseteq DOMAIN webLinks, TypeOK
    PROVE  \E messages \in Batch :
             Write(messages) /\ PutsBetween(known, before, after, messages)
<1>1. CASE Write(Then(before, after))
    <2>1. PutsBetween(known, before, after, Then(before, after))
        BY DEF PutsBetween, Then
    <2> QED BY <1>1, <2>1, ThenType
<1>2. CASE \E id \in known, message \in {Script, JsCall} :
             Write(Then(Then(before, To(webLinks[id], message)), after))
    <2>1. PICK id \in known, message \in {Script, JsCall} :
            Write(Then(Then(before, To(webLinks[id], message)), after))
        BY <1>2
    <2> DEFINE first == Then(before, To(webLinks[id], message))
    <2>2. message \in ToPage
        BY MessageTypes
    <2>3. first \in Batch
        BY <2>2, ToType, ThenType
    <2>4. \A q \in Pages : q # webLinks[id] => first[q] = before[q]
        BY DEF Then, To, Batch
    <2>5. \A q \in Pages : q = webLinks[id] => first[q] = before[q] \o <<message>>
        BY DEF Then, To
    <2> HIDE DEF first
    <2>6. PutsBetween(known, before, after, Then(first, after))
        BY <2>2, <2>4, <2>5 DEF PutsBetween, Then
    <2> QED BY <2>1, <2>3, <2>6, ThenType DEF first
<1> QED BY <1>1, <1>2 DEF UseUI

-------------------------------------------------------------------------------
LEMMA InitType == Init => TypeOK
<1> SUFFICES ASSUME Init
             PROVE  TypeOK
    OBVIOUS
<1>1. DOMAIN webLinks = {} /\ idsCounter \in Ids
    BY LinksAssumption DEF Init, Ids
<1>2. /\ server \in {"running", "spinning", "terminated"} /\ uiStarted \in BOOLEAN
      /\ uis = {} /\ sinks = {} /\ unreported = {}
    BY DEF Init
<1>3. /\ socket \in [Pages -> {"none", "open", "closed"}] /\ started \in [Pages -> BOOLEAN]
      /\ page \in [Pages -> {"absent", "handshaking", "linked", "gone"}]
    BY DEF Init
<1>4. /\ reads \in [Pages -> 0..2] /\ late \in [Pages -> 0..2]
      /\ reports \in [Pages -> Nat] /\ failing \in [Pages -> Nat]
      /\ calls \in 0..MaxCalls
    BY LinksAssumption DEF Init
<1>5. toServer \in [Pages -> Seq(ToServer)] /\ toPage \in [Pages -> Seq(ToPage)]
    BY DEF Init
<1> QED BY <1>1, <1>2, <1>3, <1>4, <1>5 DEF TypeOK

(* Taking a message off a queue, and putting one on it. *)
LEMMA QueueType ==
    ASSUME NEW S, NEW s \in Seq(S)
    PROVE  /\ \A e \in S : Append(s, e) \in Seq(S) /\ Append(s, e) # <<>>
           /\ \A e \in S : s # <<>> => Head(Append(s, e)) = Head(s)
           /\ s # <<>> => Tail(s) \in Seq(S) /\ Head(s) \in S
OBVIOUS

LEMMA PageStepsType ==
    ASSUME TypeOK, NEW p \in Pages, PageSteps(p)
    PROVE  TypeOK'
<1> USE DEF TypeOK, linkVars, socketVars, pageVars
<1>1. CASE PageOpens(p)
    <2>1. toServer' \in [Pages -> Seq(ToServer)]
        BY <1>1, MessageTypes, QueueType DEF PageOpens
    <2> QED BY <1>1, <2>1 DEF PageOpens
<1>2. CASE PageReceives(p)
    <2>1. toPage' \in [Pages -> Seq(ToPage)]
        BY <1>2, QueueType DEF PageReceives
    <2> QED BY <1>2, <2>1 DEF PageReceives
<1>3. CASE PageLeaves(p)
    <2>1. toServer' \in [Pages -> Seq(ToServer)]
        <3>1. \/ toServer' = [toServer EXCEPT ![p] = Append(@, Close)]
              \/ toServer' = toServer
            BY <1>3 DEF PageLeaves
        <3>2. Append(toServer[p], Close) \in Seq(ToServer)
            BY MessageTypes, QueueType
        <3> QED BY <3>1, <3>2
    <2>2. toPage' \in [Pages -> Seq(ToPage)]
        BY <1>3 DEF PageLeaves
    <2> QED BY <1>3, <2>1, <2>2 DEF PageLeaves
<1>4. ASSUME NEW message \in ToServer, PageSends(p, message)
      PROVE  TypeOK'
    <2>1. toServer' \in [Pages -> Seq(ToServer)]
        BY <1>4, QueueType DEF PageSends
    <2>2. calls' \in 0..MaxCalls
        BY <1>4, LinksAssumption DEF PageSends
    <2> QED BY <1>4, <2>1, <2>2 DEF PageSends
<1> QED BY <1>1, <1>2, <1>3, <1>4, MessageTypes DEF PageSteps

LEMMA ArrivalType ==
    ASSUME TypeOK, NEW p \in Pages, NEW command, MessageArrives(p, command)
    PROVE  toServer' \in [Pages -> Seq(ToServer)]
BY QueueType DEF TypeOK, MessageArrives

LEMMA ReadsOnType ==
    ASSUME TypeOK, NEW p \in Pages, NEW command, MessageArrives(p, command), ReadsOn(p)
    PROVE  late' \in [Pages -> 0..2]
<1>1. late \in [Pages -> 0..2] /\ (socket[p] # "open" => late[p] > 0)
    BY DEF TypeOK, MessageArrives
<1>2. late' = late \/ (late' = [late EXCEPT ![p] = @ - 1] /\ late[p] > 0)
    BY <1>1 DEF ReadsOn
<1> QED BY <1>1, <1>2

LEMMA LeavesLateType ==
    ASSUME TypeOK, NEW p \in Pages, NEW pending \in -1..2, LeavesLate(p, pending)
    PROVE  late' \in [Pages -> 0..2]
<1>1. PICK n \in 0..pending : late' = [late EXCEPT ![p] = n]
    BY DEF LeavesLate
<1>2. n \in 0..2
    OBVIOUS
<1> QED BY <1>1, <1>2 DEF TypeOK

(* The id that Upgrade finds, and the table after it. *)
LEMMA UpgradeFacts ==
    ASSUME TypeOK, NEW p \in Pages, Upgrade(p)
    PROVE  \E id \in Ids \ DOMAIN webLinks :
             /\ DOMAIN webLinks' = DOMAIN webLinks \cup {id}
             /\ webLinks'[id] = p
             /\ \A i \in DOMAIN webLinks : webLinks'[i] = webLinks[i]
             /\ idsCounter' \in Ids
<1>1. PICK id \in FreeIds : webLinks' = Inserted(id, p) /\ idsCounter' = NextId(id)
    BY DEF Upgrade
<1>2. NextId(id) \in Ids
    BY <1>1, LinksAssumption DEF NextId, FreeIds, Ids
<1> QED BY <1>1, <1>2 DEF Inserted, FreeIds

(* WebSocket::stop. *)
LEMMA StoppedType ==
    ASSUME TypeOK, NEW p \in Pages, Stopped(p)
    PROVE  socket' \in [Pages -> {"none", "open", "closed"}] /\ started' \in [Pages -> BOOLEAN]
<1>1. socket' \in [Pages -> {"none", "open", "closed"}]
    BY DEF TypeOK, Stopped
<1>2. started' \in [Pages -> BOOLEAN]
    BY Zenon DEF TypeOK, Stopped
<1> QED BY <1>1, <1>2

LEMMA HandlersType ==
    ASSUME TypeOK, NEW p \in Pages, Handlers(p)
    PROVE  TypeOK'
<1> USE DEF linkVars, socketVars, pageVars
<1>0. failing \in [Pages -> Nat]
    BY DEF TypeOK
<1>1. CASE Upgrade(p)
    <2>1. PICK id \in Ids \ DOMAIN webLinks :
            /\ DOMAIN webLinks' = DOMAIN webLinks \cup {id}
            /\ webLinks'[id] = p
            /\ \A i \in DOMAIN webLinks : webLinks'[i] = webLinks[i]
            /\ idsCounter' \in Ids
        BY <1>1, UpgradeFacts
    <2>2. DOMAIN webLinks' \subseteq Ids /\ \A i \in DOMAIN webLinks' : webLinks'[i] \in Pages
        BY <2>1 DEF TypeOK
    <2>3. uis' \subseteq DOMAIN webLinks'
        BY <1>1, <2>1 DEF Upgrade, TypeOK
    <2>4. socket' \in [Pages -> {"none", "open", "closed"}] /\ reads' \in [Pages -> 0..2]
        BY <1>1 DEF Upgrade, TypeOK
    <2>5. started' \in [Pages -> BOOLEAN]
        BY <1>1, Zenon DEF Upgrade, TypeOK
    <2> QED BY <1>1, <2>1, <2>2, <2>3, <2>4, <2>5 DEF Upgrade, TypeOK
<1>2. CASE UpgradeSpins(p)
    BY <1>2 DEF UpgradeSpins, TypeOK
<1>3. CASE ReceiveHandshake(p)
    <2>1. PICK id \in DOMAIN webLinks :
            uis' = uis \cup {id} /\ UseUI(uis \cup {id}, Then(Logged, To(p, Ack)), Nothing)
        BY <1>3 DEF ReceiveHandshake
    <2>2. Then(Logged, To(p, Ack)) \in Batch
        BY LoggedType, ToType, ThenType, MessageTypes
    <2>3. uis \cup {id} \subseteq DOMAIN webLinks
        BY <2>1 DEF TypeOK
    <2>4. \E messages \in Batch : Write(messages)
        BY <2>1, <2>2, <2>3, UseUIWrites, LoggedType
    <2>5. toPage' \in [Pages -> Seq(ToPage)] /\ failing' \in [Pages -> Nat]
        BY <2>4, <1>0, WriteType DEF Write
    <2>6. unreported' \subseteq Pages
        BY <2>1, <2>3 DEF UseUI, TypeOK
    <2>7. toServer' \in [Pages -> Seq(ToServer)]
        BY <1>3, ArrivalType DEF ReceiveHandshake
    <2>8. late' \in [Pages -> 0..2]
        BY <1>3, ReadsOnType DEF ReceiveHandshake
    <2> QED BY <1>3, <2>1, <2>3, <2>5, <2>6, <2>7, <2>8 DEF ReceiveHandshake, ReadsOn, TypeOK
<1>4. CASE HandshakeWithoutHandler(p)
    <2>1. Then(Logged, To(p, Ack)) \in Batch
        BY LoggedType, ToType, ThenType, MessageTypes
    <2>2. toPage' \in [Pages -> Seq(ToPage)] /\ failing' \in [Pages -> Nat]
        BY <1>4, <2>1, <1>0, WriteType DEF HandshakeWithoutHandler, Write
    <2>3. toServer' \in [Pages -> Seq(ToServer)]
        BY <1>4, ArrivalType DEF HandshakeWithoutHandler
    <2> QED BY <1>4, <2>2, <2>3 DEF HandshakeWithoutHandler, TypeOK
<1>5. CASE ReceiveCall(p)
    <2>1. PICK outcome \in {Nothing, To(p, FunctionReturn), Logged} : UseUI(uis, Logged, outcome)
        BY <1>5 DEF ReceiveCall
    <2>2. uis \subseteq DOMAIN webLinks /\ outcome \in Batch /\ Logged \in Batch
        BY ToType, LoggedType, MessageTypes DEF TypeOK
    <2>3. \E messages \in Batch : Write(messages)
        BY <2>1, <2>2, UseUIWrites
    <2>4. toPage' \in [Pages -> Seq(ToPage)] /\ failing' \in [Pages -> Nat]
        BY <2>3, <1>0, WriteType DEF Write
    <2>5. unreported' \subseteq Pages
        BY <2>1, <2>2 DEF UseUI, TypeOK
    <2>6. toServer' \in [Pages -> Seq(ToServer)] /\ late' \in [Pages -> 0..2]
        BY <1>5, ArrivalType, ReadsOnType DEF ReceiveCall
    <2> QED BY <1>5, <2>4, <2>5, <2>6 DEF ReceiveCall, ReadsOn, TypeOK
<1>6. CASE ReceiveUnknownCall(p)
    <2>1. Then(Logged, To(p, FunctionReturn)) \in Batch
        BY LoggedType, ToType, ThenType, MessageTypes
    <2>2. toPage' \in [Pages -> Seq(ToPage)] /\ failing' \in [Pages -> Nat]
        BY <1>6, <2>1, <1>0, WriteType DEF ReceiveUnknownCall, Write
    <2>3. toServer' \in [Pages -> Seq(ToServer)] /\ late' \in [Pages -> 0..2]
        BY <1>6, ArrivalType, ReadsOnType DEF ReceiveUnknownCall
    <2> QED BY <1>6, <2>2, <2>3 DEF ReceiveUnknownCall, ReadsOn, TypeOK
<1>11. CASE ReceiveText(p)
    <2>1. To(p, TextReply) \in Batch
        BY ToType, MessageTypes
    <2>2. toPage' \in [Pages -> Seq(ToPage)] /\ failing' \in [Pages -> Nat]
        BY <1>11, <2>1, <1>0, WriteType DEF ReceiveText, Write
    <2>3. toServer' \in [Pages -> Seq(ToServer)] /\ late' \in [Pages -> 0..2]
        BY <1>11, ArrivalType, ReadsOnType DEF ReceiveText
    <2> QED BY <1>11, <2>2, <2>3 DEF ReceiveText, ReadsOn, TypeOK
<1>7. CASE ReceiveClose(p)
    <2>1. toServer' \in [Pages -> Seq(ToServer)]
        BY <1>7, ArrivalType DEF ReceiveClose
    <2>2. socket' \in [Pages -> {"none", "open", "closed"}] /\ started' \in [Pages -> BOOLEAN]
        BY <1>7, StoppedType DEF ReceiveClose
    <2>3. reads[p] - 1 \in -1..2 /\ late \in [Pages -> 0..2]
          /\ (socket[p] # "open" => late[p] > 0)
        BY <1>7 DEF ReceiveClose, MessageArrives, TypeOK
    <2>4. late' \in [Pages -> 0..2]
        <3>1. CASE LeavesLate(p, reads[p] - 1)
            BY <2>3, <3>1, LeavesLateType
        <3>2. CASE socket[p] # "open" /\ late' = [late EXCEPT ![p] = @ - 1]
            BY <2>3, <3>2
        <3> QED BY <1>7, <3>1, <3>2 DEF ReceiveClose
    <2> QED BY <1>7, <2>1, <2>2, <2>4 DEF ReceiveClose, TypeOK
<1>8. CASE ReadFails(p)
    <2>1. toPage' \in [Pages -> Seq(ToPage)] /\ failing' \in [Pages -> Nat]
        BY <1>8, <1>0, LoggedType, WriteType DEF ReadFails, Write
    <2>2. reads' \in [Pages -> 0..2] /\ reports' \in [Pages -> Nat]
        BY <1>8 DEF ReadFails, Report, TypeOK
    <2>3. socket' \in [Pages -> {"none", "open", "closed"}] /\ started' \in [Pages -> BOOLEAN]
        BY <1>8, StoppedType DEF ReadFails
    <2> QED BY <1>8, <2>1, <2>2, <2>3 DEF ReadFails, TypeOK
<1>9. CASE WriteFails(p)
    <2>1. Handled(p) \in [Pages -> Nat]
        BY <1>9, <1>0 DEF WriteFails, Handled
    <2>2. toPage' \in [Pages -> Seq(ToPage)] /\ failing' \in [Pages -> Nat]
        BY <1>9, <2>1, LoggedType, WriteType DEF WriteFails
    <2>3. reports' \in [Pages -> Nat]
        BY <1>9 DEF WriteFails, Report, TypeOK
    <2>4. socket' \in [Pages -> {"none", "open", "closed"}] /\ started' \in [Pages -> BOOLEAN]
        BY <1>9, StoppedType DEF WriteFails
    <2>5. late' \in [Pages -> 0..2]
        <3>1. reads[p] \in -1..2 /\ LeavesLate(p, reads[p])
            BY <1>9 DEF WriteFails, TypeOK
        <3> QED BY <3>1, LeavesLateType
    <2> QED BY <1>9, <2>2, <2>3, <2>4, <2>5 DEF WriteFails, TypeOK
<1>10. CASE WriteFailsLate(p)
    <2>1. Handled(p) \in [Pages -> Nat]
        BY <1>10, <1>0 DEF WriteFailsLate, Handled
    <2> QED BY <1>10, <2>1 DEF WriteFailsLate, TypeOK
<1> QED BY <1>1, <1>2, <1>3, <1>4, <1>5, <1>6, <1>7, <1>8, <1>9, <1>10, <1>11 DEF Handlers

LEMMA TypeStep == TypeOK /\ [Next]_vars => TypeOK'
<1> SUFFICES ASSUME TypeOK, [Next]_vars
             PROVE  TypeOK'
    OBVIOUS
<1>1. CASE OnUIStarted
    BY <1>1 DEF OnUIStarted, TypeOK, linkVars, socketVars, pageVars
<1>2. CASE \E p \in Pages : PageSteps(p) \/ Handlers(p)
    BY <1>2, PageStepsType, HandlersType
<1>3. CASE UNCHANGED vars
    BY <1>3 DEF vars, linkVars, socketVars, pageVars, TypeOK
<1> QED BY <1>1, <1>2, <1>3 DEF Next

(* The variables of the link layer keep their types. *)
THEOREM TypeCorrect == Spec => []TypeOK
<1>1. TypeOK /\ [Next]_vars => TypeOK'
    BY TypeStep
<1> QED BY InitType, <1>1, PTL DEF Spec

-------------------------------------------------------------------------------
(* What relates the table, the sockets and the UI objects: a link that is   *)
(* in the table was given a socket, and a page without one has nothing.     *)
LinkInv ==
    /\ \A id \in DOMAIN webLinks : socket[webLinks[id]] # "none"
    /\ \A p \in Pages : socket[p] = "none" => reads[p] = 0 /\ ~started[p] /\ reports[p] = 0

(* What a connection has left to report: each of its reads ends with an     *)
(* error at most, and a write reports one only while it is started.         *)
Budget(p) == reports[p] + reads[p] + IF started[p] THEN 1 ELSE 0

BudgetInv == \A p \in Pages : Budget(p) <= 3

IInv == TypeOK /\ LinkInv /\ OneLinkEach /\ BudgetInv

LEMMA InitLinks == Init => LinkInv /\ OneLinkEach /\ BudgetInv
BY DEF Init, LinkInv, OneLinkEach, BudgetInv, Budget

LEMMA CountsType ==
    ASSUME TypeOK, NEW p \in Pages
    PROVE  reports[p] \in Nat /\ reads[p] \in Nat
<1>1. reports[p] \in Nat /\ reads[p] \in 0..2
    BY DEF TypeOK
<1> QED BY <1>1

LEMMA BudgetBounds ==
    ASSUME TypeOK, NEW p \in Pages, Budget(p) <= 3
    PROVE  reports[p] <= 3
BY CountsType DEF Budget

(* The actions that leave the table, the sockets and the counts alone. *)
LEMMA LinksKept ==
    ASSUME IInv, UNCHANGED <<webLinks, socket, started, reads, reports>>
    PROVE  (LinkInv /\ OneLinkEach /\ BudgetInv)'
BY DEF IInv, LinkInv, OneLinkEach, BudgetInv, Budget

(* An error: it may take a read, or the connection out of started, but in   *)
(* exchange of one report; or stop() without a report.                      *)
LEMMA StopKeepsLinks ==
    ASSUME IInv, NEW p \in Pages, socket[p] # "none", Stopped(p),
           UNCHANGED webLinks,
           \/ UNCHANGED <<reads, reports>>
           \/ /\ reads[p] > 0 /\ reads' = [reads EXCEPT ![p] = @ - 1] /\ Report(p)
           \/ /\ started[p] /\ UNCHANGED reads /\ Report(p)
    PROVE  (LinkInv /\ OneLinkEach /\ BudgetInv)'
<1>0. TypeOK /\ LinkInv /\ OneLinkEach /\ BudgetInv
    BY DEF IInv
<1>1. \A q \in Pages : q # p =>
        /\ socket'[q] = socket[q] /\ started'[q] = started[q]
        /\ reads'[q] = reads[q] /\ reports'[q] = reports[q]
    BY <1>0 DEF Stopped, Report, TypeOK
<1>2. socket'[p] = "closed" /\ started'[p] = FALSE
    BY <1>0 DEF Stopped, TypeOK
<1>3. LinkInv' /\ OneLinkEach'
    <2>1. \A id \in DOMAIN webLinks : webLinks[id] \in Pages
        BY <1>0 DEF TypeOK
    <2>2. socket[p] # "none"
        BY DEF Stopped
    <2>3. webLinks' = webLinks
        OBVIOUS
    <2>4. LinkInv'
        BY <1>0, <1>1, <1>2, <2>1, <2>3 DEF LinkInv
    <2>5. OneLinkEach'
        BY <1>0, <1>1, <2>2, <2>3 DEF OneLinkEach
    <2> QED
        BY <2>4, <2>5
<1>4. Budget(p)' <= 3
    <2>1. reports[p] + reads[p] + (IF started[p] THEN 1 ELSE 0) <= 3
        BY <1>0 DEF BudgetInv, Budget
    <2>2. reports[p] \in Nat /\ reads[p] \in Nat
        BY <1>0, CountsType
    <2>3. CASE UNCHANGED <<reads, reports>>
        BY <1>2, <2>1, <2>2, <2>3 DEF Budget
    <2>4. CASE reads[p] > 0 /\ reads' = [reads EXCEPT ![p] = @ - 1] /\ Report(p)
        <3>1. reads'[p] = reads[p] - 1 /\ reports'[p] = reports[p] + 1
            BY <2>4, <1>0 DEF Report, TypeOK
        <3> QED BY <3>1, <1>2, <2>1, <2>2 DEF Budget
    <2>5. CASE started[p] /\ UNCHANGED reads /\ Report(p)
        <3>1. reads'[p] = reads[p] /\ reports'[p] = reports[p] + 1
            BY <2>5, <1>0 DEF Report, TypeOK
        <3> QED BY <3>1, <1>2, <2>1, <2>2, <2>5 DEF Budget
    <2> QED BY <2>3, <2>4, <2>5
<1>5. BudgetInv'
    BY <1>0, <1>1, <1>4 DEF BudgetInv, Budget
<1> QED BY <1>3, <1>5

LEMMA UpgradeKeepsLinks ==
    ASSUME IInv, NEW p \in Pages, Upgrade(p)
    PROVE  (LinkInv /\ OneLinkEach /\ BudgetInv)'
<1>0. TypeOK /\ LinkInv /\ OneLinkEach /\ BudgetInv
    BY DEF IInv
<1>1. PICK id \in Ids \ DOMAIN webLinks :
        /\ DOMAIN webLinks' = DOMAIN webLinks \cup {id}
        /\ webLinks'[id] = p
        /\ \A i \in DOMAIN webLinks : webLinks'[i] = webLinks[i]
    BY <1>0, UpgradeFacts
<1>2. /\ server = "running" /\ server' = server
      /\ socket[p] = "none" /\ socket'[p] = "open" /\ reads'[p] = 2 /\ started'[p] = TRUE
      /\ \A q \in Pages : q # p =>
           socket'[q] = socket[q] /\ started'[q] = started[q] /\ reads'[q] = reads[q]
      /\ reports' = reports
    BY <1>0 DEF Upgrade, TypeOK
<1>3. \A i \in DOMAIN webLinks : webLinks[i] # p /\ webLinks[i] \in Pages
    BY <1>0, <1>2 DEF LinkInv, TypeOK
<1>4. LinkInv'
    BY <1>0, <1>1, <1>2, <1>3 DEF LinkInv
<1>5. OneLinkEach'
    <2>1. \A q \in Pages : socket'[q] # "none" => \E i \in DOMAIN webLinks' : webLinks'[i] = q
        BY <1>0, <1>1, <1>2 DEF OneLinkEach
    <2>2. \A i, j \in DOMAIN webLinks' : webLinks'[i] = webLinks'[j] => i = j
        BY <1>0, <1>1, <1>3 DEF OneLinkEach
    <2> QED BY <2>1, <2>2 DEF OneLinkEach
<1>6. BudgetInv'
    <2>1. reports[p] = 0
        BY <1>0, <1>2 DEF LinkInv
    <2>2. Budget(p)' <= 3
        BY <1>2, <2>1 DEF Budget
    <2> QED BY <1>0, <1>2, <2>2 DEF BudgetInv, Budget
<1> QED BY <1>4, <1>5, <1>6

LEMMA HandlersKeepLinks ==
    ASSUME IInv, NEW p \in Pages, Handlers(p)
    PROVE  (LinkInv /\ OneLinkEach /\ BudgetInv)'
<1> USE DEF linkVars, socketVars
<1>0. TypeOK /\ LinkInv
    BY DEF IInv
<1>1. CASE Upgrade(p)
    BY <1>1, UpgradeKeepsLinks
<1>2. CASE UpgradeSpins(p)
    BY <1>2, LinksKept DEF UpgradeSpins
<1>3. CASE ReceiveHandshake(p)
    BY <1>3, LinksKept DEF ReceiveHandshake, ReadsOn
<1>4. CASE HandshakeWithoutHandler(p)
    BY <1>4, LinksKept DEF HandshakeWithoutHandler
<1>5. CASE ReceiveCall(p) \/ ReceiveUnknownCall(p) \/ ReceiveText(p)
    BY <1>5, LinksKept DEF ReceiveCall, ReceiveUnknownCall, ReceiveText, ReadsOn
<1>6. CASE ReceiveClose(p)
    <2>1. socket[p] # "none"
        BY <1>0, <1>6 DEF ReceiveClose, MessageArrives, LinkInv, TypeOK
    <2> QED BY <1>6, <2>1, StopKeepsLinks DEF ReceiveClose
<1>7. CASE ReadFails(p)
    <2>1. socket[p] # "none"
        BY <1>0, <1>7 DEF ReadFails, LinkInv, TypeOK
    <2> QED BY <1>7, <2>1, StopKeepsLinks DEF ReadFails
<1>8. CASE WriteFails(p)
    <2>1. socket[p] # "none"
        BY <1>0, <1>8 DEF WriteFails, LinkInv
    <2> QED BY <1>8, <2>1, StopKeepsLinks DEF WriteFails
<1>9. CASE WriteFailsLate(p)
    BY <1>9, LinksKept DEF WriteFailsLate
<1> QED BY <1>1, <1>2, <1>3, <1>4, <1>5, <1>6, <1>7, <1>8, <1>9 DEF Handlers

LEMMA LinksStep == IInv /\ [Next]_vars => IInv'
<1> SUFFICES ASSUME IInv, [Next]_vars
             PROVE  IInv'
    OBVIOUS
<1>1. TypeOK'
    BY TypeStep DEF IInv
<1>2. (LinkInv /\ OneLinkEach /\ BudgetInv)'
    <2>1. CASE OnUIStarted
        BY <2>1, LinksKept DEF OnUIStarted, socketVars
    <2>2. ASSUME NEW p \in Pages, PageSteps(p)
          PROVE  (LinkInv /\ OneLinkEach /\ BudgetInv)'
        BY <2>2, LinksKept
           DEF PageSteps, PageOpens, PageReceives, PageLeaves, PageSends, linkVars, socketVars
    <2>3. ASSUME NEW p \in Pages, Handlers(p)
          PROVE  (LinkInv /\ OneLinkEach /\ BudgetInv)'
        BY <2>3, HandlersKeepLinks
    <2>4. CASE UNCHANGED vars
        BY <2>4, LinksKept DEF vars, linkVars, socketVars
    <2> QED BY <2>1, <2>2, <2>3, <2>4 DEF Next
<1> QED BY <1>1, <1>2 DEF IInv

LEMMA LinksInvariant == Spec => []IInv
<1>1. Init => IInv
    BY InitType, InitLinks DEF IInv
<1> QED BY <1>1, LinksStep, PTL DEF Spec

(* However often the counter of ids wraps, each websocket has a link of its *)
(* own, and the links of two pages are never confused.                      *)
THEOREM LinksNeverShared == Spec => []OneLinkEach
<1>1. IInv => OneLinkEach
    BY DEF IInv
<1> QED BY LinksInvariant, <1>1, PTL

(* Logging errors through connections that fail does not feed on itself:    *)
(* a connection reports three of them at most, however many are linked.     *)
THEOREM ThreeReportsAtMost == Spec => []ErrorsDieOut
<1>1. IInv => ErrorsDieOut
    BY BudgetBounds DEF IInv, BudgetInv, ErrorsDieOut
<1> QED BY LinksInvariant, <1>1, PTL

-------------------------------------------------------------------------------
(* Nobody has a reason to write to p: it has no sink, and the application   *)
(* no UI object for it.                                                     *)
Silent(p) == toPage[p] = <<>> /\ p \notin sinks /\ \A id \in uis : webLinks[id] # p

(* A page without Ack either still has its Handshake at the head of its     *)
(* queue, and then nobody writes to it, or the Ack is what it reads next,   *)
(* or its socket was closed before and it reads nothing any more.           *)
AckOf(p) ==
    /\ page[p] = "absent" => Silent(p) /\ toServer[p] = <<>>
    /\ page[p] = "handshaking" =>
         \/ Silent(p) /\ toServer[p] # <<>> /\ Head(toServer[p]) = Handshake
         \/ toPage[p] # <<>> /\ Head(toPage[p]) = Ack
         \/ toPage[p] = <<>> /\ socket[p] = "closed"
    /\ late[p] > 0 => socket[p] = "closed"

AckInv == \A p \in Pages : AckOf(p)

LEMMA ConcatHead ==
    ASSUME NEW S, NEW s \in Seq(S), NEW t \in Seq(S)
    PROVE  /\ s # <<>> => s \o t # <<>> /\ Head(s \o t) = Head(s)
           /\ s = <<>> => s \o t = t
           /\ t = <<>> => s \o t = s
OBVIOUS

LEMMA WriteKeepsHead ==
    ASSUME TypeOK, NEW queued, NEW messages \in Batch, WriteOver(queued, messages),
           NEW q \in Pages
    PROVE  /\ toPage[q] # <<>> => toPage'[q] # <<>> /\ Head(toPage'[q]) = Head(toPage[q])
           /\ messages[q] = <<>> => toPage'[q] = toPage[q]
<1>1. toPage[q] \in Seq(ToPage) /\ messages[q] \in Seq(ToPage)
    BY DEF TypeOK, Batch
<1>2. toPage'[q] = toPage[q] \/ toPage'[q] = toPage[q] \o messages[q]
    BY WriteEffect
<1>3. toPage[q] # <<>> =>
        toPage[q] \o messages[q] # <<>> /\ Head(toPage[q] \o messages[q]) = Head(toPage[q])
    BY <1>1, ConcatHead
<1>4. messages[q] = <<>> => toPage[q] \o messages[q] = toPage[q]
    BY <1>1, ConcatHead
<1> QED BY <1>2, <1>3, <1>4

(* A closed socket stays so, and only such a one has late messages. *)
StillClosed(p) ==
    /\ socket[p] = "closed" => socket'[p] = "closed"
    /\ late'[p] > 0 => socket'[p] = "closed"

(* A handler that has nothing for the silent pages keeps AckOf(q), if it    *)
(* takes no message of q and gives it neither sink nor UI object.           *)
LEMMA HandlerKeepsAck ==
    ASSUME TypeOK, NEW q \in Pages, AckOf(q),
           NEW queued, NEW messages \in Batch, WriteOver(queued, messages),
           Silent(q) => messages[q] = <<>>,
           page' = page, toServer'[q] = toServer[q], webLinks' = webLinks,
           q \in sinks' => q \in sinks,
           \A id \in uis' : webLinks[id] = q => id \in uis,
           StillClosed(q)
    PROVE  AckOf(q)'
<1>3. page[q] # "gone" /\ socket[q] = "closed" => toPage'[q] = toPage[q]
    BY WriteEffect
<1>1. Silent(q) => Silent(q)'
    BY WriteKeepsHead DEF Silent
<1>2. toPage[q] # <<>> => toPage'[q] # <<>> /\ Head(toPage'[q]) = Head(toPage[q])
    BY WriteKeepsHead
<1> QED BY <1>1, <1>2, <1>3 DEF AckOf, StillClosed

LEMMA SilentLogged ==
    ASSUME NEW q \in Pages, Silent(q)
    PROVE  Logged[q] = <<>>
BY DEF Logged, Silent

LEMMA ArrivalFacts ==
    ASSUME TypeOK, NEW p \in Pages, NEW command, MessageArrives(p, command), AckOf(p)
    PROVE  /\ \A q \in Pages : q # p => toServer'[q] = toServer[q]
           /\ socket[p] \in {"open", "closed"} /\ page[p] # "absent"
           /\ command # "handshake" /\ page[p] = "handshaking" =>
                \/ toPage[p] # <<>> /\ Head(toPage[p]) = Ack
                \/ toPage[p] = <<>> /\ socket[p] = "closed"
<1>1. toServer \in [Pages -> Seq(ToServer)]
    BY DEF TypeOK
<1> QED BY <1>1 DEF MessageArrives, AckOf, Handshake

(* The head of the messages for p, when the first of them is the Ack. *)
LEMMA AckBatch ==
    ASSUME NEW p \in Pages, Silent(p), NEW message \in ToPage, message = Ack
    PROVE  Then(Logged, To(p, message))[p] = <<message>>
<1>1. Logged[p] = <<>> /\ To(p, message)[p] = <<message>>
    BY SilentLogged DEF To
<1>2. <<>> \o <<message>> = <<message>>
    OBVIOUS
<1> QED BY <1>1, <1>2 DEF Then

LEMMA OthersOfThen ==
    ASSUME NEW p \in Pages, NEW q \in Pages, q # p, NEW message \in ToPage
    PROVE  Then(Logged, To(p, message))[q] = Logged[q]
<1>1. Logged[q] \in Seq(ToPage)
    BY LoggedType DEF Batch
<1>2. To(p, message)[q] = <<>>
    BY DEF To
<1>3. Then(Logged, To(p, message))[q] = Logged[q] \o To(p, message)[q]
    BY DEF Then
<1>4. Logged[q] \o <<>> = Logged[q]
    BY <1>1
<1> QED BY <1>2, <1>3, <1>4

(* What a Handshake leads to: the Ack is the first message for its page.    *)
LEMMA HandshakeGivesAck ==
    ASSUME TypeOK, NEW p \in Pages, AckOf(p), MessageArrives(p, "handshake"),
           NEW messages \in Batch, Write(messages), page' = page, StillClosed(p),
           \/ messages[p] = Then(Logged, To(p, Ack))[p]
           \/ \E m \in ToPage : messages[p] = Then(Logged, To(p, Ack))[p] \o <<m>>
    PROVE  AckOf(p)'
<1>1. CASE page[p] # "handshaking"
    BY <1>1, ArrivalFacts DEF AckOf, StillClosed
<1>4. CASE page[p] = "handshaking" /\ toPage[p] = <<>> /\ socket[p] = "closed"
    <2>1. toPage'[p] = toPage[p]
        BY <1>4, WriteEffect DEF Write
    <2> QED BY <1>4, <2>1 DEF AckOf, StillClosed
<1>2. CASE page[p] = "handshaking" /\ Silent(p) /\ socket[p] = "open"
    <2>1. Then(Logged, To(p, Ack))[p] = <<Ack>>
        BY <1>2, AckBatch, MessageTypes
    <2>2. messages[p] # <<>> /\ Head(messages[p]) = Ack /\ messages[p] \in Seq(ToPage)
        <3>1. \A m \in ToPage : <<Ack>> \o <<m>> # <<>> /\ Head(<<Ack>> \o <<m>>) = Ack
            BY MessageTypes
        <3>2. <<Ack>> # <<>> /\ Head(<<Ack>>) = Ack
            OBVIOUS
        <3>3. messages[p] \in Seq(ToPage)
            BY DEF Batch
        <3>4. \/ messages[p] = <<Ack>>
              \/ \E m \in ToPage : messages[p] = <<Ack>> \o <<m>>
            BY <2>1
        <3> QED BY <3>1, <3>2, <3>3, <3>4
    <2>3. toPage'[p] = toPage[p] \o messages[p]
        BY <1>2, ArrivalFacts, WriteEffect DEF Write
    <2>4. toPage'[p] = messages[p]
        BY <1>2, <2>2, <2>3, ConcatHead DEF Silent
    <2> QED BY <1>2, <2>2, <2>4 DEF AckOf, StillClosed
<1>3. CASE page[p] = "handshaking" /\ toPage[p] # <<>>
    <2>1. toPage[p] # <<>> /\ Head(toPage[p]) = Ack
        BY <1>3 DEF AckOf, Silent
    <2>2. toPage'[p] # <<>> /\ Head(toPage'[p]) = Ack
        BY <2>1, WriteKeepsHead DEF Write
    <2> QED BY <1>3, <2>2 DEF AckOf, StillClosed
<1> QED BY <1>1, <1>2, <1>3, <1>4, ArrivalFacts DEF AckOf, Silent

(* A later message of p: if p still waits, the Ack is in its queue already. *)
LEMMA LaterMessageKeepsAck ==
    ASSUME TypeOK, NEW p \in Pages, AckOf(p), NEW command, command # "handshake",
           MessageArrives(p, command), NEW messages \in Batch, Write(messages), page' = page,
           StillClosed(p)
    PROVE  AckOf(p)'
<1>1. page[p] = "handshaking" =>
        \/ toPage[p] # <<>> /\ Head(toPage[p]) = Ack
        \/ toPage[p] = <<>> /\ socket[p] = "closed"
    BY ArrivalFacts
<1>2. toPage[p] # <<>> => toPage'[p] # <<>> /\ Head(toPage'[p]) = Head(toPage[p])
    BY WriteKeepsHead DEF Write
<1>3. page[p] = "handshaking" /\ socket[p] = "closed" => toPage'[p] = toPage[p]
    BY WriteEffect DEF Write
<1> QED BY <1>1, <1>2, <1>3, ArrivalFacts DEF AckOf, StillClosed

(* read() again after a message. *)
LEMMA ReadsOnStaysClosed ==
    ASSUME TypeOK, AckInv, NEW p \in Pages, NEW command, MessageArrives(p, command), ReadsOn(p)
    PROVE  \A q \in Pages : StillClosed(q)
<1>1. \A q \in Pages : socket'[q] = socket[q] /\ (late'[q] > 0 => late[q] > 0)
    <2>1. late \in [Pages -> 0..2] /\ socket' = socket
        BY DEF TypeOK, ReadsOn
    <2>2. late' = late \/ (late[p] > 0 /\ late' = [late EXCEPT ![p] = @ - 1])
        BY DEF ReadsOn, MessageArrives
    <2> QED BY <2>1, <2>2
<1> QED BY <1>1 DEF StillClosed, AckInv, AckOf

(* What the application's handler leaves unwritten. *)
LEMMA SilentBetween ==
    ASSUME NEW q \in Pages, Silent(q), NEW known, NEW before, NEW after, NEW messages,
           PutsBetween(known, before, after, messages), before[q] = <<>>, after[q] = <<>>,
           \A id \in known : webLinks[id] = q => id \in uis
    PROVE  messages[q] = <<>>
<1>1. messages[q] = before[q] \o after[q]
    BY DEF PutsBetween, Silent
<1> QED BY <1>1

LEMMA HandlersKeepAck ==
    ASSUME TypeOK, AckInv, NEW p \in Pages, Handlers(p)
    PROVE  AckInv'
<1> USE DEF linkVars, socketVars, pageVars
<1>0. AckOf(p) /\ Logged \in Batch /\ Nothing \in Batch
    BY LoggedType DEF AckInv
<1>1. ASSUME NEW queued, WriteOver(queued, Logged),
             UNCHANGED <<page, toServer, webLinks, sinks, uis>>,
             \A q \in Pages : StillClosed(q)
      PROVE  AckInv'
    <2>1. ASSUME NEW q \in Pages
          PROVE  AckOf(q)'
        BY <1>0, <1>1, SilentLogged, HandlerKeepsAck DEF AckInv
    <2> QED BY <2>1 DEF AckInv
<1>2. ASSUME UNCHANGED <<page, toServer, toPage, sinks, uis>>,
             \A id \in uis : webLinks'[id] = webLinks[id],
             \A q \in Pages : StillClosed(q)
      PROVE  AckInv'
    BY <1>2 DEF AckInv, AckOf, Silent, StillClosed
<1>13. ASSUME UNCHANGED <<socket, late>>
       PROVE  \A q \in Pages : StillClosed(q)
    BY <1>13 DEF AckInv, AckOf, StillClosed
<1>14. ASSUME Stopped(p), \A q \in Pages : q # p => late'[q] = late[q]
       PROVE  \A q \in Pages : StillClosed(q)
    BY <1>14 DEF Stopped, TypeOK, AckInv, AckOf, StillClosed
<1>3. CASE Upgrade(p)
    <2>1. \A id \in uis : webLinks'[id] = webLinks[id]
        BY <1>3, UpgradeFacts DEF TypeOK
    <2>2. \A q \in Pages : StillClosed(q)
        BY <1>3 DEF Upgrade, TypeOK, AckInv, AckOf, StillClosed
    <2> QED BY <1>2, <1>3, <2>1, <2>2 DEF Upgrade
<1>4. CASE UpgradeSpins(p)
    BY <1>2, <1>4, <1>13 DEF UpgradeSpins
<1>5. CASE ReceiveHandshake(p)
    <2> DEFINE before == Then(Logged, To(p, Ack))
    <2>1. PICK id \in DOMAIN webLinks :
            webLinks[id] = p /\ uis' = uis \cup {id} /\ UseUI(uis \cup {id}, before, Nothing)
        BY <1>5 DEF ReceiveHandshake
    <2>2. before \in Batch /\ uis \cup {id} \subseteq DOMAIN webLinks
        BY <2>1, LoggedType, ToType, ThenType, MessageTypes DEF TypeOK
    <2> HIDE DEF before
    <2>3. PICK messages \in Batch :
            Write(messages) /\ PutsBetween(uis \cup {id}, before, Nothing, messages)
        BY <1>0, <2>1, <2>2, UseUIWrites
    <2>4. MessageArrives(p, "handshake") /\ page' = page /\ webLinks' = webLinks
          /\ sinks' = sinks \cup {p} /\ ReadsOn(p)
        BY <1>5 DEF ReceiveHandshake
    <2>7. \A q \in Pages : StillClosed(q)
        BY <2>4, ReadsOnStaysClosed
    <2>5. AckOf(p)'
        <3>1. \A t \in Seq(ToPage) : t \o Nothing[p] = t
            BY ConcatHead DEF Nothing
        <3>2. before[p] \in Seq(ToPage) /\ \A m \in ToPage : before[p] \o <<m>> \in Seq(ToPage)
            BY <2>2 DEF Batch
        <3>4. /\ before[p] \o Nothing[p] = before[p]
              /\ \A m \in ToPage : (before[p] \o <<m>>) \o Nothing[p] = before[p] \o <<m>>
            BY <3>1, <3>2
        <3>3. \/ messages[p] = before[p]
              \/ \E m \in ToPage : messages[p] = before[p] \o <<m>>
            <4>1. \/ messages[p] = before[p] \o Nothing[p]
                  \/ \E m \in ToPage : messages[p] = (before[p] \o <<m>>) \o Nothing[p]
                BY <2>3, Zenon DEF PutsBetween
            <4> QED BY <3>4, <4>1, Zenon
        <3> QED BY <1>0, <2>3, <2>4, <2>7, <3>3, HandshakeGivesAck DEF before
    <2>6. ASSUME NEW q \in Pages, q # p
          PROVE  AckOf(q)'
        <3>1. Silent(q) => before[q] = <<>>
            BY <2>6, OthersOfThen, SilentLogged, MessageTypes DEF before
        <3>2. Silent(q) => messages[q] = <<>>
            <4>1. Nothing[q] = <<>> /\ \A i \in uis \cup {id} : webLinks[i] = q => i \in uis
                BY <2>1, <2>6 DEF Nothing
            <4> QED BY <2>3, <3>1, <4>1, SilentBetween
        <3>3. toServer'[q] = toServer[q]
            BY <1>0, <2>4, <2>6, ArrivalFacts
        <3> QED BY <2>1, <2>3, <2>4, <2>6, <2>7, <3>2, <3>3, HandlerKeepsAck DEF AckInv, Write
    <2> QED BY <2>5, <2>6 DEF AckInv
<1>6. CASE HandshakeWithoutHandler(p)
    <2> DEFINE messages == Then(Logged, To(p, Ack))
    <2>1. messages \in Batch
        BY LoggedType, ToType, ThenType, MessageTypes
    <2>2. MessageArrives(p, "handshake") /\ page' = page /\ webLinks' = webLinks
          /\ sinks' = sinks \cup {p} /\ uis' = uis /\ Write(messages)
          /\ UNCHANGED <<socket, late>>
        BY <1>6 DEF HandshakeWithoutHandler
    <2>5. \A q \in Pages : StillClosed(q)
        BY <1>13, <2>2
    <2>3. AckOf(p)'
        BY <1>0, <2>1, <2>2, <2>5, HandshakeGivesAck
    <2>4. ASSUME NEW q \in Pages, q # p
          PROVE  AckOf(q)'
        <3>1. Silent(q) => messages[q] = <<>>
            BY <2>4, OthersOfThen, SilentLogged, MessageTypes
        <3>2. toServer'[q] = toServer[q]
            BY <1>0, <2>2, <2>4, ArrivalFacts
        <3> QED BY <2>1, <2>2, <2>4, <2>5, <3>1, <3>2, HandlerKeepsAck DEF AckInv, Write
    <2> QED BY <2>3, <2>4 DEF AckInv
<1>7. ASSUME NEW command, command # "handshake", MessageArrives(p, command), ReadsOn(p),
             UNCHANGED <<page, webLinks, sinks, uis>>, NEW messages \in Batch, Write(messages),
             \A q \in Pages : q # p /\ Silent(q) => messages[q] = <<>>
      PROVE  AckInv'
    <2>1. \A q \in Pages : StillClosed(q)
        BY <1>7, ReadsOnStaysClosed
    <2>2. AckOf(p)'
        BY <1>0, <1>7, <2>1, LaterMessageKeepsAck
    <2>3. ASSUME NEW q \in Pages, q # p
          PROVE  AckOf(q)'
        <3>1. toServer'[q] = toServer[q]
            BY <1>0, <1>7, <2>3, ArrivalFacts
        <3> QED BY <1>7, <2>1, <2>3, <3>1, HandlerKeepsAck DEF AckInv, Write
    <2> QED BY <2>2, <2>3 DEF AckInv
<1>8. CASE ReceiveCall(p)
    <2>1. PICK outcome \in {Nothing, To(p, FunctionReturn), Logged} : UseUI(uis, Logged, outcome)
        BY <1>8 DEF ReceiveCall
    <2>2. uis \subseteq DOMAIN webLinks /\ outcome \in Batch
        BY ToType, LoggedType, MessageTypes DEF TypeOK
    <2>3. PICK messages \in Batch : Write(messages) /\ PutsBetween(uis, Logged, outcome, messages)
        BY <1>0, <2>1, <2>2, UseUIWrites
    <2>4. ASSUME NEW q \in Pages, q # p, Silent(q)
          PROVE  messages[q] = <<>>
        <3>1. Logged[q] = <<>>
            BY <2>4, SilentLogged
        <3>2. outcome[q] = <<>>
            BY <2>4, <3>1 DEF Nothing, To
        <3> QED BY <2>3, <2>4, <3>1, <3>2, SilentBetween
    <2>5. MessageArrives(p, "callFunction") /\ ReadsOn(p) /\ UNCHANGED <<page, webLinks, sinks, uis>>
        BY <1>8 DEF ReceiveCall
    <2> QED BY <1>7, <2>3, <2>4, <2>5
<1>15. CASE ReceiveUnknownCall(p)
    <2> DEFINE messages == Then(Logged, To(p, FunctionReturn))
    <2>1. messages \in Batch
        BY LoggedType, ToType, ThenType, MessageTypes
    <2>2. \A q \in Pages : q # p /\ Silent(q) => messages[q] = <<>>
        BY OthersOfThen, SilentLogged, MessageTypes
    <2>3. MessageArrives(p, "callFunction") /\ UNCHANGED <<page, webLinks, sinks, uis>>
          /\ ReadsOn(p) /\ Write(messages)
        BY <1>15 DEF ReceiveUnknownCall
    <2> HIDE DEF messages
    <2> QED BY <1>7, <2>1, <2>2, <2>3
<1>16. CASE ReceiveText(p)
    <2> DEFINE messages == To(p, TextReply)
    <2>1. messages \in Batch
        BY ToType, MessageTypes
    <2>2. \A q \in Pages : q # p /\ Silent(q) => messages[q] = <<>>
        BY DEF To
    <2>3. MessageArrives(p, "text") /\ UNCHANGED <<page, webLinks, sinks, uis>>
          /\ ReadsOn(p) /\ Write(messages)
        BY <1>16 DEF ReceiveText
    <2> HIDE DEF messages
    <2> QED BY <1>7, <2>1, <2>2, <2>3
<1>9. CASE ReceiveClose(p)
    <2>1. MessageArrives(p, "close") /\ UNCHANGED <<page, toPage, webLinks, sinks, uis>>
        BY <1>9 DEF ReceiveClose
    <2>2. /\ \A q \in Pages : q # p => toServer'[q] = toServer[q]
          /\ page[p] # "absent"
          /\ page[p] = "handshaking" =>
               \/ toPage[p] # <<>> /\ Head(toPage[p]) = Ack
               \/ toPage[p] = <<>> /\ socket[p] = "closed"
        BY <1>0, <2>1, ArrivalFacts
    <2>3. \A q \in Pages : q # p => late'[q] = late[q]
        BY <1>9 DEF ReceiveClose, LeavesLate, TypeOK
    <2>4. \A q \in Pages : StillClosed(q)
        BY <1>9, <1>14, <2>3 DEF ReceiveClose
    <2> QED BY <2>1, <2>2, <2>4 DEF AckInv, AckOf, Silent, StillClosed
<1>10. CASE ReadFails(p)
    BY <1>1, <1>10, <1>14 DEF ReadFails, Write
<1>11. CASE WriteFails(p)
    <2>1. \A q \in Pages : q # p => late'[q] = late[q]
        BY <1>11 DEF WriteFails, LeavesLate, TypeOK
    <2> QED BY <1>1, <1>11, <1>14, <2>1 DEF WriteFails
<1>12. CASE WriteFailsLate(p)
    BY <1>2, <1>12, <1>13 DEF WriteFailsLate
<1> QED
    BY <1>3, <1>4, <1>5, <1>6, <1>8, <1>9, <1>10, <1>11, <1>12, <1>15, <1>16 DEF Handlers

LEMMA PageStepsKeepAck ==
    ASSUME TypeOK, AckInv, NEW p \in Pages, PageSteps(p)
    PROVE  AckInv'
<1> USE DEF linkVars, socketVars, pageVars
<1>0. page \in [Pages -> {"absent", "handshaking", "linked", "gone"}]
      /\ toServer \in [Pages -> Seq(ToServer)] /\ toPage \in [Pages -> Seq(ToPage)]
    BY DEF TypeOK
<1>5. UNCHANGED <<socket, late>> /\ \A q \in Pages : late[q] > 0 => socket[q] = "closed"
    BY DEF PageSteps, PageOpens, PageReceives, PageLeaves, PageSends, AckInv, AckOf
<1>1. CASE PageOpens(p)
    <2>1. toServer'[p] # <<>> /\ Head(toServer'[p]) = Handshake
        <3>1. toServer'[p] = Append(<<>>, Handshake)
            BY <1>0, <1>1 DEF PageOpens, AckInv, AckOf
        <3> QED BY <3>1
    <2>2. page'[p] = "handshaking" /\ Silent(p)'
        BY <1>0, <1>1 DEF PageOpens, AckInv, AckOf, Silent
    <2>3. AckOf(p)'
        BY <1>5, <2>1, <2>2 DEF AckOf
    <2>4. \A q \in Pages : q # p => AckOf(q)'
        BY <1>0, <1>1 DEF PageOpens, AckInv, AckOf, Silent
    <2> QED BY <2>3, <2>4 DEF AckInv
<1>2. CASE PageReceives(p)
    <2>1. page'[p] = "linked"
        <3>1. page[p] = "handshaking" => Head(toPage[p]) = Ack
            BY <1>2 DEF PageReceives, AckInv, AckOf, Silent
        <3> QED BY <1>0, <1>2, <3>1 DEF PageReceives
    <2>2. \A q \in Pages : q # p => AckOf(q)'
        BY <1>0, <1>2 DEF PageReceives, AckInv, AckOf, Silent
    <2> QED BY <1>5, <2>1, <2>2 DEF AckInv, AckOf
<1>3. CASE PageLeaves(p)
    <2>1. page'[p] = "gone"
        BY <1>0, <1>3 DEF PageLeaves
    <2>2. ASSUME NEW q \in Pages, q # p
          PROVE  AckOf(q)'
        <3>1. page'[q] = page[q] /\ toPage'[q] = toPage[q]
              /\ UNCHANGED <<sinks, uis, webLinks, socket, late>>
            BY <1>0, <1>3, <2>2 DEF PageLeaves
        <3>2. toServer'[q] = toServer[q]
            <4>1. \/ toServer' = [toServer EXCEPT ![p] = Append(@, Close)]
                  \/ toServer' = toServer
                BY <1>3 DEF PageLeaves
            <4> QED BY <1>0, <2>2, <4>1
        <3> QED BY <3>1, <3>2 DEF AckInv, AckOf, Silent
    <2> QED BY <1>5, <2>1, <2>2 DEF AckInv, AckOf
<1>4. ASSUME NEW message \in ToServer, PageSends(p, message)
      PROVE  AckInv'
    <2>1. /\ toServer' = [toServer EXCEPT ![p] = Append(@, message)]
          /\ UNCHANGED <<page, toPage, sinks, uis, webLinks, socket, late>> /\ page[p] # "absent"
        BY <1>4 DEF PageSends
    <2>2. toServer[p] # <<>> => toServer'[p] # <<>> /\ Head(toServer'[p]) = Head(toServer[p])
        <3>1. toServer'[p] = Append(toServer[p], message)
            BY <1>0, <2>1
        <3>2. \A t \in Seq(ToServer) : t # <<>> =>
                Append(t, message) # <<>> /\ Head(Append(t, message)) = Head(t)
            OBVIOUS
        <3> QED BY <1>0, <3>1, <3>2
    <2>3. \A q \in Pages : q # p => toServer'[q] = toServer[q]
        BY <1>0, <2>1
    <2> QED BY <2>1, <2>2, <2>3 DEF AckInv, AckOf, Silent
<1> QED BY <1>1, <1>2, <1>3, <1>4, MessageTypes DEF PageSteps

LEMMA AckStep == TypeOK /\ AckInv /\ [Next]_vars => AckInv'
<1> SUFFICES ASSUME TypeOK, AckInv, [Next]_vars
             PROVE  AckInv'
    OBVIOUS
<1>1. CASE OnUIStarted
    BY <1>1 DEF OnUIStarted, pageVars, socketVars, AckInv, AckOf, Silent
<1>2. CASE \E p \in Pages : PageSteps(p) \/ Handlers(p)
    BY <1>2, PageStepsKeepAck, HandlersKeepAck
<1>3. CASE UNCHANGED vars
    BY <1>3 DEF vars, linkVars, socketVars, pageVars, AckInv, AckOf, Silent
<1> QED BY <1>1, <1>2, <1>3 DEF Next

(* Whatever the other pages, the logger and the application do, a page      *)
(* reads the Ack before anything else.                                      *)
THEOREM AckComesFirst == Spec => []AckFirst
<1>1. Init => AckInv
    BY DEF Init, AckInv, AckOf, Silent
<1>2. AckInv => AckFirst
    BY DEF AckInv, AckOf, AckFirst, Silent
<1> QED BY TypeCorrect, AckStep, <1>1, <1>2, PTL DEF Spec

===============================================================================
