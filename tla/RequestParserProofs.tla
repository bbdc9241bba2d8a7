-------------------------- MODULE RequestParserProofs --------------------------
(* Theorems about RequestParser, for every set of connections and bounds.   *)
EXTENDS RequestParser, TLAPS

(* What the table says, row by row. *)
LEMMA RowFacts ==
    ASSUME NEW count \in Nat, NEW row \in Rows(count)
    PROVE  /\ row[1] \in Parsing /\ row[3] \in States \ {"bad"}
           /\ row[3] = "method" => row[1] \in {"methodStart", "method"}
           /\ row[1] = "methodStart" => row[3] = "method"
           /\ row[1] = "method" => row[3] \in {"method", "URI"}
           /\ row[3] # "methodStart"
           /\ row[3] \in OnLastHeader =>
                \/ row[1] \in OnLastHeader
                \/ row[1] = "headerLineStart" /\ row[3] = "headerName"
                \/ row[1] = "headerLineStart" /\ count > 0
<1>1. CASE row \in RequestLine
    BY <1>1 DEF RequestLine, HeaderLines, Continuation, Rows, States, Parsing, OnLastHeader
<1>2. CASE row \in HeaderLines
    BY <1>2 DEF RequestLine, HeaderLines, Continuation, Rows, States, Parsing, OnLastHeader
<1>3. CASE row \in Continuation(count)
    BY <1>3 DEF RequestLine, HeaderLines, Continuation, Rows, States, Parsing, OnLastHeader
<1> QED BY <1>1, <1>2, <1>3 DEF Rows

-------------------------------------------------------------------------------
(* The connections whose method no other one can have disturbed.            *)
Alone(c) == c \in split => \A d \in Connections \ {c} : spelled[d] = 0

Own(c) == [i \in 1..spelled[c] |-> c]

(* One connection is parsed at a time; one that stands in its method without *)
(* being parsed has been interrupted there; one that starts has written      *)
(* nothing.                                                                  *)
TurnInv ==
    /\ \A c, d \in reading : c = d
    /\ \A c \in Connections :
        /\ state[c] = "methodStart" => spelled[c] = 0 /\ c \notin split
        /\ state[c] = "method" => spelled[c] > 0
        /\ state[c] = "method" /\ c \notin reading => c \in split

(* What is undisturbed is in the buffer, and then in the method. *)
BufferInv ==
    \A c \in Connections : Alone(c) =>
        /\ state[c] = "method" => buffer = Own(c)
        /\ state[c] \notin {"methodStart", "method", "bad"} => method[c] = Own(c)

(* The inductive invariant. *)
IInv == TypeOK /\ HeaderThere /\ TurnInv /\ BufferInv

LEMMA InitInv == Init => IInv
<1> SUFFICES ASSUME Init PROVE IInv
    OBVIOUS
<1>1. TypeOK
    BY DEF Init, TypeOK, States, Parsing
<1>2. HeaderThere
    BY DEF Init, HeaderThere, OnLastHeader
<1>3. TurnInv /\ BufferInv
    BY DEF Init, TurnInv, BufferInv
<1> QED BY <1>1, <1>2, <1>3 DEF IInv

(* A step that keeps a history growing leaves nobody alone who was not.     *)
LEMMA AloneBefore ==
    ASSUME NEW c \in Connections,
           spelled \in [Connections -> Nat], spelled' \in [Connections -> Nat],
           split \subseteq split', \A d \in Connections : spelled[d] =< spelled'[d],
           Alone(c)'
    PROVE  Alone(c)
<1> SUFFICES ASSUME c \in split, NEW d \in Connections \ {c} PROVE spelled[d] = 0
    BY DEF Alone
<1>1. spelled'[d] = 0
    BY DEF Alone
<1> QED BY <1>1

LEMMA StartsInv ==
    ASSUME IInv, NEW c \in Connections, ChunkStarts(c) PROVE IInv'
<1>1. TypeOK'
    BY DEF IInv, TypeOK, ChunkStarts
<1>2. HeaderThere'
    BY DEF IInv, HeaderThere, ChunkStarts
<1>3. TurnInv'
    BY DEF IInv, TurnInv, ChunkStarts
<1>4. BufferInv'
    BY DEF IInv, BufferInv, Alone, Own, ChunkStarts
<1> QED BY <1>1, <1>2, <1>3, <1>4 DEF IInv

LEMMA EndsInv ==
    ASSUME IInv, NEW c \in Connections, ChunkEnds(c) PROVE IInv'
<1>1. TypeOK'
    BY DEF IInv, TypeOK, ChunkEnds
<1>2. HeaderThere'
    BY DEF IInv, HeaderThere, ChunkEnds
<1>3. TurnInv'
    BY DEF IInv, TurnInv, ChunkEnds
<1>4. BufferInv'
    <2>1. ASSUME NEW d \in Connections, Alone(d)' PROVE Alone(d)
        BY <2>1 DEF Alone, ChunkEnds
    <2> QED BY <2>1 DEF IInv, BufferInv, Own, ChunkEnds
<1> QED BY <1>1, <1>2, <1>3, <1>4 DEF IInv

LEMMA RejectInv ==
    ASSUME IInv, NEW c \in Connections, NEW char \in Chars, Reject(c, char) PROVE IInv'
<1> USE DEF Reject
<1>1. TypeOK'
    BY DEF IInv, TypeOK, States
<1>2. HeaderThere'
    BY DEF IInv, TypeOK, HeaderThere, OnLastHeader
<1>3. TurnInv'
    BY DEF IInv, TypeOK, TurnInv
<1>4. BufferInv'
    BY DEF IInv, TypeOK, BufferInv, Alone, Own
<1> QED BY <1>1, <1>2, <1>3, <1>4 DEF IInv

LEMMA AcceptInv ==
    ASSUME IInv, NEW c \in Connections, NEW char \in Chars, Accept(c, char) PROVE IInv'
<1>1. PICK row \in Rows(headers[c]) :
        LET from == row[1] to == row[3] IN
        /\ reading = {c} /\ state[c] = from /\ char \in row[2]
        /\ to = "method" => spelled[c] < MaxMethod
        /\ from = "headerLineStart" /\ to = "headerName" => headers[c] < MaxHeaders
        /\ state' = [state EXCEPT ![c] = to]
        /\ Collect(c, from, to)
        /\ method' = IF from = "method" /\ to = "URI" THEN [method EXCEPT ![c] = buffer]
                     ELSE method
        /\ headers' = IF from = "headerLineStart" /\ to = "headerName"
                      THEN [headers EXCEPT ![c] = @ + 1] ELSE headers
        /\ reading' = IF to = "completed" THEN {} ELSE reading
        /\ UNCHANGED split
    BY DEF Accept
<1> DEFINE from == row[1] to == row[3]
<1>2. headers[c] \in Nat /\ TypeOK /\ HeaderThere /\ TurnInv /\ BufferInv
    BY DEF IInv, TypeOK
<1>3. /\ from \in Parsing /\ to \in States \ {"bad"}
      /\ to = "method" => from \in {"methodStart", "method"}
      /\ from = "methodStart" => to = "method"
      /\ from = "method" => to \in {"method", "URI"}
      /\ to # "methodStart"
      /\ to \in OnLastHeader =>
            \/ from \in OnLastHeader
            \/ from = "headerLineStart" /\ to = "headerName"
            \/ from = "headerLineStart" /\ headers[c] > 0
    BY <1>2, RowFacts
<1>4. /\ reading = {c} /\ state[c] = from
      /\ state' = [state EXCEPT ![c] = to]
      /\ Collect(c, from, to)
      /\ method' = IF from = "method" /\ to = "URI" THEN [method EXCEPT ![c] = buffer]
                   ELSE method
      /\ headers' = IF from = "headerLineStart" /\ to = "headerName"
                    THEN [headers EXCEPT ![c] = @ + 1] ELSE headers
      /\ reading' = IF to = "completed" THEN {} ELSE reading
      /\ split' = split
    BY <1>1
<1> HIDE DEF from, to
<1>5. TypeOK'
    <2>1. buffer' \in Seq(Connections) /\ spelled' \in [Connections -> Nat]
        <3>1. buffer \in Seq(Connections) /\ spelled \in [Connections -> Nat]
            BY <1>2 DEF TypeOK
        <3>2. <<c>> \in Seq(Connections) /\ Append(buffer, c) \in Seq(Connections)
            BY <3>1
        <3>3. buffer' \in {buffer, <<c>>, Append(buffer, c)}
            BY <1>4 DEF Collect
        <3>4. spelled' \in {spelled, [spelled EXCEPT ![c] = @ + 1]}
            BY <1>4 DEF Collect
        <3>5. spelled' \in [Connections -> Nat]
            BY <3>1, <3>4
        <3> QED BY <3>2, <3>1, <3>3, <3>5
    <2>2. state' \in [Connections -> States] /\ reading' \subseteq Connections
        BY <1>2, <1>3, <1>4 DEF TypeOK
    <2>3. \A d \in reading' : state'[d] \in Parsing
        <3>1. reading' \subseteq {c} /\ (reading' # {} => to # "completed")
            BY <1>4
        <3>2. state'[c] = to
            BY <1>2, <1>4 DEF TypeOK
        <3> QED BY <1>3, <3>1, <3>2 DEF States
    <2>4. headers' \in [Connections -> Nat] /\ method' \in [Connections -> Seq(Connections)]
        BY <1>2, <1>4 DEF TypeOK
    <2>5. split' \subseteq Connections
        BY <1>2, <1>4 DEF TypeOK
    <2> QED BY <2>1, <2>2, <2>3, <2>4, <2>5 DEF TypeOK
<1>6. HeaderThere'
    <2>1. headers' \in [Connections -> Nat]
        BY <1>5 DEF TypeOK
    <2>2. CASE from = "headerLineStart" /\ to = "headerName"
        BY <1>2, <1>4, <2>2 DEF TypeOK, HeaderThere
    <2>3. CASE ~(from = "headerLineStart" /\ to = "headerName")
        BY <1>2, <1>3, <1>4, <2>3 DEF TypeOK, HeaderThere
    <2> QED BY <2>2, <2>3
<1>7. TurnInv'
    BY <1>2, <1>3, <1>4 DEF TypeOK, TurnInv, Collect
<1>8. BufferInv'
    <2>1. ASSUME NEW d \in Connections PROVE spelled[d] =< spelled'[d]
        <3>1. spelled[d] \in Nat
            BY <1>2 DEF TypeOK
        <3>2. spelled'[d] \in {spelled[d], spelled[d] + 1}
            BY <1>2, <1>4 DEF TypeOK, Collect
        <3> QED BY <3>1, <3>2
    <2>2. spelled' \in [Connections -> Nat] /\ spelled \in [Connections -> Nat]
        BY <1>2, <1>5 DEF TypeOK
    <2>3. SUFFICES ASSUME NEW d \in Connections, Alone(d)'
                   PROVE  /\ state'[d] = "method" => buffer' = Own(d)'
                          /\ state'[d] \notin {"methodStart", "method", "bad"} =>
                                method'[d] = Own(d)'
        BY DEF BufferInv
    <2>4. Alone(d)
        BY <1>4, <2>1, <2>2, <2>3, AloneBefore
    <2>5. CASE d # c
        <3>1. state'[d] = state[d] /\ method'[d] = method[d] /\ spelled'[d] = spelled[d]
            BY <1>2, <1>4, <2>5 DEF TypeOK, Collect
        <3>2. CASE state[d] = "method"
            <4>1. d \in split'
                BY <1>2, <1>4, <2>5, <3>2 DEF TurnInv
            <4>2. spelled'[c] = 0
                BY <2>3, <2>5, <4>1 DEF Alone
            <4>3. to # "method"
                BY <1>2, <1>4, <4>2 DEF TypeOK, Collect
            <4>4. buffer' = buffer /\ spelled' = spelled
                BY <1>4, <4>3 DEF Collect
            <4> QED BY <1>2, <2>4, <3>1, <3>2, <4>4 DEF BufferInv, Own
        <3> QED BY <1>2, <2>4, <3>1, <3>2 DEF BufferInv, Own
    <2>6. CASE d = c /\ to = "method"
        <3>1. CASE from = "methodStart"
            <4>1. spelled'[c] = 1 /\ buffer' = <<c>>
                BY <1>2, <1>4, <2>6, <3>1 DEF TypeOK, TurnInv, Collect
            <4>2. <<c>> = [i \in 1..1 |-> c]
                OBVIOUS
            <4> QED BY <1>2, <1>4, <2>6, <4>1, <4>2 DEF TypeOK, Own
        <3>2. CASE from = "method"
            <4>1. buffer = Own(c)
                BY <1>2, <1>4, <2>4, <2>6, <3>2 DEF BufferInv
            <4>2. spelled'[c] = spelled[c] + 1 /\ buffer' = Append(buffer, c)
                BY <1>2, <1>4, <2>6, <3>2 DEF TypeOK, Collect
            <4>3. ASSUME NEW n \in Nat
                  PROVE  Append([i \in 1..n |-> c], c) = [i \in 1..(n + 1) |-> c]
                OBVIOUS
            <4>4. buffer' = Own(c)'
                BY <2>2, <4>1, <4>2, <4>3 DEF Own
            <4> QED BY <1>2, <1>4, <2>6, <4>4 DEF TypeOK
        <3> QED BY <1>3, <2>6, <3>1, <3>2
    <2>7. CASE d = c /\ to # "method"
        <3>1. buffer' = buffer /\ spelled' = spelled /\ state'[c] = to
            BY <1>2, <1>4, <2>7 DEF TypeOK, Collect
        <3>2. CASE from = "method"
            BY <1>2, <1>3, <1>4, <2>4, <2>7, <3>1, <3>2 DEF TypeOK, BufferInv, Own
        <3>3. CASE from # "method"
            <4>1. from \notin {"methodStart", "method", "bad"} /\ method' = method
                BY <1>3, <1>4, <2>7, <3>3 DEF Parsing
            <4> QED BY <1>2, <1>4, <2>4, <2>7, <3>1, <4>1 DEF BufferInv, Own
        <3> QED BY <3>2, <3>3
    <2> QED BY <2>5, <2>6, <2>7
<1> QED BY <1>5, <1>6, <1>7, <1>8 DEF IInv

LEMMA NextInv == IInv /\ [Next]_vars => IInv'
<1> SUFFICES ASSUME IInv, [Next]_vars PROVE IInv'
    OBVIOUS
<1>1. CASE Next
    BY <1>1, StartsInv, EndsInv, AcceptInv, RejectInv DEF Next
<1>2. CASE UNCHANGED vars
    BY <1>2 DEF vars, IInv, TypeOK, HeaderThere, TurnInv, BufferInv, Alone, Own
<1> QED BY <1>1, <1>2

LEMMA Invariant == Spec => []IInv
<1> QED BY InitInv, NextInv, PTL DEF Spec

(* Every variable keeps its type, and only a connection in the middle of its *)
(* request is parsed.                                                        *)
THEOREM TypeCorrect == Spec => []TypeOK
<1>1. IInv => TypeOK
    BY DEF IInv
<1> QED BY <1>1, Invariant, PTL

(* completeRequest never calls back() on an empty vector of headers. *)
THEOREM LastHeaderThere == Spec => []HeaderThere
<1>1. IInv => HeaderThere
    BY DEF IInv
<1> QED BY <1>1, Invariant, PTL

(* However many connections share the static buffer, a method that came in   *)
(* one chunk, or while nobody else wrote one, is the one its client wrote.   *)
THEOREM MethodsIntact == Spec => []MethodIntact
<1>1. IInv => MethodIntact
    BY DEF IInv, BufferInv, MethodIntact, Alone, Own
<1> QED BY <1>1, Invariant, PTL
===============================================================================
