---------------------------- MODULE RequestParser ----------------------------
(***************************************************************************)
(* http::Request's parser (include/http/HTTPServer.hpp, completeRequest and *)
(* parseSomeData), used by all the connections of a server.                 *)
(*                                                                         *)
(* Each connection has its own state, but the characters of the method are *)
(* collected in one static buffer.  Connection::read parses what one       *)
(* async_read_some brought, a chunk, without interruption; another          *)
(* connection may have its turn before the next chunk.                      *)
(*                                                                         *)
(* Characters are the classes that the parser tells apart, and the buffer   *)
(* keeps of each only whose it is.  Names, values, uri and version numbers  *)
(* are not kept.                                                            *)
(***************************************************************************)
EXTENDS Naturals, Sequences

CONSTANTS
    Connections,
    MaxMethod,   \* bound: characters of a method
    MaxHeaders   \* bound: headers of a request

ASSUME ParserAssumption == MaxMethod \in Nat \ {0} /\ MaxHeaders \in Nat

VARIABLES
    state,      \* Request::state of each connection, "bad" after an exception
    headers,    \* number of headers
    buffer,     \* the static buffer: the owner of each character
    method,     \* what setMethod was given
    reading,    \* the connection whose chunk is being parsed, at most one
    spelled,    \* history: characters of the method each connection received
    split       \* history: connections whose method came in several chunks

vars == <<state, headers, buffer, method, reading, spelled, split>>

-------------------------------------------------------------------------------
(* The classes of characters; "other" are letters and the like. *)

Ctrl == {"tab", "cr", "lf", "ctrl"}
Special == {"space", "tab", "slash", "colon", "special"}
Token == {"H", "T", "P", "dot", "digit", "other"}
Chars == Ctrl \cup Special \cup Token \cup {"not ascii"}

(* What completeRequest accepts: from a state, a character, to a state.     *)
(* The methods and the names of headers are tokens; neither a uri nor a     *)
(* value is limited to ascii.                                               *)
RequestLine ==
    { <<"methodStart",       Token,                      "method">>,
      <<"method",            Token,                      "method">>,
      <<"method",            {"space"},                  "URI">>,
      <<"URI",               Chars \ (Ctrl \cup {"space"}), "URI">>,
      <<"URI",               {"space"},                  "versionH">>,
      <<"versionH",          {"H"},                      "versionT1">>,
      <<"versionT1",         {"T"},                      "versionT2">>,
      <<"versionT2",         {"T"},                      "versionP">>,
      <<"versionP",          {"P"},                      "versionSlash">>,
      <<"versionSlash",      {"slash"},                  "versionMajorStart">>,
      <<"versionMajorStart", {"digit"},                  "versionMajor">>,
      <<"versionMajor",      {"digit"},                  "versionMajor">>,
      <<"versionMajor",      {"dot"},                    "versionMinorStart">>,
      <<"versionMinorStart", {"digit"},                  "versionMinor">>,
      <<"versionMinor",      {"digit"},                  "versionMinor">>,
      <<"versionMinor",      {"cr"},                     "newline1">>,
      <<"newline1",          {"lf"},                     "headerLineStart">> }

HeaderLines ==
    { <<"headerLineStart",        {"cr"},             "newline3">>,
      <<"headerLineStart",        Token,              "headerName">>,
      <<"headerLws",              {"cr"},             "newline2">>,
      <<"headerLws",              {"space", "tab"},   "headerLws">>,
      <<"headerLws",              Chars \ (Ctrl \cup {"space"}), "headerValue">>,
      <<"headerName",             Token,              "headerName">>,
      <<"headerName",             {"colon"},          "spaceBeforeHeaderValue">>,
      <<"spaceBeforeHeaderValue", {"space"},          "headerValue">>,
      <<"headerValue",            Chars \ Ctrl,       "headerValue">>,
      <<"headerValue",            {"cr"},             "newline2">>,
      <<"newline2",               {"lf"},             "headerLineStart">>,
      <<"newline3",               {"lf"},             "completed">> }

(* Mutant of Continuation: the value of a header that is not there goes on. *)
ContinuationOfNothing(count) == { <<"headerLineStart", {"space", "tab"}, "headerLws">> }

(* A line that starts with a blank continues the value of the last header.  *)
Continuation(count) ==
    {row \in {<<"headerLineStart", {"space", "tab"}, "headerLws">>} : count > 0}

Rows(count) == RequestLine \cup HeaderLines \cup Continuation(count)

Parsing ==
    {"methodStart", "method", "URI", "versionH", "versionT1", "versionT2", "versionP",
     "versionSlash", "versionMajorStart", "versionMajor", "versionMinorStart",
     "versionMinor", "newline1", "headerLineStart", "headerLws", "headerName",
     "spaceBeforeHeaderValue", "headerValue", "newline2", "newline3"}
States == Parsing \cup {"completed", "bad"}

(* The states in which headers.back() is about to be used. *)
OnLastHeader == {"headerLws", "headerName", "spaceBeforeHeaderValue", "headerValue"}

-------------------------------------------------------------------------------
Init ==
    /\ state = [c \in Connections |-> "methodStart"]
    /\ headers = [c \in Connections |-> 0]
    /\ buffer = <<>>
    /\ method = [c \in Connections |-> <<>>]
    /\ reading = {} /\ split = {}
    /\ spelled = [c \in Connections |-> 0]

(* The handler of Connection::read starts to parse a chunk of c ... *)
ChunkStarts(c) ==
    /\ reading = {} /\ state[c] \in Parsing
    /\ reading' = {c}
    /\ UNCHANGED <<state, headers, buffer, method, spelled, split>>

(* ... and ends with it in the middle of the request: read() again. *)
ChunkEnds(c) ==
    /\ reading = {c} /\ state[c] # "methodStart"
    /\ reading' = {}
    /\ split' = IF state[c] = "method" THEN split \cup {c} ELSE split
    /\ UNCHANGED <<state, headers, buffer, method, spelled>>

(* Mutant of Collect: the first character does not clear the buffer. *)
CollectAppends(c, from, to) ==
    IF to = "method"
    THEN /\ buffer' = Append(buffer, c)
         /\ spelled' = [spelled EXCEPT ![c] = @ + 1]
    ELSE UNCHANGED <<buffer, spelled>>

(* The method's characters go to the buffer, which the first one clears. *)
Collect(c, from, to) ==
    IF to = "method"
    THEN /\ buffer' = IF from = "methodStart" THEN <<c>> ELSE Append(buffer, c)
         /\ spelled' = [spelled EXCEPT ![c] = @ + 1]
    ELSE UNCHANGED <<buffer, spelled>>

(* One character that is accepted: completeRequest. *)
Accept(c, char) ==
    \E row \in Rows(headers[c]) :
        LET from == row[1] to == row[3] IN
        /\ reading = {c} /\ state[c] = from /\ char \in row[2]
        /\ to = "method" => spelled[c] < MaxMethod
        /\ from = "headerLineStart" /\ to = "headerName" => headers[c] < MaxHeaders
        /\ state' = [state EXCEPT ![c] = to]
        /\ Collect(c, from, to)
        /\ method' = IF from = "method" /\ to = "URI" THEN [method EXCEPT ![c] = buffer]
                     ELSE method
        /\ headers' = IF from = "headerLineStart" /\ to = "headerName"
                      THEN [headers EXCEPT ![c] = @ + 1] ELSE headers
        /\ reading' = IF to = "completed" THEN {} ELSE reading
        /\ UNCHANGED split

(* Mutant of Reject: the parser goes on after the exception. *)
RejectGoesOn(c, char) ==
    /\ reading = {c}
    /\ \A row \in Rows(headers[c]) : row[1] = state[c] => char \notin row[2]
    /\ state' = [state EXCEPT ![c] = "bad"]
    /\ UNCHANGED <<reading, headers, buffer, method, spelled, split>>

(* No row for it: BadRequestException, after which c is not read again. *)
Reject(c, char) ==
    /\ reading = {c}
    /\ \A row \in Rows(headers[c]) : row[1] = state[c] => char \notin row[2]
    /\ state' = [state EXCEPT ![c] = "bad"]
    /\ reading' = {}
    /\ UNCHANGED <<headers, buffer, method, spelled, split>>

Next ==
    \E c \in Connections :
        \/ ChunkStarts(c) \/ ChunkEnds(c)
        \/ \E char \in Chars : Accept(c, char) \/ Reject(c, char)

Spec == Init /\ [][Next]_vars

-------------------------------------------------------------------------------
TypeOK ==
    /\ state \in [Connections -> States] /\ headers \in [Connections -> Nat]
    /\ buffer \in Seq(Connections) /\ method \in [Connections -> Seq(Connections)]
    /\ reading \subseteq Connections /\ \A c \in reading : state[c] \in Parsing
    /\ split \subseteq Connections
    /\ spelled \in [Connections -> Nat]

(* headers.back() is only used when there is a header. *)
HeaderThere == \A c \in Connections : state[c] \in OnLastHeader => headers[c] > 0

(* A request is given the method its client wrote, although the connections *)
(* share a buffer, unless the method came in several chunks and another     *)
(* client wrote a method as well.                                           *)
MethodIntact ==
    \A c \in Connections :
        /\ state[c] \notin {"methodStart", "method", "bad"}
        /\ c \in split => \A d \in Connections \ {c} : spelled[d] = 0
        => method[c] = [i \in 1..spelled[c] |-> c]
===============================================================================
