---------------------------- MODULE WebSocketReads ----------------------------
(***************************************************************************)
(* The reads of a WebSocket (include/http/WebSocket.hpp).                   *)
(*                                                                         *)
(* start() is called by the constructor and again by WebLink               *)
(* (include/weblink/WebLink.hpp:93): from then on two async_read_some are  *)
(* outstanding on one socket, both with readBuffer as their buffer.  The   *)
(* kernel completes them in the order they were started, each as soon as   *)
(* bytes are there, whether or not the handlers of earlier ones have run.  *)
(* Bytes are numbered 1, 2, ... in the order of the stream.  Errors and    *)
(* stop() are in WebLinks.                                                 *)
(***************************************************************************)
EXTENDS Integers, Sequences

CONSTANTS
    BufferSize,  \* receptionBufferSize, 8192
    MaxBytes     \* bound: bytes that reach the socket

ASSUME ReadsAssumption == BufferSize \in Nat \ {0} /\ MaxBytes \in Nat

VARIABLES
    paced,       \* the bytes of this page come one buffer at a time
    arrived,     \* bytes that reached the socket
    taken,       \* bytes copied into readBuffer
    readBuffer,  \* WebSocket::readBuffer, 0 where nothing was written
    pending,     \* reads that wait for bytes
    completed,   \* bytesTransferred of the reads whose handler is queued
    parsed       \* bytes given to FrameDecoder::parse

vars == <<paced, arrived, taken, readBuffer, pending, completed, parsed>>

Unread == arrived - taken

(* The constructor and WebLink have both called start(). *)
Init ==
    /\ paced \in BOOLEAN
    /\ arrived = 0 /\ taken = 0
    /\ readBuffer = [i \in 1..BufferSize |-> 0]
    /\ pending = 2 /\ completed = <<>>
    /\ parsed = <<>>

(* The next n bytes come.  A paced page waits with them until all that came *)
(* before has been parsed, and they come together, no more than a buffer.   *)
BytesArrive(n) ==
    /\ arrived + n <= MaxBytes
    /\ paced => n <= BufferSize /\ Len(parsed) = arrived
    /\ arrived' = arrived + n
    /\ UNCHANGED <<paced, taken, readBuffer, pending, completed, parsed>>

(* One read takes what is there, one buffer of it at most. *)
Received(bytes) == IF bytes < BufferSize THEN bytes ELSE BufferSize

(* n bytes of the stream, those after byte `from`, written to the buffer. *)
Filled(buffer, from, n) ==
    [i \in 1..BufferSize |-> IF i <= n THEN from + i ELSE buffer[i]]

(* The oldest pending read completes; its handler joins the queue. *)
ReadCompletes ==
    LET n == Received(Unread) IN
    /\ pending > 0 /\ Unread > 0
    /\ readBuffer' = Filled(readBuffer, taken, n)
    /\ taken' = taken + n
    /\ pending' = pending - 1
    /\ completed' = Append(completed, n)
    /\ UNCHANGED <<paced, arrived, parsed>>

(* Mutant of ParsedBy: parse is given the whole buffer. *)
ParsedWhole(n) == readBuffer

(* parse is given the first bytesTransferred bytes of the buffer. *)
ParsedBy(n) == [i \in 1..n |-> readBuffer[i]]

Parses(n) == parsed' = parsed \o ParsedBy(n)

(* Mutant of Handler: the handler does not call read() again. *)
HandlerForgetsRead ==
    /\ completed # <<>>
    /\ Parses(Head(completed))
    /\ completed' = Tail(completed)
    /\ UNCHANGED <<paced, arrived, taken, readBuffer, pending>>

(* The handler: parse, then read() again. *)
Handler ==
    /\ completed # <<>>
    /\ Parses(Head(completed))
    /\ completed' = Tail(completed)
    /\ pending' = pending + 1
    /\ UNCHANGED <<paced, arrived, taken, readBuffer>>

Next == ReadCompletes \/ Handler \/ \E n \in 1..MaxBytes : BytesArrive(n)

Spec == Init /\ [][Next]_vars

(* The kernel completes a read for which there are bytes, and the           *)
(* io_context's thread runs the handlers.                                   *)
FairSpec == Spec /\ WF_vars(ReadCompletes) /\ WF_vars(Handler)

-------------------------------------------------------------------------------
TypeOK ==
    /\ paced \in BOOLEAN
    /\ arrived \in Nat /\ taken \in Nat /\ taken <= arrived
    /\ readBuffer \in [1..BufferSize -> Nat]
    /\ pending \in 0..2
    /\ completed \in Seq(1..BufferSize)
    /\ parsed \in Seq(Nat)

(* When the bytes come one buffer at a time, each after the one before was  *)
(* parsed, the decoder is given the stream in order although two reads      *)
(* share the buffer.  Nothing weaker is enough: two bytes that come apart   *)
(* complete both reads before the first handler, and the second overwrites  *)
(* the first in readBuffer.                                                 *)
ParsedInOrder ==
    paced => \A i \in DOMAIN parsed : parsed[i] = i

(* However the bytes come, what parse is given in place of a byte is that   *)
(* byte or a later one: overwriting readBuffer loses bytes and shows later  *)
(* ones in their place, but never one of the past, nor memory that no read  *)
(* has written.                                                             *)
NeverStale ==
    \A i \in DOMAIN parsed : i <= parsed[i] /\ parsed[i] <= taken

(* The bytes of the reads whose handlers are queued, two at most. *)
BytesOf(i) == IF i <= Len(completed) THEN completed[i] ELSE 0
Queued == BytesOf(1) + BytesOf(2)

(* However the bytes come, the two chains of reads go on, one operation     *)
(* each, and parse is given as many bytes as were received.                 *)
ReadsBalanced ==
    /\ pending + Len(completed) = 2
    /\ Len(parsed) + Queued = taken

(* Every byte that came is followed by a call of parse that reaches it. *)
EveryByteParsed == \A i \in 1..MaxBytes : arrived >= i ~> Len(parsed) >= i
===============================================================================
