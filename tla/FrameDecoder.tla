----------------------------- MODULE FrameDecoder -----------------------------
(***************************************************************************)
(* websocket::FrameDecoder fed by WebSocket::read (include/http/           *)
(* WebSocket.hpp).  The browser writes masked frames back to back into a   *)
(* TCP stream; each read hands the decoder the next chunk of that stream,  *)
(* cut wherever TCP likes.                                                 *)
(*                                                                         *)
(* Bytes are positions of the stream: the payload buffer of the decoder    *)
(* always holds an interval of it, so the interval (first byte, length)    *)
(* is all there is to know about its content.  A header that starts where  *)
(* no frame starts is made of payload bytes: it may announce anything.      *)
(***************************************************************************)
EXTENDS Integers, Sequences

CONSTANTS
    PayloadSizes,         \* the payload sizes the browser uses
    StrayHeaders,         \* what payload bytes may announce, read as a header
    Reservable,           \* payloadBuffer.reserve throws for larger sizes
    MaxFrames,            \* bound: frames the browser sends, per segmentation
    ReceptionBufferSize,  \* WebSocket::receptionBufferSize, 8192
    SmallLimit,           \* 126: sizes below are in the 7-bit length field
    MediumLimit           \* 65536: sizes below are in 16 bits, others in 64

(* How TCP cuts the stream: anywhere, or only where the decoder copes (see  *)
(* Gentle).                                                                 *)
Segmentations == {"any", "gentle"}

(* What the first bytes of a frame say: the payload size, the length field  *)
(* that holds it (7, 7 + 16 or 7 + 64 bits), and whether a key follows.      *)
Headers == [size : Nat, class : {"small", "medium", "large"}, masked : BOOLEAN]

ASSUME ConstantsAssumption ==
    /\ PayloadSizes \subseteq Nat
    /\ StrayHeaders \subseteq Headers
    /\ Reservable \in Nat /\ \A size \in PayloadSizes : size <= Reservable
    /\ MaxFrames \in [Segmentations -> Nat]
    /\ ReceptionBufferSize \in Nat /\ ReceptionBufferSize >= 14
    /\ SmallLimit \in Nat /\ MediumLimit \in Nat
    /\ 6 <= SmallLimit /\ SmallLimit <= MediumLimit

VARIABLES
    segmentation,        \* how the stream is cut: chosen once
    sent,                \* frames written by the browser: payload size, first byte
    pos,                 \* bytes of the stream the decoder was given
    state,               \* FrameDecoder::state
    header,              \* the header being decoded, or the last one decoded
    headerBufferParser,  \* bytes kept in headerBuffer
    payloadFrom,         \* position of the first byte of payloadBuffer
    payloadLen,          \* payloadBuffer.size()
    reading,             \* a read is armed; FALSE once a handler has thrown
    delivered            \* payloads given to the handlers, in order

decoder == <<state, header, headerBufferParser, payloadFrom, payloadLen>>
vars == <<segmentation, sent, pos, decoder, reading, delivered>>

-------------------------------------------------------------------------------
IsMedium(size) == SmallLimit <= size /\ size < MediumLimit

(* The header of a browser's frame: the shortest length field that holds    *)
(* the size, and always a key.                                              *)
BrowserHeader(size) ==
    [size   |-> size,
     class  |-> IF size < SmallLimit THEN "small"
                ELSE IF IsMedium(size) THEN "medium" ELSE "large",
     masked |-> TRUE]

(* Header::headerSize. *)
HeaderSize(h) ==
    (CASE h.class = "small" -> 2 [] h.class = "medium" -> 4 [] OTHER -> 10)
        + (IF h.masked THEN 4 ELSE 0)

(* Mutants of IsComplete: the masking key is not waited for; one byte too   *)
(* many is.                                                                 *)
IsCompleteWithoutKey(h, bytes) == bytes >= 2
IsCompleteLate(h, bytes) == bytes > (IF h.class = "small" THEN 6 ELSE 14)

(* Header::isComplete wants all of the 14 bytes as soon as the length is    *)
(* extended, although the header of a medium frame has 8; and it counts the *)
(* key, although an unmasked header has none.                               *)
IsComplete(h, bytes) == bytes >= (IF h.class = "small" THEN 6 ELSE 14)

PayloadStart(frame) == frame.start + HeaderSize(BrowserHeader(frame.size))
End(frame) == PayloadStart(frame) + frame.size

StreamEnd == IF sent = <<>> THEN 0 ELSE End(sent[Len(sent)])

(* What a header read at position p announces. *)
HeadersAt(p) ==
    IF \E i \in DOMAIN sent : sent[i].start = p
    THEN {BrowserHeader(sent[i].size) : i \in {j \in DOMAIN sent : sent[j].start = p}}
    ELSE StrayHeaders

LesserOf(a, b) == IF a <= b THEN a ELSE b

-------------------------------------------------------------------------------
Init ==
    /\ segmentation \in Segmentations
    /\ sent = <<>> /\ pos = 0 /\ delivered = <<>>
    /\ state = "starting" /\ header = BrowserHeader(0) /\ headerBufferParser = 0
    /\ payloadFrom = 0 /\ payloadLen = 0 /\ reading = TRUE

(* The browser: one WebSocket.send. *)
Send(size) ==
    /\ Len(sent) < MaxFrames[segmentation]
    /\ sent' = Append(sent, [size |-> size, start |-> StreamEnd])
    /\ UNCHANGED <<segmentation, pos, decoder, reading, delivered>>

(* Mutant of Deliver: the decoder is not reset after a payload. *)
DeliverWithoutReset(from, size, got) ==
    /\ delivered' = Append(delivered, [from |-> from, size |-> size, got |-> got])
    /\ payloadFrom' = from
    /\ UNCHANGED <<state, headerBufferParser, payloadLen>>

(* parse returned true: the handler is given a span of `size` bytes.  The   *)
(* first `got` of them are the bytes of the stream from `from` on; what is  *)
(* behind them, when got < size, is whatever the reserved memory of         *)
(* payloadBuffer holds.  Then the decoder is reset.                         *)
Deliver(from, size, got) ==
    /\ delivered' = Append(delivered, [from |-> from, size |-> size, got |-> got])
    /\ state' = "starting" /\ headerBufferParser' = 0 /\ payloadLen' = 0
    /\ payloadFrom' = from

(* decodePayload on the bytes behind the header: `available` of them are in *)
(* this chunk, from position `from` on.  Any byte past the frame is dropped. *)
DecodeFirstPayload(from, size, available) ==
    LET pushed == LesserOf(available, size) IN
    IF pushed = size
    THEN Deliver(from, size, size)
    ELSE /\ state' = "decodingPayload" /\ payloadFrom' = from /\ payloadLen' = pushed
         /\ UNCHANGED <<headerBufferParser, delivered>>

(* state starting, the chunk holds the header. *)
ParseWholeHeader(n) ==
    /\ state = "starting"
    /\ \E h \in HeadersAt(pos) :
        /\ IsComplete(h, n) /\ h.size <= Reservable
        /\ header' = h
        /\ DecodeFirstPayload(pos + HeaderSize(h), h.size, n - HeaderSize(h))
    /\ UNCHANGED reading

(* state starting, the chunk ends inside the header: keep it. *)
ParseHeaderStart(n) ==
    /\ state = "starting"
    /\ \E h \in HeadersAt(pos) : ~IsComplete(h, n) /\ header' = h
    /\ headerBufferParser' = n
    /\ state' = "partialHeader"
    /\ UNCHANGED <<payloadFrom, payloadLen, reading, delivered>>

(* bufferizeHeaderData: bytes go to headerBuffer until isComplete holds.    *)
HeaderEndsWith(consumed) ==
    /\ IsComplete(header, headerBufferParser + consumed)
    /\ ~IsComplete(header, headerBufferParser + consumed - 1)

(* state partialHeader, and the header is still not complete. *)
ParseHeaderRest(n) ==
    /\ state = "partialHeader"
    /\ ~IsComplete(header, headerBufferParser + n)
    /\ headerBufferParser' = headerBufferParser + n
    /\ UNCHANGED <<state, header, payloadFrom, payloadLen, reading, delivered>>

ParseHeaderEnd(n) ==
    /\ state = "partialHeader" /\ header.size <= Reservable
    /\ \E consumed \in 1..n :
        /\ HeaderEndsWith(consumed)
        /\ LET from == pos + consumed
               pushed == LesserOf(n - consumed, header.size)
           IN  IF pushed = header.size
               THEN Deliver(from, header.size, header.size)
               ELSE /\ state' = "decodingPayload"
                    /\ headerBufferParser' = headerBufferParser + consumed
                    /\ payloadFrom' = from /\ payloadLen' = pushed
                    /\ UNCHANGED delivered
    /\ UNCHANGED <<header, reading>>

(* decodeHeader of an absurd size: payloadBuffer.reserve throws, out of the *)
(* read handler and of run(), before the next read is armed.                *)
ReserveThrows(n) ==
    /\ \/ /\ state = "starting"
          /\ \E h \in HeadersAt(pos) :
               IsComplete(h, n) /\ h.size > Reservable /\ header' = h
          /\ UNCHANGED headerBufferParser
       \/ /\ state = "partialHeader" /\ header.size > Reservable
          /\ \E consumed \in 1..n :
               /\ HeaderEndsWith(consumed)
               /\ headerBufferParser' = headerBufferParser + consumed
          /\ UNCHANGED header
    /\ reading' = FALSE
    /\ UNCHANGED <<state, payloadFrom, payloadLen, delivered>>

(* Mutant of PayloadEnds: off by one. *)
PayloadEndsEarly(n, missing) == n + 1 >= missing

(* The test that ends a payload: it compares the chunk with what is missing *)
(* AFTER the chunk was appended.                                            *)
PayloadEnds(n, missing) == n >= missing

(* state decodingPayload. *)
ParsePayload(n) ==
    /\ state = "decodingPayload"
    /\ LET len == payloadLen + LesserOf(header.size - payloadLen, n)
       IN  IF PayloadEnds(n, header.size - len)
           THEN Deliver(payloadFrom, header.size, len)
           ELSE /\ payloadLen' = len
                /\ UNCHANGED <<state, headerBufferParser, payloadFrom, delivered>>
    /\ UNCHANGED <<header, reading>>

Parse(n) ==
    \/ ParseWholeHeader(n) \/ ParseHeaderStart(n)
    \/ ParseHeaderRest(n) \/ ParseHeaderEnd(n)
    \/ ReserveThrows(n)
    \/ ParsePayload(n)

(* The chunks for which FrameDecoder works: they never hold the end of a    *)
(* frame and the start of the next; the first chunk of a medium frame has   *)
(* at least 14 bytes; and a later chunk of a payload either completes it or *)
(* is shorter than what is still missing after it.                          *)
Gentle(n) ==
    /\ \E i \in DOMAIN sent : sent[i].start <= pos /\ pos + n <= End(sent[i])
    /\ state = "starting" =>
         n >= 14 \/ \A h \in HeadersAt(pos) : ~IsMedium(h.size)
    /\ state = "decodingPayload" =>
         LET missing == header.size - payloadLen IN n = missing \/ 2 * n < missing

(* WebSocket::read: one completion of async_read_some, then read again. *)
Read(n) ==
    /\ reading
    /\ n <= StreamEnd - pos
    /\ segmentation = "gentle" => Gentle(n)
    /\ Parse(n)
    /\ pos' = pos + n
    /\ UNCHANGED <<segmentation, sent>>

ReadSome == \E n \in 1..ReceptionBufferSize : Read(n)

Next == (\E size \in PayloadSizes : Send(size)) \/ ReadSome

Spec == Init /\ [][Next]_vars

(* The io_context runs the read handler as long as there is data to read    *)
(* and a read is armed.                                                     *)
FairSpec == Spec /\ WF_vars(ReadSome)

-------------------------------------------------------------------------------
Frames == [size : Nat, start : Nat]
Payloads == [from : Nat, size : Nat, got : Nat]

TypeOK ==
    /\ segmentation \in Segmentations
    /\ sent \in Seq(Frames)
    /\ pos \in Nat
    /\ state \in {"starting", "partialHeader", "decodingPayload"}
    /\ header \in Headers /\ headerBufferParser \in Nat /\ reading \in BOOLEAN
    /\ payloadFrom \in Nat /\ payloadLen \in Nat
    /\ delivered \in Seq(Payloads)

(* However TCP cuts the stream, and even when the decoder has lost the      *)
(* frame boundaries: headerBuffer (14 bytes) is never overrun, and neither  *)
(* payloadSize - payloadBuffer.size() nor buffer.size() - headerSize, both  *)
(* unsigned in parse, ever wraps.                                           *)
BuffersInBounds ==
    /\ headerBufferParser <= 14
    /\ state = "partialHeader" /\ reading =>
         headerBufferParser > 0 /\ ~IsComplete(header, headerBufferParser)
    /\ state = "decodingPayload" =>
         payloadLen < header.size /\ payloadFrom + payloadLen <= pos
    /\ state = "starting" => headerBufferParser = 0 /\ payloadLen = 0

(* However TCP cuts the stream, the span that a handler is given starts     *)
(* with bytes that were received, no byte reaches two handlers, and at      *)
(* least half of each span is received bytes: the premature end of a        *)
(* payload (PayloadEnds) may put other memory behind them, but never more   *)
(* than there are of them.                                                  *)
SpansHalfReceived ==
    /\ \A i \in DOMAIN delivered :
         /\ delivered[i].from + delivered[i].got <= pos
         /\ delivered[i].got <= delivered[i].size
         /\ delivered[i].size <= 2 * delivered[i].got
    /\ \A i, j \in DOMAIN delivered :
         i < j => delivered[i].from + delivered[i].got <= delivered[j].from

(* The payload of a frame as the handler should see it. *)
PayloadOf(frame) == [from |-> PayloadStart(frame), size |-> frame.size, got |-> frame.size]

sentPayloads == [i \in DOMAIN sent |-> PayloadOf(sent[i])]

(* FrameChannel watches the behaviours whose chunks are gentle. *)
Watched(payloads) == IF segmentation = "gentle" THEN payloads ELSE <<>>

Channel == INSTANCE FrameChannel WITH
    sent <- Watched(sentPayloads), received <- Watched(delivered)

(* With gentle chunks the handlers are given exactly the payloads that the  *)
(* browser sent, in order: the decoder implements FrameChannel.             *)
ImplementsChannel == Channel!Spec

(* With gentle chunks and a fair io_context every frame is delivered, i.e.  *)
(* no frame stays behind in the decoder waiting for bytes of a later one.   *)
EveryFrameDelivered ==
    \A i \in 1..MaxFrames["gentle"] :
        segmentation = "gentle" /\ Len(sent) >= i ~> Len(delivered) >= i

(* parse: "@return true if the frame is complete, false if it needs more    *)
(* data" (WebSocket.hpp:162).                                               *)
TrueMeansComplete == \A i \in DOMAIN delivered : delivered[i].got = delivered[i].size
===============================================================================
