-------------------------- MODULE FrameDecoderProofs --------------------------
(***************************************************************************)
(* Theorems about FrameDecoder, for every set of payload sizes, every       *)
(* reception buffer of at least 14 bytes and every pair of length limits.   *)
(***************************************************************************)
EXTENDS FrameDecoder, TLAPS

(* Sizes and lengths are natural numbers; a header takes 2 to 14 bytes, and  *)
(* no more than isComplete waits for.                                       *)
LEMMA HeaderFacts ==
    ASSUME NEW h \in Headers, NEW bytes \in Int, IsComplete(h, bytes)
    PROVE  HeaderSize(h) \in Nat /\ HeaderSize(h) >= 2 /\ HeaderSize(h) <= bytes
BY DEF Headers, IsComplete, HeaderSize

LEMMA HeaderSizeType ==
    ASSUME NEW size \in Nat
    PROVE  /\ BrowserHeader(size) \in Headers /\ BrowserHeader(size).size = size
           /\ HeaderSize(BrowserHeader(size)) \in {6, 8, 14}
BY ConstantsAssumption DEF Headers, HeaderSize, BrowserHeader, IsMedium

(* isComplete waits for the very header of a frame that is not medium, and  *)
(* for what is at least the header of any frame.                            *)
LEMMA BrowserIsComplete ==
    ASSUME NEW size \in Nat, NEW bytes \in Int
    PROVE  /\ ~IsMedium(size) =>
                (IsComplete(BrowserHeader(size), bytes) <=> bytes >= HeaderSize(BrowserHeader(size)))
           /\ IsComplete(BrowserHeader(size), bytes) => bytes >= HeaderSize(BrowserHeader(size))
           /\ ~IsComplete(BrowserHeader(size), bytes) => bytes < 14
BY ConstantsAssumption DEF IsComplete, HeaderSize, BrowserHeader, IsMedium

(* What a sequence and its extension by one element are made of. *)
LEMMA SeqFacts ==
    ASSUME NEW S, NEW s \in Seq(S)
    PROVE  DOMAIN s = 1..Len(s) /\ Len(s) \in Nat /\ \A i \in DOMAIN s : s[i] \in S
OBVIOUS

LEMMA AppendFacts ==
    ASSUME NEW S, NEW s \in Seq(S), NEW e \in S
    PROVE  /\ Append(s, e) \in Seq(S)
           /\ Len(Append(s, e)) = Len(s) + 1
           /\ DOMAIN Append(s, e) = 1..(Len(s) + 1)
           /\ \A i \in DOMAIN s : Append(s, e)[i] = s[i]
           /\ Append(s, e)[Len(s) + 1] = e
OBVIOUS

LEMMA SentType ==
    ASSUME TypeOK
    PROVE  \A i \in DOMAIN sent : sent[i] \in Frames /\ sent[i].size \in Nat /\ sent[i].start \in Nat
<1>1. \A i \in DOMAIN sent : sent[i] \in Frames
    BY SeqFacts DEF TypeOK
<1> QED
    BY <1>1 DEF Frames

LEMMA DeliveredType ==
    ASSUME TypeOK
    PROVE  \A i \in DOMAIN delivered :
             delivered[i].from \in Nat /\ delivered[i].size \in Nat /\ delivered[i].got \in Nat
<1>1. \A i \in DOMAIN delivered : delivered[i] \in Payloads
    BY SeqFacts DEF TypeOK
<1> QED
    BY <1>1 DEF Payloads

LEMMA HeadersAtType ==
    ASSUME TypeOK, NEW p \in Nat
    PROVE  HeadersAt(p) \subseteq Headers
BY SentType, HeaderSizeType, ConstantsAssumption DEF HeadersAt

LEMMA StreamEndType ==
    ASSUME TypeOK
    PROVE  StreamEnd \in Nat
<1>1. CASE sent = <<>>
    BY <1>1 DEF StreamEnd
<1>2. CASE sent # <<>>
    <2>1. Len(sent) \in DOMAIN sent
        BY <1>2, SeqFacts DEF TypeOK
    <2> QED
        BY <1>2, <2>1, SentType, HeaderSizeType DEF StreamEnd, End, PayloadStart
<1> QED
    BY <1>1, <1>2

-------------------------------------------------------------------------------
(* The safety invariant for every segmentation is inductive together with   *)
(* the place in the stream before which every delivered byte lies.          *)
Frontier == IF state = "decodingPayload" THEN payloadFrom ELSE pos

SafetyInv ==
    /\ TypeOK
    /\ BuffersInBounds
    /\ \A i \in DOMAIN delivered :
         /\ delivered[i].from + delivered[i].got <= Frontier
         /\ delivered[i].got <= delivered[i].size
         /\ delivered[i].size <= 2 * delivered[i].got
    /\ \A i, j \in DOMAIN delivered :
         i < j => delivered[i].from + delivered[i].got <= delivered[j].from

(* A delivery beyond the frontier keeps the invariant. *)
LEMMA DeliverSafe ==
    ASSUME SafetyInv, NEW from \in Nat, NEW size \in Nat, NEW got \in Nat,
           Deliver(from, size, got), Frontier <= from,
           got <= size, size <= 2 * got,
           header' \in Headers, sent' = sent, segmentation' = segmentation,
           reading' = reading, pos' \in Nat, from + got <= pos'
    PROVE  SafetyInv'
<1> DEFINE d == [from |-> from, size |-> size, got |-> got]
<1>1. /\ delivered' = Append(delivered, d)
      /\ state' = "starting" /\ headerBufferParser' = 0 /\ payloadLen' = 0 /\ payloadFrom' = from
    BY DEF Deliver
<1>2. delivered \in Seq(Payloads) /\ d \in Payloads
    BY DEF SafetyInv, TypeOK, Payloads
<1>3. TypeOK' /\ BuffersInBounds'
    <2>1. delivered' \in Seq(Payloads)
        BY <1>1, AppendFacts DEF SafetyInv, TypeOK, Payloads
    <2> QED
        BY <1>1, <2>1 DEF SafetyInv, TypeOK, BuffersInBounds
<1>4. Frontier' = pos' /\ Frontier \in Nat
    BY <1>1 DEF Frontier, SafetyInv, TypeOK
<1>5. /\ DOMAIN delivered' = 1..(Len(delivered) + 1)
      /\ \A i \in DOMAIN delivered : delivered'[i] = delivered[i]
      /\ \A i \in DOMAIN delivered : delivered[i].from \in Nat /\ delivered[i].got \in Nat
      /\ delivered'[Len(delivered) + 1] = d
      /\ DOMAIN delivered = 1..Len(delivered) /\ Len(delivered) \in Nat
    <2>1. \A i \in DOMAIN delivered : delivered[i].from \in Nat /\ delivered[i].got \in Nat
        BY DeliveredType DEF SafetyInv
    <2> QED
        BY <1>1, <1>2, <2>1, AppendFacts, SeqFacts
<1>6. ASSUME NEW i \in DOMAIN delivered'
      PROVE  /\ delivered'[i].from + delivered'[i].got <= pos'
             /\ delivered'[i].got <= delivered'[i].size
             /\ delivered'[i].size <= 2 * delivered'[i].got
    <2>1. CASE i = Len(delivered) + 1
        BY <2>1, <1>5
    <2>2. CASE i # Len(delivered) + 1
        <3>1. i \in DOMAIN delivered
            BY <2>2, <1>5
        <3>2. /\ delivered[i].from + delivered[i].got <= Frontier
              /\ delivered[i].got <= delivered[i].size
              /\ delivered[i].size <= 2 * delivered[i].got
            BY <3>1 DEF SafetyInv
        <3>3. delivered[i].from \in Nat /\ delivered[i].got \in Nat /\ delivered'[i] = delivered[i]
            BY <3>1, <1>5
        <3>4. Frontier <= pos' /\ pos' \in Nat
            BY <1>4
        <3> QED
            BY <3>2, <3>3, <3>4, <1>4
    <2> QED
        BY <2>1, <2>2
<1>7. ASSUME NEW i \in DOMAIN delivered', NEW j \in DOMAIN delivered', i < j
      PROVE  delivered'[i].from + delivered'[i].got <= delivered'[j].from
    <2>1. i \in DOMAIN delivered
        BY <1>5, <1>7
    <2>2. CASE j = Len(delivered) + 1
        <3>1. delivered[i].from + delivered[i].got <= Frontier
            BY <2>1 DEF SafetyInv
        <3> QED
            BY <3>1, <2>1, <2>2, <1>4, <1>5
    <2>3. CASE j # Len(delivered) + 1
        <3>1. j \in DOMAIN delivered
            BY <2>3, <1>5
        <3> QED
            BY <3>1, <2>1, <1>5, <1>7 DEF SafetyInv
    <2> QED
        BY <2>2, <2>3
<1> QED
    BY <1>3, <1>4, <1>6, <1>7 DEF SafetyInv

(* A step that delivers nothing keeps it too, if the frontier never recedes. *)
LEMMA NoDeliverSafe ==
    ASSUME SafetyInv, TypeOK', BuffersInBounds', UNCHANGED delivered, Frontier <= Frontier'
    PROVE  SafetyInv'
<1>1. Frontier \in Nat /\ Frontier' \in Nat
    BY DEF SafetyInv, TypeOK, Frontier
<1>2. \A i \in DOMAIN delivered : delivered[i].from \in Nat /\ delivered[i].got \in Nat
    BY DeliveredType DEF SafetyInv
<1> QED
    BY <1>1, <1>2 DEF SafetyInv

(* decodePayload on what follows a header. *)
LEMMA FirstPayloadSafe ==
    ASSUME SafetyInv, NEW from \in Nat, NEW size \in Nat, NEW available \in Nat,
           DecodeFirstPayload(from, size, available), state # "decodingPayload",
           pos <= from, header' \in Headers, header'.size = size, reading' = reading,
           sent' = sent, segmentation' = segmentation, pos' = from + available
    PROVE  SafetyInv'
<1> DEFINE pushed == LesserOf(available, size)
<1>1. pushed \in Nat /\ pushed <= size /\ pushed <= available
    BY DEF LesserOf
<1>2. Frontier = pos
    BY DEF Frontier
<1>3. CASE pushed = size
    <2>1. Deliver(from, size, size)
        BY <1>3 DEF DecodeFirstPayload
    <2> QED
        BY <2>1, <1>1, <1>2, <1>3, DeliverSafe
<1>4. CASE pushed # size
    <2>1. /\ state' = "decodingPayload" /\ payloadFrom' = from /\ payloadLen' = pushed
          /\ UNCHANGED <<headerBufferParser, delivered>>
        BY <1>4 DEF DecodeFirstPayload
    <2>2. TypeOK' /\ BuffersInBounds'
        BY <2>1, <1>1, <1>4 DEF SafetyInv, TypeOK, BuffersInBounds
    <2>3. Frontier <= Frontier'
        BY <2>1, <1>2 DEF Frontier
    <2> QED
        BY <2>1, <2>2, <2>3, NoDeliverSafe
<1> QED
    BY <1>3, <1>4

LEMMA SafetyInit == Init => SafetyInv
<1> SUFFICES ASSUME Init PROVE SafetyInv
    OBVIOUS
<1>1. TypeOK
    <2>1. <<>> \in Seq(Frames) /\ <<>> \in Seq(Payloads)
        OBVIOUS
    <2> QED
        BY <2>1, HeaderSizeType DEF Init, TypeOK
<1>2. BuffersInBounds
    BY DEF Init, BuffersInBounds
<1> QED
    BY <1>1, <1>2 DEF Init, SafetyInv

LEMMA SafetyNext == SafetyInv /\ [Next]_vars => SafetyInv'
<1> SUFFICES ASSUME SafetyInv, [Next]_vars PROVE SafetyInv'
    OBVIOUS
<1> USE ConstantsAssumption
<1>0. TypeOK /\ BuffersInBounds
    BY DEF SafetyInv
<1>1. ASSUME NEW size \in PayloadSizes, Send(size)
      PROVE  SafetyInv'
    <2>1. [size |-> size, start |-> StreamEnd] \in Frames
        BY <1>0, StreamEndType DEF Frames
    <2>2. sent' \in Seq(Frames)
        BY <1>0, <1>1, <2>1, AppendFacts DEF Send, TypeOK
    <2> QED
        BY <1>0, <1>1, <2>2, NoDeliverSafe DEF Send, TypeOK, BuffersInBounds, Frontier, decoder
<1>2. ASSUME NEW n \in 1..ReceptionBufferSize, Read(n)
      PROVE  SafetyInv'
    <2>1. pos' = pos + n /\ sent' = sent /\ segmentation' = segmentation /\ n \in Nat /\ n > 0 /\ pos \in Nat
          /\ header \in Headers /\ header.size \in Nat /\ reading = TRUE
          /\ headerBufferParser \in Nat /\ payloadFrom \in Nat /\ payloadLen \in Nat
        BY <1>0, <1>2 DEF Read, TypeOK, Headers
    <2>2. HeadersAt(pos) \subseteq Headers
        BY <1>0, <2>1, HeadersAtType
    <2>3. CASE ParseWholeHeader(n)
        <3>1. PICK h \in HeadersAt(pos) :
                 /\ state = "starting" /\ IsComplete(h, n) /\ header' = h /\ reading' = reading
                 /\ DecodeFirstPayload(pos + HeaderSize(h), h.size, n - HeaderSize(h))
            BY <2>3 DEF ParseWholeHeader
        <3>2. h \in Headers /\ h.size \in Nat /\ HeaderSize(h) \in Nat /\ HeaderSize(h) <= n
            BY <2>1, <2>2, <3>1, HeaderFacts DEF Headers
        <3> QED
            BY <2>1, <3>1, <3>2, FirstPayloadSafe
    <2>4. CASE ParseHeaderStart(n)
        <3>1. PICK h \in HeadersAt(pos) : ~IsComplete(h, n) /\ header' = h
            BY <2>4 DEF ParseHeaderStart
        <3>2. /\ state = "starting" /\ state' = "partialHeader" /\ headerBufferParser' = n
              /\ UNCHANGED <<payloadFrom, payloadLen, reading, delivered>>
            BY <2>4 DEF ParseHeaderStart
        <3>3. TypeOK' /\ BuffersInBounds'
            BY <1>0, <2>1, <2>2, <3>1, <3>2 DEF TypeOK, BuffersInBounds, IsComplete
        <3> QED
            BY <2>1, <3>2, <3>3, NoDeliverSafe DEF Frontier
    <2>5. CASE ParseHeaderRest(n)
        <3>1. TypeOK' /\ BuffersInBounds'
            BY <1>0, <2>1, <2>5 DEF ParseHeaderRest, TypeOK, BuffersInBounds, IsComplete
        <3> QED
            BY <2>1, <2>5, <3>1, NoDeliverSafe DEF ParseHeaderRest, Frontier
    <2>6. CASE ParseHeaderEnd(n)
        <3>1. PICK consumed \in 1..n :
                 /\ HeaderEndsWith(consumed)
                 /\ LET from == pos + consumed
                        pushed == LesserOf(n - consumed, header.size)
                    IN  IF pushed = header.size
                        THEN Deliver(from, header.size, header.size)
                        ELSE /\ state' = "decodingPayload"
                             /\ headerBufferParser' = headerBufferParser + consumed
                             /\ payloadFrom' = from /\ payloadLen' = pushed
                             /\ UNCHANGED delivered
            BY <2>6 DEF ParseHeaderEnd
        <3>2. state = "partialHeader" /\ header' = header /\ reading' = reading
            BY <2>6 DEF ParseHeaderEnd
        <3> DEFINE from == pos + consumed
                   pushed == LesserOf(n - consumed, header.size)
        <3>3. pushed \in Nat /\ pushed <= header.size /\ pushed <= n - consumed
            BY <2>1 DEF LesserOf
        <3>4. Frontier = pos /\ from \in Nat /\ pos <= from
            BY <2>1, <3>2 DEF Frontier
        <3>5. CASE pushed = header.size
            <4>1. Deliver(from, header.size, header.size) /\ from + header.size <= pos'
                BY <2>1, <3>1, <3>3, <3>5
            <4> QED
                BY <4>1, <2>1, <3>2, <3>4, DeliverSafe
        <3>6. CASE pushed # header.size
            <4>1. /\ state' = "decodingPayload"
                  /\ headerBufferParser' = headerBufferParser + consumed
                  /\ payloadFrom' = from /\ payloadLen' = pushed
                  /\ UNCHANGED delivered
                BY <3>1, <3>6
            <4>2. headerBufferParser' <= 14
                BY <2>1, <3>1, <4>1 DEF HeaderEndsWith, IsComplete
            <4>3. TypeOK' /\ BuffersInBounds'
                BY <1>0, <2>1, <3>2, <3>3, <3>4, <3>6, <4>1, <4>2 DEF TypeOK, BuffersInBounds
            <4> QED
                BY <2>1, <3>4, <4>1, <4>3, NoDeliverSafe DEF Frontier
        <3> QED
            BY <3>5, <3>6
    <2>7. CASE ParsePayload(n)
        <3> DEFINE len == payloadLen + LesserOf(header.size - payloadLen, n)
        <3>1. state = "decodingPayload" /\ header' = header /\ reading' = reading /\ payloadLen < header.size
            BY <1>0, <2>7 DEF ParsePayload, BuffersInBounds
        <3>2. len \in Nat /\ len <= header.size /\ len <= payloadLen + n /\ (len = header.size \/ len = payloadLen + n)
            BY <2>1, <3>1 DEF LesserOf
        <3>3. payloadFrom + len <= pos'
            BY <1>0, <2>1, <3>1, <3>2 DEF BuffersInBounds
        <3>4. CASE PayloadEnds(n, header.size - len)
            <4>1. Deliver(payloadFrom, header.size, len)
                BY <2>7, <3>4 DEF ParsePayload
            <4>2. header.size <= 2 * len
                BY <2>1, <3>1, <3>2, <3>4 DEF PayloadEnds
            <4> QED
                BY <2>1, <3>1, <3>2, <3>3, <4>1, <4>2, DeliverSafe DEF Frontier
        <3>5. CASE ~PayloadEnds(n, header.size - len)
            <4>1. payloadLen' = len /\ UNCHANGED <<state, headerBufferParser, payloadFrom, delivered>>
                BY <2>7, <3>5 DEF ParsePayload
            <4>2. len < header.size
                BY <2>1, <3>1, <3>2, <3>5 DEF PayloadEnds
            <4>3. TypeOK' /\ BuffersInBounds'
                BY <1>0, <2>1, <3>1, <3>2, <3>3, <4>1, <4>2 DEF TypeOK, BuffersInBounds
            <4> QED
                BY <2>1, <3>1, <4>1, <4>3, NoDeliverSafe DEF Frontier
        <3> QED
            BY <3>4, <3>5
    <2>8. CASE ReserveThrows(n)
        <3>1. /\ state \in {"starting", "partialHeader"} /\ reading' = FALSE
              /\ UNCHANGED <<state, payloadFrom, payloadLen, delivered>>
            BY <2>8 DEF ReserveThrows
        <3>2. header' \in Headers
            BY <2>1, <2>2, <2>8 DEF ReserveThrows
        <3>3. /\ headerBufferParser' \in Nat /\ headerBufferParser' <= 14
              /\ state = "starting" => headerBufferParser' = headerBufferParser
            <4>1. CASE state = "starting"
                BY <1>0, <2>1, <2>8, <4>1 DEF ReserveThrows, BuffersInBounds
            <4>2. CASE state = "partialHeader"
                BY <2>1, <2>8, <4>2 DEF ReserveThrows, HeaderEndsWith, IsComplete
            <4> QED
                BY <3>1, <4>1, <4>2
        <3>4. TypeOK'
            <4>1. reading' \in BOOLEAN
                BY <3>1, Zenon
            <4> QED
                BY <1>0, <2>1, <3>1, <3>2, <3>3, <4>1 DEF TypeOK
        <3>5. BuffersInBounds'
            BY <1>0, <3>1, <3>3 DEF BuffersInBounds
        <3> QED
            BY <2>1, <3>1, <3>4, <3>5, NoDeliverSafe DEF Frontier
    <2> QED
        BY <1>2, <2>3, <2>4, <2>5, <2>6, <2>7, <2>8 DEF Read, Parse
<1>3. CASE UNCHANGED vars
    BY <1>0, <1>3, NoDeliverSafe DEF vars, decoder, SafetyInv, TypeOK, BuffersInBounds, Frontier
<1> QED
    BY <1>1, <1>2, <1>3 DEF Next, ReadSome

LEMMA SafetyAlways == Spec => []SafetyInv
BY SafetyInit, SafetyNext, PTL DEF Spec

(* FrameDecoder::parse keeps all of its counters natural numbers, for every *)
(* way TCP may cut the stream of the browser.                               *)
THEOREM TypeCorrect == Spec => []TypeOK
<1>1. SafetyInv => TypeOK
    BY DEF SafetyInv
<1> QED
    BY <1>1, SafetyAlways, PTL

(* headerBuffer is never overrun and the unsigned subtractions of parse do  *)
(* not wrap, for every way TCP may cut the stream of the browser.           *)
THEOREM BuffersStayInBounds == Spec => []BuffersInBounds
<1>1. SafetyInv => BuffersInBounds
    BY DEF SafetyInv
<1> QED
    BY <1>1, SafetyAlways, PTL

(* Whatever the cuts, and even after the decoder lost the frame boundaries: *)
(* the spans that WebSocket::read gives to the handlers start with received *)
(* bytes that no other handler saw, and those are at least half of them.    *)
THEOREM SpansStartReceived == Spec => []SpansHalfReceived
<1>1. SafetyInv => SpansHalfReceived
    <2> SUFFICES ASSUME SafetyInv, NEW i \in DOMAIN delivered
                 PROVE  delivered[i].from + delivered[i].got <= pos
        BY DEF SafetyInv, SpansHalfReceived
    <2>1. delivered[i].from \in Nat /\ delivered[i].got \in Nat /\ pos \in Nat
          /\ payloadFrom \in Nat /\ payloadLen \in Nat
        BY DeliveredType DEF SafetyInv, TypeOK
    <2> QED
        BY <2>1 DEF SafetyInv, Frontier, BuffersInBounds
<1> QED
    BY <1>1, SafetyAlways, PTL

-------------------------------------------------------------------------------
(* Gentle segmentation: the decoder follows the frames of the browser.      *)

(* Where frame k starts, or will start. *)
FrameStart(k) == IF k \in DOMAIN sent THEN sent[k].start ELSE StreamEnd

Current == Len(delivered) + 1

StreamInv ==
    /\ \A i \in DOMAIN sent : End(sent[i]) = FrameStart(i + 1)
    /\ \A i \in DOMAIN sent : End(sent[i]) <= StreamEnd
    /\ \A i, j \in DOMAIN sent : i < j => End(sent[i]) <= sent[j].start
    /\ sent # <<>> => sent[1].start = 0

(* The browser sends payloads that memory can be reserved for. *)
SizesInv == \A i \in DOMAIN sent : sent[i].size <= Reservable

DecoderInv ==
    /\ Len(delivered) <= Len(sent)
    /\ \A i \in DOMAIN delivered : delivered[i] = PayloadOf(sent[i])
    /\ state = "starting" => pos = FrameStart(Current)
    /\ reading
    /\ state # "starting" =>
         Current \in DOMAIN sent /\ header = BrowserHeader(sent[Current].size)
    /\ state = "partialHeader" =>
         pos = sent[Current].start + headerBufferParser /\ ~IsMedium(header.size)
    /\ state = "decodingPayload" =>
         payloadFrom = PayloadStart(sent[Current]) /\ pos = payloadFrom + payloadLen

GentleInv == TypeOK /\ BuffersInBounds /\ StreamInv /\ SizesInv /\ DecoderInv

LEMMA FrameFacts ==
    ASSUME TypeOK
    PROVE  \A i \in DOMAIN sent :
             /\ HeaderSize(BrowserHeader(sent[i].size)) \in {6, 8, 14}
             /\ PayloadStart(sent[i]) = sent[i].start + HeaderSize(BrowserHeader(sent[i].size))
             /\ End(sent[i]) = PayloadStart(sent[i]) + sent[i].size
             /\ PayloadStart(sent[i]) \in Nat /\ End(sent[i]) \in Nat
BY SentType, HeaderSizeType DEF PayloadStart, End

LEMMA DeliveredLen ==
    ASSUME TypeOK
    PROVE  /\ DOMAIN delivered = 1..Len(delivered) /\ Len(delivered) \in Nat
           /\ DOMAIN sent = 1..Len(sent) /\ Len(sent) \in Nat
BY SeqFacts DEF TypeOK

(* A gentle chunk is a part of the frame being decoded. *)
LEMMA ChunkOfCurrent ==
    ASSUME GentleInv, NEW n \in Nat, n > 0, Gentle(n)
    PROVE  /\ Current \in DOMAIN sent
           /\ sent[Current].start <= pos
           /\ pos + n <= End(sent[Current])
           /\ state = "starting" => pos = sent[Current].start /\ HeadersAt(pos) = {BrowserHeader(sent[Current].size)}
<1> USE DEF GentleInv
<1>1. PICK i \in DOMAIN sent : sent[i].start <= pos /\ pos + n <= End(sent[i])
    BY DEF Gentle
<1>2. pos \in Nat /\ Current \in Nat /\ i \in Nat /\ StreamEnd \in Nat
      /\ headerBufferParser \in Nat /\ payloadLen \in Nat
    BY DeliveredLen, StreamEndType DEF TypeOK, Current
<1>3. /\ \A j \in DOMAIN sent : sent[j].start \in Nat /\ sent[j].size \in Nat /\ End(sent[j]) \in Nat
      /\ \A j \in DOMAIN sent : sent[j].start + 6 <= End(sent[j])
    BY SentType, FrameFacts
<1>4. CASE state = "starting"
    <2>1. pos = FrameStart(Current)
        BY <1>4 DEF DecoderInv
    <2>2. Current \in DOMAIN sent
        BY <1>1, <1>2, <1>3, <2>1 DEF FrameStart, StreamInv
    <2>3. pos = sent[Current].start
        BY <2>1, <2>2 DEF FrameStart
    <2>4. \A j \in DOMAIN sent : sent[j].start = pos => j = Current
        <3> SUFFICES ASSUME NEW j \in DOMAIN sent, sent[j].start = pos, j # Current
                     PROVE  FALSE
            OBVIOUS
        <3>1. j \in Nat
            BY DeliveredLen
        <3>2. CASE j < Current
            <4>1. End(sent[j]) <= pos
                BY <2>2, <2>3, <3>2 DEF StreamInv
            <4> QED
                BY <1>2, <1>3, <4>1
        <3>3. CASE Current < j
            <4>1. End(sent[Current]) <= pos
                BY <2>2, <3>3 DEF StreamInv
            <4> QED
                BY <1>2, <1>3, <2>2, <2>3, <4>1
        <3> QED
            BY <1>2, <3>1, <3>2, <3>3
    <2>5. i = Current
        <3> SUFFICES ASSUME i # Current PROVE FALSE
            OBVIOUS
        <3>1. CASE i < Current
            <4>1. End(sent[i]) <= sent[Current].start
                BY <1>1, <2>2, <3>1 DEF StreamInv
            <4> QED
                BY <1>1, <1>2, <1>3, <2>2, <2>3, <4>1
        <3>2. CASE Current < i
            <4>1. End(sent[Current]) <= sent[i].start
                BY <1>1, <2>2, <3>2 DEF StreamInv
            <4> QED
                BY <1>1, <1>2, <1>3, <2>2, <2>3, <4>1
        <3> QED
            BY <1>2, <3>1, <3>2
    <2>6. HeadersAt(pos) = {BrowserHeader(sent[Current].size)}
        BY <2>2, <2>3, <2>4 DEF HeadersAt
    <2> QED
        BY <1>1, <2>2, <2>3, <2>5, <2>6
<1>5. CASE state # "starting"
    <2>1. /\ Current \in DOMAIN sent /\ header = BrowserHeader(sent[Current].size)
          /\ header.size = sent[Current].size /\ sent[Current].size \in Nat /\ reading
        BY <1>3, <1>5, HeaderSizeType DEF DecoderInv
    <2>2. state \in {"partialHeader", "decodingPayload"}
        BY <1>5 DEF TypeOK
    <2>3. sent[Current].start <= pos /\ pos < End(sent[Current])
        <3>0. /\ sent[Current].start \in Nat /\ HeaderSize(header) \in Nat
              /\ PayloadStart(sent[Current]) = sent[Current].start + HeaderSize(header)
              /\ End(sent[Current]) = PayloadStart(sent[Current]) + header.size
            BY <1>3, <2>1, FrameFacts
        <3>1. CASE state = "partialHeader"
            <4>1. pos = sent[Current].start + headerBufferParser /\ ~IsMedium(header.size)
                  /\ ~IsComplete(header, headerBufferParser)
                BY <2>1, <3>1 DEF DecoderInv, BuffersInBounds
            <4>2. headerBufferParser < HeaderSize(header)
                BY <1>2, <2>1, <3>0, <4>1, BrowserIsComplete
            <4> QED
                BY <1>2, <2>1, <3>0, <4>1, <4>2
        <3>2. CASE state = "decodingPayload"
            <4>1. payloadFrom = PayloadStart(sent[Current]) /\ pos = payloadFrom + payloadLen
                  /\ payloadLen < header.size
                BY <3>2 DEF DecoderInv, BuffersInBounds
            <4> QED
                BY <1>2, <2>1, <3>0, <4>1
        <3> QED
            BY <2>2, <3>1, <3>2
    <2>4. i = Current
        <3> SUFFICES ASSUME i # Current PROVE FALSE
            OBVIOUS
        <3>1. CASE i < Current
            <4>1. End(sent[i]) <= sent[Current].start
                BY <1>1, <2>1, <3>1 DEF StreamInv
            <4> QED
                BY <1>1, <1>2, <1>3, <2>1, <2>3, <4>1
        <3>2. CASE Current < i
            <4>1. End(sent[Current]) <= sent[i].start
                BY <1>1, <2>1, <3>2 DEF StreamInv
            <4> QED
                BY <1>1, <1>2, <1>3, <2>1, <2>3, <4>1
        <3> QED
            BY <1>2, <3>1, <3>2
    <2> QED
        BY <1>1, <1>5, <2>1, <2>4
<1> QED
    BY <1>4, <1>5

(* The payload of the current frame is delivered and pos is at its end. *)
LEMMA DeliverCurrent ==
    ASSUME GentleInv, TypeOK', BuffersInBounds', sent' = sent, Current \in DOMAIN sent,
           Deliver(PayloadStart(sent[Current]), sent[Current].size, sent[Current].size),
           pos' = End(sent[Current]), reading'
    PROVE  GentleInv' /\ delivered' = Append(delivered, PayloadOf(sent[Current]))
<1> USE DEF GentleInv
<1>1. PayloadOf(sent[Current]) \in Payloads
    BY SentType, FrameFacts DEF PayloadOf, Payloads
<1>2. delivered' = Append(delivered, PayloadOf(sent[Current])) /\ state' = "starting"
    BY DEF Deliver, PayloadOf
<1>3. /\ Len(delivered') = Len(delivered) + 1
      /\ DOMAIN delivered' = 1..(Len(delivered) + 1)
      /\ \A i \in DOMAIN delivered : delivered'[i] = delivered[i]
      /\ delivered'[Len(delivered) + 1] = PayloadOf(sent[Current])
    BY <1>1, <1>2, AppendFacts DEF TypeOK
<1>4. StreamEnd' = StreamEnd /\ StreamInv' /\ SizesInv'
    BY DEF StreamInv, SizesInv, FrameStart, StreamEnd, End, PayloadStart
<1>5. pos' = FrameStart(Current)'
    <2>1. pos' = FrameStart(Current + 1)
        BY DEF StreamInv
    <2>2. Current' = Current + 1
        BY <1>3 DEF Current
    <2> QED
        BY <1>4, <2>1, <2>2 DEF FrameStart
<1>6. DecoderInv'
    <2>1. Len(delivered') <= Len(sent')
        BY <1>3, DeliveredLen DEF Current
    <2>2. \A i \in DOMAIN delivered' : delivered'[i] = PayloadOf(sent'[i])
        BY <1>3, DeliveredLen DEF Current, DecoderInv
    <2> QED
        BY <1>2, <1>5, <2>1, <2>2 DEF DecoderInv, PayloadOf
<1> QED
    BY <1>2, <1>4, <1>6

(* A step of the decoder that delivers nothing. *)
LEMMA FollowCurrent ==
    ASSUME GentleInv, TypeOK', BuffersInBounds', sent' = sent, delivered' = delivered,
           Current \in DOMAIN sent, header' = BrowserHeader(sent[Current].size), reading',
           \/ /\ state' = "partialHeader" /\ ~IsMedium(header'.size)
              /\ pos' = sent[Current].start + headerBufferParser'
           \/ /\ state' = "decodingPayload"
              /\ payloadFrom' = PayloadStart(sent[Current])
              /\ pos' = payloadFrom' + payloadLen'
    PROVE  GentleInv'
<1>1. StreamInv' /\ SizesInv'
    BY DEF GentleInv, StreamInv, SizesInv, FrameStart, StreamEnd, End, PayloadStart
<1>2. Current' = Current
    BY DEF Current
<1>3. DecoderInv'
    BY <1>2 DEF GentleInv, DecoderInv, PayloadOf, PayloadStart
<1> QED
    BY <1>1, <1>3 DEF GentleInv

LEMMA GentleInit == Init => GentleInv
<1> SUFFICES ASSUME Init PROVE GentleInv
    OBVIOUS
<1>1. TypeOK /\ BuffersInBounds
    BY SafetyInit DEF SafetyInv
<1>2. sent = <<>> /\ delivered = <<>> /\ Len(sent) = 0 /\ Len(delivered) = 0
    BY DEF Init
<1>3. DOMAIN sent = {} /\ DOMAIN delivered = {}
    BY <1>2
<1>4. StreamInv /\ SizesInv
    BY <1>2, <1>3 DEF StreamInv, SizesInv
<1>5. DecoderInv
    BY <1>2, <1>3 DEF Init, DecoderInv, FrameStart, StreamEnd
<1> QED
    BY <1>1, <1>4, <1>5 DEF GentleInv

LEMMA GentleSend ==
    ASSUME GentleInv, TypeOK', BuffersInBounds', NEW size \in Nat, size <= Reservable, Send(size)
    PROVE  GentleInv'
<1> USE DEF GentleInv
<1> DEFINE f == [size |-> size, start |-> StreamEnd]
<1>1. f \in Frames
    BY StreamEndType DEF Frames
<1>2. /\ Len(sent') = Len(sent) + 1
      /\ DOMAIN sent' = 1..(Len(sent) + 1)
      /\ \A i \in DOMAIN sent : sent'[i] = sent[i]
      /\ sent'[Len(sent) + 1] = f
    BY <1>1, AppendFacts DEF TypeOK, Send
<1>3. StreamEnd' = StreamEnd + HeaderSize(BrowserHeader(size)) + size
    <2>1. sent' # <<>>
        BY <1>2, DeliveredLen
    <2> QED
        BY <1>2, <2>1 DEF StreamEnd, End, PayloadStart
<1>4. HeaderSize(BrowserHeader(size)) \in {6, 8, 14} /\ StreamEnd \in Nat /\ StreamEnd' \in Nat
    BY <1>3, HeaderSizeType, StreamEndType
<1>5. \A i \in DOMAIN sent : End(sent'[i]) = End(sent[i]) /\ End(sent[i]) \in Nat
    BY <1>2, FrameFacts
<1>6. End(sent'[Len(sent) + 1]) = StreamEnd'
    BY <1>2, <1>3 DEF End, PayloadStart
<1>7. \A i \in 1..(Len(sent) + 1) : FrameStart(i)' = FrameStart(i)
    BY <1>2, DeliveredLen DEF FrameStart
<1>8. StreamInv'
    <2>1. \A i \in DOMAIN sent' : End(sent'[i]) = FrameStart(i + 1)'
        <3>1. ASSUME NEW i \in DOMAIN sent PROVE End(sent'[i]) = FrameStart(i + 1)'
            BY <1>5, <1>7, DeliveredLen DEF StreamInv
        <3>2. PICK last \in Nat : last = Len(sent) + 1
            BY DeliveredLen
        <3>3. FrameStart(last + 1)' = StreamEnd'
            BY <1>2, <3>2, DeliveredLen DEF FrameStart
        <3>4. End(sent'[last]) = FrameStart(last + 1)'
            BY <1>6, <3>2, <3>3
        <3>5. \A i \in DOMAIN sent' : i \in DOMAIN sent \/ i = last
            BY <1>2, <3>2, DeliveredLen
        <3>6. ASSUME NEW i \in DOMAIN sent', i = last PROVE End(sent'[i]) = FrameStart(i + 1)'
            BY <3>4, <3>6, Zenon
        <3> QED
            BY <3>1, <3>5, <3>6
    <2>2. \A i \in DOMAIN sent' : End(sent'[i]) <= StreamEnd'
        <3>1. ASSUME NEW i \in DOMAIN sent PROVE End(sent'[i]) <= StreamEnd'
            <4>1. End(sent[i]) <= StreamEnd /\ End(sent'[i]) = End(sent[i]) /\ End(sent[i]) \in Nat
                BY <1>5 DEF StreamInv
            <4> QED
                BY <1>3, <1>4, <4>1
        <3>2. End(sent'[Len(sent) + 1]) <= StreamEnd'
            BY <1>4, <1>6
        <3>3. \A i \in DOMAIN sent' : i \in DOMAIN sent \/ i = Len(sent) + 1
            BY <1>2, DeliveredLen
        <3> QED
            BY <3>1, <3>2, <3>3
    <2>3. \A i, j \in DOMAIN sent' : i < j => End(sent'[i]) <= sent'[j].start
        BY <1>2, <1>5, DeliveredLen DEF StreamInv
    <2>4. sent'[1].start = 0
        <3>1. CASE sent = <<>>
            BY <1>2, <3>1 DEF StreamEnd
        <3>2. CASE sent # <<>>
            BY <1>2, <3>2, DeliveredLen DEF StreamInv
        <3> QED
            BY <3>1, <3>2
    <2> QED
        BY <2>1, <2>2, <2>3, <2>4 DEF StreamInv
<1>9. UNCHANGED <<pos, state, header, headerBufferParser, payloadFrom, payloadLen, reading, delivered>>
    BY DEF Send, decoder
<1>10. Current' = Current /\ Current \in 1..(Len(sent) + 1)
    BY <1>9, DeliveredLen DEF Current, DecoderInv
<1>11. DecoderInv'
    <2>1. Len(delivered') <= Len(sent')
        BY <1>2, <1>9, DeliveredLen DEF DecoderInv
    <2>2. \A i \in DOMAIN delivered' : delivered'[i] = PayloadOf(sent'[i])
        BY <1>2, <1>9, DeliveredLen DEF DecoderInv
    <2>3. FrameStart(Current)' = FrameStart(Current)
        BY <1>7, <1>10
    <2>4. Current \in DOMAIN sent => Current' \in DOMAIN sent' /\ sent'[Current'] = sent[Current]
        BY <1>2, <1>10, DeliveredLen
    <2> QED
        BY <1>9, <2>1, <2>2, <2>3, <2>4 DEF DecoderInv, PayloadStart
<1>12. SizesInv'
    BY <1>2, DeliveredLen DEF SizesInv
<1> QED
    BY <1>8, <1>11, <1>12

LEMMA GentleRead ==
    ASSUME GentleInv, TypeOK', BuffersInBounds', NEW n \in Nat, n > 0, Gentle(n), Parse(n),
           pos' = pos + n, sent' = sent
    PROVE  /\ GentleInv'
           /\ \/ delivered' = delivered
              \/ Current \in DOMAIN sent /\ delivered' = Append(delivered, PayloadOf(sent[Current]))
<1> DEFINE c == sent[Current]
<1>1. /\ Current \in DOMAIN sent /\ c.start <= pos /\ pos + n <= End(c)
      /\ state = "starting" => pos = c.start /\ HeadersAt(pos) = {BrowserHeader(c.size)}
    BY ChunkOfCurrent
<1>2. /\ c.start \in Nat /\ c.size \in Nat
      /\ BrowserHeader(c.size) \in Headers /\ BrowserHeader(c.size).size = c.size
      /\ HeaderSize(BrowserHeader(c.size)) \in {6, 8, 14}
      /\ PayloadStart(c) = c.start + HeaderSize(BrowserHeader(c.size))
      /\ End(c) = PayloadStart(c) + c.size
      /\ PayloadStart(c) \in Nat /\ End(c) \in Nat
    BY <1>1, SentType, FrameFacts, HeaderSizeType DEF GentleInv
<1>3. reading /\ pos \in Nat /\ headerBufferParser \in Nat /\ payloadLen \in Nat /\ payloadFrom \in Nat
    BY DEF GentleInv, TypeOK, DecoderInv
<1>4. state # "starting" => header = BrowserHeader(c.size)
    BY DEF GentleInv, DecoderInv
<1> HIDE DEF c
<1>5. CASE ParseWholeHeader(n)
    <2>1. /\ state = "starting" /\ header' = BrowserHeader(c.size) /\ pos = c.start
          /\ IsComplete(BrowserHeader(c.size), n) /\ reading' = reading
          /\ DecodeFirstPayload(PayloadStart(c), c.size, n - HeaderSize(BrowserHeader(c.size)))
        BY <1>1, <1>2, <1>5 DEF ParseWholeHeader
    <2> DEFINE available == n - HeaderSize(BrowserHeader(c.size))
    <2>2. available \in Nat /\ available <= c.size
        BY <1>1, <1>2, <1>3, <2>1, HeaderFacts
    <2>3. LesserOf(available, c.size) = available
        BY <2>2 DEF LesserOf
    <2>4. pos' = PayloadStart(c) + available
        BY <1>2, <1>3, <2>1
    <2>5. CASE available = c.size
        <3>1. Deliver(PayloadStart(c), c.size, c.size)
            BY <2>1, <2>3, <2>5 DEF DecodeFirstPayload
        <3> QED
            BY <1>1, <1>2, <1>3, <2>1, <2>4, <2>5, <3>1, DeliverCurrent DEF c
    <2>6. CASE available # c.size
        <3>1. /\ state' = "decodingPayload" /\ payloadFrom' = PayloadStart(c)
              /\ payloadLen' = available /\ delivered' = delivered
            BY <2>1, <2>3, <2>6 DEF DecodeFirstPayload
        <3> QED
            BY <1>1, <1>3, <2>1, <2>4, <3>1, FollowCurrent DEF c
    <2> QED
        BY <2>5, <2>6
<1>6. CASE ParseHeaderStart(n)
    <2>1. /\ state = "starting" /\ header' = BrowserHeader(c.size) /\ pos = c.start
          /\ ~IsComplete(BrowserHeader(c.size), n) /\ reading' = reading
          /\ state' = "partialHeader" /\ headerBufferParser' = n /\ delivered' = delivered
        BY <1>1, <1>6 DEF ParseHeaderStart
    <2>2. ~IsMedium(c.size)
        <3>1. n >= 14 \/ ~IsMedium(c.size)
            BY <1>1, <1>2, <2>1 DEF Gentle
        <3>2. ~(n >= 14)
            BY <1>2, <2>1, BrowserIsComplete
        <3> QED
            BY <3>1, <3>2
    <2> QED
        BY <1>1, <1>2, <1>3, <2>1, <2>2, FollowCurrent DEF c
<1>7. CASE ParseHeaderRest(n)
    <2>1. /\ state = "partialHeader" /\ header' = header /\ state' = state
          /\ headerBufferParser' = headerBufferParser + n /\ delivered' = delivered
          /\ reading' = reading
        BY <1>7 DEF ParseHeaderRest
    <2>2. pos = c.start + headerBufferParser /\ ~IsMedium(header.size)
        BY <2>1 DEF GentleInv, DecoderInv, c
    <2> QED
        BY <1>1, <1>2, <1>3, <1>4, <2>1, <2>2, FollowCurrent DEF c
<1>8. CASE ParseHeaderEnd(n)
    <2>1. PICK consumed \in 1..n :
             /\ HeaderEndsWith(consumed)
             /\ LET from == pos + consumed
                    pushed == LesserOf(n - consumed, header.size)
                IN  IF pushed = header.size
                    THEN Deliver(from, header.size, header.size)
                    ELSE /\ state' = "decodingPayload"
                         /\ headerBufferParser' = headerBufferParser + consumed
                         /\ payloadFrom' = from /\ payloadLen' = pushed
                         /\ UNCHANGED delivered
        BY <1>8 DEF ParseHeaderEnd
    <2>2. /\ state = "partialHeader" /\ header' = header /\ reading' = reading
          /\ header = BrowserHeader(c.size) /\ header.size = c.size
        BY <1>2, <1>4, <1>8 DEF ParseHeaderEnd
    <2>3. pos = c.start + headerBufferParser /\ ~IsMedium(header.size)
        BY <2>2 DEF GentleInv, DecoderInv, c
    <2>4. headerBufferParser + consumed = HeaderSize(header)
        BY <1>2, <1>3, <2>1, <2>2, <2>3, BrowserIsComplete DEF HeaderEndsWith
    <2> DEFINE available == n - consumed
    <2>5. pos + consumed = PayloadStart(c) /\ available \in Nat /\ available <= c.size
        BY <1>1, <1>2, <1>3, <2>2, <2>3, <2>4
    <2>6. LesserOf(available, header.size) = available
        BY <2>2, <2>5 DEF LesserOf
    <2>7. pos' = PayloadStart(c) + available
        BY <1>2, <1>3, <2>5
    <2>8. CASE available = header.size
        <3>1. Deliver(PayloadStart(c), c.size, c.size)
            BY <2>1, <2>2, <2>5, <2>6, <2>8
        <3> QED
            BY <1>1, <1>2, <1>3, <2>2, <2>7, <2>8, <3>1, DeliverCurrent DEF c
    <2>9. CASE available # header.size
        <3>1. /\ state' = "decodingPayload" /\ payloadFrom' = PayloadStart(c)
              /\ payloadLen' = available /\ delivered' = delivered
            BY <2>1, <2>5, <2>6, <2>9
        <3> QED
            BY <1>1, <1>3, <2>2, <2>7, <3>1, FollowCurrent DEF c
    <2> QED
        BY <2>8, <2>9
<1>9. CASE ParsePayload(n)
    <2> DEFINE missing == header.size - payloadLen
               len == payloadLen + LesserOf(missing, n)
    <2>1. /\ state = "decodingPayload" /\ header' = header /\ reading' = reading
          /\ header = BrowserHeader(c.size) /\ header.size = c.size /\ payloadLen < header.size
        BY <1>2, <1>4, <1>9 DEF ParsePayload, GentleInv, BuffersInBounds
    <2>2. payloadFrom = PayloadStart(c) /\ pos = payloadFrom + payloadLen
        BY <2>1 DEF GentleInv, DecoderInv, c
    <2>3. n <= missing /\ missing \in Nat
        BY <1>1, <1>2, <1>3, <2>1, <2>2
    <2>4. len = payloadLen + n /\ pos' = payloadFrom + len
        BY <1>3, <2>2, <2>3 DEF LesserOf
    <2>5. CASE n = missing
        <3>1. PayloadEnds(n, header.size - len) /\ len = header.size
            BY <1>2, <1>3, <2>1, <2>4, <2>5 DEF PayloadEnds
        <3>2. Deliver(PayloadStart(c), c.size, c.size)
            BY <1>9, <2>1, <2>2, <3>1 DEF ParsePayload
        <3> QED
            BY <1>1, <1>2, <1>3, <2>1, <2>2, <2>4, <3>1, <3>2, DeliverCurrent DEF c
    <2>6. CASE n # missing
        <3>1. 2 * n < missing
            BY <2>1, <2>6 DEF Gentle
        <3>2. ~PayloadEnds(n, header.size - len)
            BY <1>2, <1>3, <2>1, <2>4, <3>1 DEF PayloadEnds
        <3>3. /\ state' = "decodingPayload" /\ payloadFrom' = payloadFrom
              /\ payloadLen' = len /\ delivered' = delivered
            BY <1>9, <2>1, <3>2 DEF ParsePayload
        <3> QED
            BY <1>1, <1>3, <2>1, <2>2, <2>4, <3>3, FollowCurrent DEF c
    <2> QED
        BY <2>5, <2>6
<1>10. ~ReserveThrows(n)
    <2>1. c.size <= Reservable
        BY <1>1 DEF GentleInv, SizesInv, c
    <2> QED
        BY <1>1, <1>2, <1>4, <2>1, ConstantsAssumption DEF ReserveThrows
<1> QED
    BY <1>5, <1>6, <1>7, <1>8, <1>9, <1>10 DEF Parse

-------------------------------------------------------------------------------
(* The frames of the browser, seen as payloads of FrameChannel. *)
LEMMA SentPayloads ==
    ASSUME TypeOK
    PROVE  /\ DOMAIN sentPayloads = 1..Len(sent)
           /\ Len(sentPayloads) = Len(sent)
           /\ \A i \in DOMAIN sent : sentPayloads[i] = PayloadOf(sent[i])
BY SeqFacts DEF sentPayloads, TypeOK

LEMMA ChannelInit == Init => Channel!Init
<1> SUFFICES ASSUME Init PROVE Channel!Init
    OBVIOUS
<1>1. sent = <<>> /\ delivered = <<>> /\ DOMAIN sent = {}
    BY DEF Init
<1>2. sentPayloads = <<>>
    BY <1>1 DEF sentPayloads
<1> QED
    BY <1>1, <1>2 DEF Channel!Init, Watched

LEMMA SegmentationStays == [Next]_vars => segmentation' = segmentation
BY DEF Next, ReadSome, Send, Read, vars

LEMMA GentleNext ==
    ASSUME segmentation = "gentle", SafetyInv, GentleInv, [Next]_vars
    PROVE  GentleInv' /\ [Channel!Next]_<<Watched(sentPayloads), Watched(delivered)>>
<1> USE ConstantsAssumption
<1>1. SafetyInv'
    BY SafetyNext
<1>2. TypeOK /\ TypeOK' /\ BuffersInBounds'
    BY <1>1 DEF SafetyInv
<1>w. /\ Watched(sentPayloads) = sentPayloads /\ Watched(sentPayloads)' = sentPayloads'
      /\ Watched(delivered) = delivered /\ Watched(delivered)' = delivered'
    BY SegmentationStays DEF Watched
<1>3. ASSUME NEW size \in PayloadSizes, Send(size)
      PROVE  GentleInv' /\ Channel!Send
    <2>1. GentleInv'
        BY <1>2, <1>3, GentleSend
    <2>2. [size |-> size, start |-> StreamEnd] \in Frames
        BY <1>2, StreamEndType DEF Frames
    <2>3. Len(sent') = Len(sent) + 1 /\ \A i \in DOMAIN sent : sent'[i] = sent[i]
        BY <1>2, <1>3, <2>2, AppendFacts DEF Send, TypeOK
    <2>4. /\ Len(sentPayloads') = Len(sent') /\ Len(sentPayloads) = Len(sent)
          /\ DOMAIN sentPayloads = DOMAIN sent
          /\ \A i \in DOMAIN sent : sentPayloads[i] = PayloadOf(sent[i])
          /\ \A i \in DOMAIN sent' : sentPayloads'[i] = PayloadOf(sent'[i])
          /\ DOMAIN sent \subseteq DOMAIN sent'
        BY <1>2, <2>3, SentPayloads, SeqFacts DEF TypeOK, sentPayloads
    <2>5. delivered' = delivered
        BY <1>3 DEF Send
    <2>6. /\ Len(sentPayloads') = Len(sentPayloads) + 1
          /\ \A i \in DOMAIN sentPayloads : sentPayloads'[i] = sentPayloads[i]
        BY <2>3, <2>4
    <2> QED
        BY <1>w, <2>1, <2>5, <2>6 DEF Channel!Send
<1>4. ASSUME NEW n \in 1..ReceptionBufferSize, Read(n)
      PROVE  GentleInv' /\ (Channel!Deliver \/ UNCHANGED <<sentPayloads, delivered>>)
    <2>1. /\ Gentle(n) /\ Parse(n) /\ pos' = pos + n /\ sent' = sent
        BY <1>4 DEF Read
    <2>2. /\ GentleInv'
          /\ \/ delivered' = delivered
             \/ Current \in DOMAIN sent /\ delivered' = Append(delivered, PayloadOf(sent[Current]))
        BY <1>2, <2>1, GentleRead
    <2>3. sentPayloads' = sentPayloads
        BY <2>1 DEF sentPayloads, PayloadOf, PayloadStart
    <2>4. ASSUME Current \in DOMAIN sent, delivered' = Append(delivered, PayloadOf(sent[Current]))
          PROVE  Channel!Deliver
        <3>1. /\ Len(delivered) < Len(sentPayloads)
              /\ delivered' = Append(delivered, sentPayloads[Len(delivered) + 1])
            BY <1>2, <2>4, SentPayloads, DeliveredLen DEF Current
        <3> QED
            BY <1>w, <2>3, <3>1 DEF Channel!Deliver
    <2> QED
        BY <2>2, <2>3, <2>4
<1>5. CASE UNCHANGED vars
    <2>1. GentleInv'
        BY <1>2, <1>5 DEF vars, decoder, GentleInv, StreamInv, SizesInv, DecoderInv, FrameStart, StreamEnd,
                          End, PayloadStart, PayloadOf, Current
    <2> QED
        BY <1>5, <1>w, <2>1 DEF vars, sentPayloads, PayloadOf, PayloadStart
<1> QED
    BY <1>w, <1>3, <1>4, <1>5 DEF Next, ReadSome, Channel!Next

(* Behaviours whose chunks are not gentle show the channel nothing. *)
LEMMA UnwatchedStep ==
    ASSUME segmentation # "gentle", [Next]_vars
    PROVE  UNCHANGED <<Watched(sentPayloads), Watched(delivered)>>
BY SegmentationStays DEF Watched

Followed == segmentation = "gentle" => GentleInv

(* With gentle chunks FrameDecoder implements FrameChannel: the handlers of *)
(* WebSocket::read see the payloads of the browser whole, once, in order.   *)
THEOREM GentleImplementsChannel == Spec => ImplementsChannel
<1>1. Init => SafetyInv /\ Followed /\ Channel!Init
    BY SafetyInit, GentleInit, ChannelInit DEF Followed
<1>2. SafetyInv /\ Followed /\ [Next]_vars
        => /\ SafetyInv' /\ Followed'
           /\ [Channel!Next]_<<Watched(sentPayloads), Watched(delivered)>>
    <2> SUFFICES ASSUME SafetyInv, Followed, [Next]_vars
                 PROVE  /\ SafetyInv' /\ Followed'
                        /\ [Channel!Next]_<<Watched(sentPayloads), Watched(delivered)>>
        OBVIOUS
    <2>1. SafetyInv' /\ segmentation' = segmentation
        BY SafetyNext, SegmentationStays
    <2>2. CASE segmentation = "gentle"
        BY <2>1, <2>2, GentleNext DEF Followed
    <2>3. CASE segmentation # "gentle"
        BY <2>1, <2>3, UnwatchedStep DEF Followed
    <2> QED
        BY <2>2, <2>3
<1> QED
    BY <1>1, <1>2, PTL DEF Spec, ImplementsChannel, Channel!Spec
===============================================================================
