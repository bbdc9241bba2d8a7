---------------------------- MODULE WebSocketWrites ----------------------------
(***************************************************************************)
(* The frames a WebSocket writes (include/http/WebSocket.hpp): Frame lays   *)
(* out buffers, writeData gives them to asio::async_write, and asio hands   *)
(* them to the socket in as many parts as it takes.                         *)
(*                                                                         *)
(* asio tries a write at once if no other one waits for the socket; one     *)
(* that was taken in part goes on from its completion handler, behind those *)
(* that wait by then.  The buffers are those of the handler that called     *)
(* write: its Frame, its strings, its JsFunction arguments.  When it ends   *)
(* they are dead, whatever asio still has to read from them.                *)
(***************************************************************************)
EXTENDS Integers, Sequences

CONSTANTS
    FrameLayouts,   \* what handlers write: bytes at construction, bytes in all
    MaxFrames,      \* bound: frames written
    SocketBuffer,   \* bytes the kernel keeps until the page reads them
    ReadSizes,      \* how much the page reads at a time
    ChunkSize,      \* the most that async_write asks a socket to take, 65536
    SmallLimit,     \* 126: payloads below have a header of 2 bytes
    MediumLimit     \* 65536: payloads below have one of 4, others one of 10

ASSUME ConstantsAssumption ==
    /\ FrameLayouts \subseteq [built : Nat, size : Nat]
    /\ MaxFrames \in Nat /\ SmallLimit \in Nat /\ MediumLimit \in Nat
    /\ SocketBuffer \in Nat \ {0} /\ ChunkSize \in Nat \ {0}
    /\ ReadSizes \subseteq Nat \ {0}

(* When handlers write.  "any": when they like.  "alone": when what was     *)
(* written before has been taken.  "roomy": when the socket has room for a  *)
(* frame, which is not larger than a chunk and whose header fits it.        *)
Pacings == {"any", "alone", "roomy"}

VARIABLES
    pacing,      \* chosen once
    frames,      \* the frames written so far, and how much of each was taken
    ended,       \* how many of them were written by handlers that have ended
    waiting,     \* frames whose async_write_some waits for the socket
    completed,   \* frames whose async_write_some has completed, handler queued
    wire,        \* the parts taken, in order: frame, offset in it, size,
                 \* position in the stream, whether its buffers were alive
    put,         \* bytes the socket has taken
    got,         \* bytes the page has read
    seen         \* parts the page has read to the end

asio == <<waiting, completed, wire, put>>
page == <<got, seen>>
vars == <<pacing, frames, ended, asio, page>>

-------------------------------------------------------------------------------
(* Header::headerSize without a mask, after setPayloadSize. *)
HeaderSize(size) ==
    IF size < SmallLimit THEN 2 ELSE IF size < MediumLimit THEN 4 ELSE 10

(* Mutant of Total: addBuffer's bytes are announced but not sent. *)
TotalAsBuilt(frame) == HeaderSize(frame.built) + frame.built

(* The bytes of a frame's buffers: buffers[0] got the size of the header    *)
(* that the constructor had set; addBuffer adds payload and corrects the    *)
(* length in the header, not the size of buffers[0].                        *)
Total(frame) == HeaderSize(frame.built) + frame.size

(* What is on the wire is a frame only if both headers have the same size.  *)
HeaderFits(frame) == HeaderSize(frame.built) = HeaderSize(frame.size)

Taken(i) == frames[i].taken = Total(frames[i])

EndOf(part) == part.from + part.size

Room == SocketBuffer - (put - got)

Least(S) == CHOOSE a \in S : \A b \in S : a <= b

-------------------------------------------------------------------------------
Init ==
    /\ pacing \in Pacings
    /\ frames = <<>> /\ ended = 0
    /\ waiting = <<>> /\ completed = <<>> /\ wire = <<>> /\ put = 0
    /\ got = 0 /\ seen = 0

(* The socket takes what it has room for of the rest of frame i.            *)
Part(i, frame) ==
    [frame |-> i, from |-> frame.taken, at |-> put, live |-> i > ended,
     size |-> Least({Total(frame) - frame.taken, Room, ChunkSize})]

Updated(i, frame) ==
    IF i = Len(frames) + 1 THEN Append(frames, frame) ELSE [frames EXCEPT ![i] = frame]

(* send() took a part: the completion is queued behind the others.          *)
Take(part, frame, queue) ==
    /\ frames' = Updated(part.frame, [frame EXCEPT !.taken = EndOf(part)])
    /\ wire' = Append(wire, part)
    /\ put' = put + part.size
    /\ completed' = Append(queue, part.frame)

(* Mutant of TriedAtOnce: writes are left to the reactor. *)
TriedLater == FALSE

TriedAtOnce == waiting = <<>> /\ Room > 0

(* async_write_some for the rest of frame i: at once if no other write      *)
(* waits and there is room, else behind those that wait.                    *)
AsyncWriteSome(i, frame, queue) ==
    IF TriedAtOnce
    THEN Take(Part(i, frame), frame, queue) /\ UNCHANGED waiting
    ELSE /\ frames' = Updated(i, frame)
         /\ waiting' = Append(waiting, i)
         /\ completed' = queue /\ UNCHANGED <<wire, put>>

Paced(frame) ==
    /\ pacing = "alone" => \A i \in DOMAIN frames : Taken(i)
    /\ pacing = "roomy" =>
         Total(frame) <= Room /\ Total(frame) <= ChunkSize /\ HeaderFits(frame)

(* WebSocket::write of a handler. *)
Write(layout) ==
    LET frame == [built |-> layout.built, size |-> layout.size, taken |-> 0] IN
    /\ Len(frames) < MaxFrames
    /\ Paced(frame)
    /\ AsyncWriteSome(Len(frames) + 1, frame, completed)
    /\ UNCHANGED <<pacing, ended, page>>

(* The handler that wrote returns: its frames and what they point to die.   *)
HandlerEnds ==
    /\ ended < Len(frames)
    /\ ended' = Len(frames)
    /\ UNCHANGED <<pacing, frames, asio, page>>

Idle == ended = Len(frames)

(* Mutants of GoOn: a rest is written from the start of the frame; it is    *)
(* forgotten, as it would be by async_write_some in place of async_write.   *)
GoOnFromStart(i) == AsyncWriteSome(i, [frames[i] EXCEPT !.taken = 0], Tail(completed))

GoOnForgotten(i) ==
    completed' = Tail(completed) /\ UNCHANGED <<frames, waiting, wire, put>>

(* async_write's own handler, after a part: the rest.                       *)
GoOn(i) == AsyncWriteSome(i, frames[i], Tail(completed))

WriteGoesOn ==
    /\ Idle /\ completed # <<>>
    /\ ~Taken(Head(completed))
    /\ GoOn(Head(completed))
    /\ UNCHANGED <<pacing, ended, page>>

(* writeData's handler: without an error it does nothing.                   *)
WriteEnds ==
    /\ Idle /\ completed # <<>>
    /\ Taken(Head(completed))
    /\ completed' = Tail(completed)
    /\ UNCHANGED <<pacing, frames, ended, waiting, wire, put, page>>

(* The reactor finds the socket writable: the oldest write that waits.      *)
Writable ==
    /\ Idle /\ waiting # <<>> /\ Room > 0
    /\ LET i == Head(waiting) IN Take(Part(i, frames[i]), frames[i], completed)
    /\ waiting' = Tail(waiting)
    /\ UNCHANGED <<pacing, ended, page>>

(* The page reads n bytes, or what there is of a part.                      *)
PageReads(n) ==
    /\ seen < Len(wire)
    /\ LET end == wire[seen + 1].at + wire[seen + 1].size IN
       /\ got' = Least({got + n, end})
       /\ seen' = IF got' = end THEN seen + 1 ELSE seen
    /\ UNCHANGED <<pacing, frames, ended, asio>>

PageReadsSome == \E n \in ReadSizes : PageReads(n)

Next ==
    \/ \E layout \in FrameLayouts : Write(layout)
    \/ HandlerEnds \/ WriteGoesOn \/ WriteEnds \/ Writable
    \/ PageReadsSome

Spec == Init /\ [][Next]_vars

(* The thread of the io_context runs handlers and its reactor; the page     *)
(* reads.                                                                   *)
FairSpec ==
    /\ Spec
    /\ WF_vars(HandlerEnds) /\ WF_vars(WriteGoesOn \/ WriteEnds)
    /\ WF_vars(Writable) /\ WF_vars(PageReadsSome)

-------------------------------------------------------------------------------
Frames == [built : Nat, size : Nat, taken : Nat]
Parts == [frame : Nat \ {0}, from : Nat, at : Nat, size : Nat \ {0}, live : BOOLEAN]

TypeOK ==
    /\ pacing \in Pacings
    /\ frames \in Seq(Frames)
    /\ ended \in 0..Len(frames)
    /\ waiting \in Seq(1..Len(frames)) /\ completed \in Seq(1..Len(frames))
    /\ wire \in Seq(Parts)
    /\ put \in Nat /\ got \in 0..put /\ put - got <= SocketBuffer
    /\ seen \in 0..Len(wire)

(* A frame that the socket has not taken whole has exactly one operation,   *)
(* waiting or completed: no rest is forgotten and none is written twice.    *)
Distinct(queue) == \A k, l \in DOMAIN queue : queue[k] = queue[l] => k = l

Holds(queue, i) == \E k \in DOMAIN queue : queue[k] = i

OneOperation ==
    /\ Distinct(waiting) /\ Distinct(completed)
    /\ \A i \in DOMAIN frames : ~(Holds(waiting, i) /\ Holds(completed, i))
    /\ \A i \in DOMAIN frames : ~Taken(i) => Holds(waiting, i) \/ Holds(completed, i)
    /\ \A i \in DOMAIN frames : Holds(waiting, i) => ~Taken(i)

(* A stream is made of frames if each part goes on with the frame of the    *)
(* part before it, or with the next frame when that one was whole.          *)
Continues(part, next) ==
    \/ next.frame = part.frame /\ next.from = EndOf(part)
    \/ /\ next.frame = part.frame + 1 /\ next.from = 0
       /\ EndOf(part) = Total(frames[part.frame])

(* Handlers that write only when all before has been taken keep frames      *)
(* whole on the wire, however the socket cuts them.                         *)
AloneStaysWhole ==
    pacing \in {"alone", "roomy"} =>
        /\ wire # <<>> => wire[1].frame = 1 /\ wire[1].from = 0
        /\ \A j \in 1..(Len(wire) - 1) : Continues(wire[j], wire[j + 1])

(* What the page makes of a part: a frame, if it is one, read while alive.  *)
Whole(part) ==
    /\ part.from = 0 /\ part.size = Total(frames[part.frame])
    /\ part.live /\ HeaderFits(frames[part.frame])

Broken == [number |-> 0, size |-> 0]
Payload(i) == [number |-> i, size |-> frames[i].size]

Watched(payloads) == IF pacing = "roomy" THEN payloads ELSE <<>>

sentPayloads == [i \in DOMAIN frames |-> Payload(i)]
readPayloads ==
    [j \in 1..seen |-> IF Whole(wire[j]) THEN Payload(wire[j].frame) ELSE Broken]

Channel == INSTANCE FrameChannel WITH
    sent <- Watched(sentPayloads), received <- Watched(readPayloads)

(* With room for each frame, and headers of the size that was laid out, the *)
(* page receives the frames whole, once, in order and from living buffers:  *)
(* the writing half implements FrameChannel, too.                           *)
ImplementsChannel == Channel!Spec

(* Whoever else writes, every frame is taken whole in the end if the page   *)
(* reads: the writes do not starve one another.                             *)
EveryFrameTaken ==
    \A i \in 1..MaxFrames : Len(frames) >= i ~> (Len(frames) >= i /\ Taken(i))

(* "A Frame decoded should retrieve the encoded parameters"                 *)
(* (test/MessagesTests.cpp:115): whatever is on the wire belongs to a frame  *)
(* with the header that its length asks for.                                *)
FramesDecode == \A j \in DOMAIN wire : HeaderFits(frames[wire[j].frame])
===============================================================================
