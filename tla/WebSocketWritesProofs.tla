------------------------- MODULE WebSocketWritesProofs -------------------------
(***************************************************************************)
(* Theorems about WebSocketWrites, for every set of frame layouts, every    *)
(* socket buffer, chunk size and pair of length limits.                     *)
(***************************************************************************)
EXTENDS WebSocketWrites, TLAPS

(* What a sequence, its extension by one element and its tail are made of. *)
LEMMA SeqFacts ==
    ASSUME NEW S, NEW s \in Seq(S)
    PROVE  DOMAIN s = 1..Len(s) /\ Len(s) \in Nat /\ \A i \in DOMAIN s : s[i] \in S
OBVIOUS

LEMMA AppendFacts ==
    ASSUME NEW S, NEW s \in Seq(S), NEW e \in S
    PROVE  /\ Append(s, e) \in Seq(S)
           /\ Len(Append(s, e)) = Len(s) + 1
           /\ DOMAIN Append(s, e) = 1..(Len(s) + 1)
           /\ \A i \in DOMAIN s : Append(s, e)[i] = s[i]
           /\ Append(s, e)[Len(s) + 1] = e
OBVIOUS

LEMMA TailFacts ==
    ASSUME NEW S, NEW s \in Seq(S), s # <<>>
    PROVE  /\ Head(s) = s[1] /\ Head(s) \in S
           /\ Tail(s) \in Seq(S)
           /\ Len(Tail(s)) = Len(s) - 1
           /\ DOMAIN Tail(s) = 1..(Len(s) - 1)
           /\ \A i \in 1..(Len(s) - 1) : Tail(s)[i] = s[i + 1]
OBVIOUS

LEMMA LeastMember ==
    ASSUME NEW S, NEW m \in S, \A b \in S : m <= b
    PROVE  Least(S) \in S /\ \A b \in S : Least(S) <= b
BY DEF Least

LEMMA LeastOfTwo ==
    ASSUME NEW a \in Int, NEW b \in Int
    PROVE  Least({a, b}) \in {a, b} /\ Least({a, b}) <= a /\ Least({a, b}) <= b
<1>1. \E m \in {a, b} : \A x \in {a, b} : m <= x
    OBVIOUS
<1> QED
    BY <1>1, LeastMember

LEMMA LeastOfThree ==
    ASSUME NEW a \in Int, NEW b \in Int, NEW c \in Int
    PROVE  /\ Least({a, b, c}) \in {a, b, c}
           /\ Least({a, b, c}) <= a /\ Least({a, b, c}) <= b /\ Least({a, b, c}) <= c
<1>1. \E m \in {a, b, c} : \A x \in {a, b, c} : m <= x
    OBVIOUS
<1> QED
    BY <1>1, LeastMember

LEMMA TotalType ==
    ASSUME NEW frame, frame.built \in Nat, frame.size \in Nat
    PROVE  Total(frame) \in Nat /\ Total(frame) >= 2
BY DEF Total, HeaderSize

(* The queues of a type outlive the growth of the frames they number. *)
LEMMA SeqMonotone ==
    ASSUME NEW m \in Nat, NEW n \in Nat, m <= n, NEW s \in Seq(1..m)
    PROVE  s \in Seq(1..n)
OBVIOUS

LEMMA UpdatedFacts ==
    ASSUME frames \in Seq(Frames), NEW i \in 1..(Len(frames) + 1), NEW frame \in Frames
    PROVE  /\ Updated(i, frame) \in Seq(Frames)
           /\ Len(Updated(i, frame)) = IF i = Len(frames) + 1 THEN i ELSE Len(frames)
           /\ DOMAIN Updated(i, frame) = DOMAIN frames \cup {i}
           /\ Updated(i, frame)[i] = frame
           /\ \A k \in DOMAIN frames : k # i => Updated(i, frame)[k] = frames[k]
<1>1. CASE i = Len(frames) + 1
    BY <1>1, AppendFacts, SeqFacts DEF Updated
<1>2. CASE i # Len(frames) + 1
    <2> DEFINE u == [frames EXCEPT ![i] = frame]
    <2>1. /\ Len(frames) \in Nat /\ DOMAIN frames = 1..Len(frames) /\ i \in DOMAIN frames
          /\ frames \in [1..Len(frames) -> Frames]
        BY <1>2, SeqFacts
    <2>2. u \in [1..Len(frames) -> Frames]
        BY <2>1
    <2>3. u \in Seq(Frames) /\ Len(u) = Len(frames) /\ DOMAIN u = DOMAIN frames
        BY <2>1, <2>2
    <2>4. Updated(i, frame) = u
        BY <1>2 DEF Updated
    <2> QED
        BY <1>2, <2>1, <2>3, <2>4
<1> QED
    BY <1>1, <1>2

(* Queues of frame numbers. *)
LEMMA QueuePlus ==
    ASSUME NEW S, NEW s \in Seq(S), Distinct(s), NEW i \in S, ~Holds(s, i)
    PROVE  /\ Distinct(Append(s, i))
           /\ \A k : Holds(Append(s, i), k) <=> Holds(s, k) \/ k = i
<1>1. /\ DOMAIN s = 1..Len(s) /\ Len(s) \in Nat
      /\ DOMAIN Append(s, i) = 1..(Len(s) + 1)
      /\ \A k \in DOMAIN s : Append(s, i)[k] = s[k]
      /\ Append(s, i)[Len(s) + 1] = i
    BY AppendFacts, SeqFacts
<1>2. Distinct(Append(s, i))
    BY <1>1 DEF Distinct, Holds
<1>3. ASSUME NEW k PROVE Holds(Append(s, i), k) <=> Holds(s, k) \/ k = i
    BY <1>1 DEF Holds
<1> QED
    BY <1>2, <1>3

LEMMA QueueTail ==
    ASSUME NEW S, NEW s \in Seq(S), Distinct(s), s # <<>>
    PROVE  /\ Distinct(Tail(s))
           /\ Holds(s, Head(s))
           /\ \A k : Holds(Tail(s), k) <=> Holds(s, k) /\ k # Head(s)
<1>1. /\ DOMAIN s = 1..Len(s) /\ Len(s) \in Nat /\ Len(s) > 0
      /\ DOMAIN Tail(s) = 1..(Len(s) - 1) /\ Head(s) = s[1]
      /\ \A i \in 1..(Len(s) - 1) : Tail(s)[i] = s[i + 1]
    BY TailFacts, SeqFacts
<1>2. Distinct(Tail(s))
    BY <1>1 DEF Distinct
<1>3. Holds(s, Head(s))
    BY <1>1 DEF Holds
<1>4. ASSUME NEW k, Holds(Tail(s), k) PROVE Holds(s, k) /\ k # Head(s)
    <2>1. PICK i \in 1..(Len(s) - 1) : Tail(s)[i] = k
        BY <1>1, <1>4 DEF Holds
    <2>2. i + 1 \in DOMAIN s /\ s[i + 1] = k /\ i + 1 # 1
        BY <1>1, <2>1
    <2> QED
        BY <1>1, <2>2 DEF Holds, Distinct
<1>5. ASSUME NEW k, Holds(s, k), k # Head(s) PROVE Holds(Tail(s), k)
    <2>1. PICK i \in DOMAIN s : s[i] = k
        BY <1>5 DEF Holds
    <2>2. i - 1 \in 1..(Len(s) - 1) /\ Tail(s)[i - 1] = s[(i - 1) + 1] /\ (i - 1) + 1 = i
        BY <1>1, <1>5, <2>1
    <2> QED
        BY <1>1, <2>1, <2>2 DEF Holds
<1> QED
    BY <1>2, <1>3, <1>4, <1>5

-------------------------------------------------------------------------------
(* The parts on the wire account for what was taken of every frame, and the *)
(* page reads between the start of a part and its end.                      *)
TakenInv == \A i \in DOMAIN frames : frames[i].taken <= Total(frames[i])

(* async_write goes on where the part before ended.                         *)
PartsFollow ==
    /\ \A j \in DOMAIN wire : wire[j].from > 0 =>
         \E k \in 1..(j - 1) : /\ wire[k].frame = wire[j].frame
                               /\ EndOf(wire[k]) = wire[j].from
    /\ \A j, k \in DOMAIN wire :
         k < j /\ wire[k].frame = wire[j].frame => EndOf(wire[k]) <= wire[j].from
    /\ \A j \in DOMAIN wire : EndOf(wire[j]) <= frames[wire[j].frame].taken

WireInv ==
    /\ \A j \in DOMAIN wire : wire[j].frame \in DOMAIN frames
    /\ PartsFollow
    /\ \A i \in DOMAIN frames : frames[i].taken > 0 =>
         \E j \in DOMAIN wire : wire[j].frame = i /\ EndOf(wire[j]) = frames[i].taken

PageInv ==
    /\ \A j \in DOMAIN wire : wire[j].at + wire[j].size <= put
    /\ \A j \in 1..(Len(wire) - 1) : wire[j + 1].at = wire[j].at + wire[j].size
    /\ wire # <<>> => wire[Len(wire)].at + wire[Len(wire)].size = put
    /\ seen < Len(wire) => got <= wire[seen + 1].at + wire[seen + 1].size

Inv == TypeOK /\ TakenInv /\ OneOperation /\ WireInv /\ PageInv

LEMMA FrameTypes ==
    ASSUME TypeOK
    PROVE  \A i \in DOMAIN frames :
             /\ frames[i] \in Frames
             /\ frames[i].built \in Nat /\ frames[i].size \in Nat /\ frames[i].taken \in Nat
             /\ Total(frames[i]) \in Nat /\ Total(frames[i]) >= 2
<1>1. \A i \in DOMAIN frames : frames[i] \in Frames
    BY SeqFacts DEF TypeOK
<1> QED
    BY <1>1, TotalType DEF Frames

LEMMA PartTypes ==
    ASSUME TypeOK
    PROVE  \A j \in DOMAIN wire :
             /\ wire[j] \in Parts
             /\ wire[j].frame \in Nat /\ wire[j].from \in Nat /\ wire[j].at \in Nat
             /\ wire[j].size \in Nat /\ wire[j].size > 0
<1>1. \A j \in DOMAIN wire : wire[j] \in Parts
    BY SeqFacts DEF TypeOK
<1> QED
    BY <1>1 DEF Parts

(* A part of a frame that is not taken yet, by a socket that has room. *)
LEMMA PartFacts ==
    ASSUME TypeOK, NEW i \in 1..(Len(frames) + 1), NEW frame \in Frames,
           frame.taken < Total(frame), Room > 0
    PROVE  /\ Part(i, frame) \in Parts /\ Part(i, frame).frame = i
           /\ Part(i, frame).from = frame.taken /\ Part(i, frame).at = put
           /\ Part(i, frame).size \in Nat /\ Part(i, frame).size > 0
           /\ Part(i, frame).size <= Room
           /\ EndOf(Part(i, frame)) = frame.taken + Part(i, frame).size
           /\ EndOf(Part(i, frame)) \in Nat /\ EndOf(Part(i, frame)) > 0
           /\ EndOf(Part(i, frame)) <= Total(frame)
<1> USE ConstantsAssumption
<1> DEFINE rest == Total(frame) - frame.taken
           part == Part(i, frame)
<1>1. frame.taken \in Nat /\ frame.built \in Nat /\ frame.size \in Nat
    BY DEF Frames
<1>2. Total(frame) \in Nat /\ rest \in Nat /\ rest > 0
    BY <1>1, TotalType
<1> HIDE DEF rest
<1>3. Room \in Int /\ ChunkSize \in Nat /\ ChunkSize > 0 /\ put \in Nat /\ Len(frames) \in Nat
    BY SeqFacts DEF TypeOK, Room
<1>4. /\ Least({rest, Room, ChunkSize}) \in {rest, Room, ChunkSize}
      /\ Least({rest, Room, ChunkSize}) <= rest
      /\ Least({rest, Room, ChunkSize}) <= Room
    <2>1. rest \in Int /\ Room \in Int /\ ChunkSize \in Int
        BY <1>2, <1>3
    <2> QED
        BY <2>1, LeastOfThree, Zenon
<1>5. /\ part.frame = i /\ part.from = frame.taken /\ part.at = put
      /\ part.live \in BOOLEAN /\ part.size = Least({rest, Room, ChunkSize})
    BY DEF Part, rest
<1>6. part.size \in Nat /\ part.size > 0 /\ part.size <= Room /\ part.size <= rest
    BY <1>2, <1>3, <1>4, <1>5
<1>7. part \in Parts
    <2>1. part = [frame |-> part.frame, from |-> part.from, at |-> part.at,
                  live |-> part.live, size |-> part.size]
        BY DEF Part
    <2> QED
        BY <1>1, <1>3, <1>5, <1>6, <2>1 DEF Parts
<1> HIDE DEF part
<1>8. EndOf(part) = frame.taken + part.size
    BY <1>5 DEF EndOf
<1> QED
    BY <1>1, <1>2, <1>5, <1>6, <1>7, <1>8 DEF part, rest

-------------------------------------------------------------------------------
(* The operation of frame i, old or new, that a step performs. *)
Current(i, frame) ==
    /\ i \in 1..(Len(frames) + 1) /\ frame \in Frames
    /\ frame.taken < Total(frame)
    /\ IF i = Len(frames) + 1 THEN frame.taken = 0 ELSE frame = frames[i]

(* What a part that the socket takes does to frames and wire. *)
LEMMA TakeStep ==
    ASSUME Inv, NEW i, NEW frame, Current(i, frame), Room > 0,
           NEW queue, Take(Part(i, frame), frame, queue), UNCHANGED page
    PROVE  /\ frames' \in Seq(Frames) /\ Len(frames) <= Len(frames')
           /\ Len(frames') = IF i = Len(frames) + 1 THEN i ELSE Len(frames)
           /\ DOMAIN frames' = DOMAIN frames \cup {i}
           /\ frames'[i].built = frame.built /\ frames'[i].size = frame.size
           /\ frames'[i].taken = EndOf(Part(i, frame))
           /\ \A k \in DOMAIN frames : k # i => frames'[k] = frames[k]
           /\ wire' \in Seq(Parts) /\ put' \in Nat /\ put' - got <= SocketBuffer /\ put <= put'
           /\ Len(wire') = Len(wire) + 1
           /\ TakenInv' /\ WireInv' /\ PageInv'
<1> DEFINE part == Part(i, frame)
           taken == [frame EXCEPT !.taken = EndOf(part)]
<1>1. /\ TypeOK /\ i \in 1..(Len(frames) + 1) /\ frame \in Frames
      /\ frame.built \in Nat /\ frame.size \in Nat /\ frame.taken \in Nat
      /\ frame.taken < Total(frame)
      /\ Len(frames) \in Nat /\ DOMAIN frames = 1..Len(frames)
    BY SeqFacts DEF Inv, Current, Frames, TypeOK
<1>2. /\ part \in Parts /\ part.frame = i /\ part.from = frame.taken /\ part.at = put
      /\ part.size \in Nat /\ part.size > 0 /\ part.size <= Room
      /\ EndOf(part) = frame.taken + part.size
      /\ EndOf(part) \in Nat /\ EndOf(part) > 0 /\ EndOf(part) <= Total(frame)
    BY <1>1, PartFacts
<1> HIDE DEF part
<1>3. /\ taken \in Frames /\ taken.built = frame.built /\ taken.size = frame.size
      /\ taken.taken = EndOf(part)
    BY <1>1, <1>2 DEF Frames
<1> HIDE DEF taken
<1>4. /\ frames' = Updated(i, taken) /\ wire' = Append(wire, part) /\ put' = put + part.size
    BY <1>2 DEF Take, part, taken
<1>5. /\ frames' \in Seq(Frames)
      /\ Len(frames') = IF i = Len(frames) + 1 THEN i ELSE Len(frames)
      /\ DOMAIN frames' = DOMAIN frames \cup {i}
      /\ frames'[i] = taken
      /\ \A k \in DOMAIN frames : k # i => frames'[k] = frames[k]
    BY <1>1, <1>3, <1>4, UpdatedFacts DEF TypeOK
<1>6. /\ wire' \in Seq(Parts) /\ Len(wire') = Len(wire) + 1
      /\ DOMAIN wire' = 1..(Len(wire) + 1)
      /\ \A j \in DOMAIN wire : wire'[j] = wire[j]
      /\ wire'[Len(wire) + 1] = part
      /\ DOMAIN wire = 1..Len(wire) /\ Len(wire) \in Nat
    <2>1. wire \in Seq(Parts) /\ part \in Parts
        BY <1>1, <1>2 DEF TypeOK
    <2>2. /\ Append(wire, part) \in Seq(Parts)
          /\ Len(Append(wire, part)) = Len(wire) + 1
          /\ DOMAIN Append(wire, part) = 1..(Len(wire) + 1)
          /\ \A j \in DOMAIN wire : Append(wire, part)[j] = wire[j]
          /\ Append(wire, part)[Len(wire) + 1] = part
        BY <2>1, AppendFacts, Zenon
    <2>3. DOMAIN wire = 1..Len(wire) /\ Len(wire) \in Nat
        BY <2>1, SeqFacts, Zenon
    <2>4. wire' = Append(wire, part)
        BY <1>4
    <2> QED
        BY <2>2, <2>3, <2>4
<1>7. /\ put \in Nat /\ got \in Nat /\ put' \in Nat /\ put' - got <= SocketBuffer /\ put <= put'
      /\ SocketBuffer \in Nat
    <2>1. put \in Nat /\ got \in 0..put
        BY <1>1 DEF TypeOK
    <2> QED
        BY <1>2, <1>4, <2>1, ConstantsAssumption DEF Room
<1>8. \A j \in DOMAIN wire :
         /\ wire[j].frame \in DOMAIN frames
         /\ wire[j].from \in Nat /\ wire[j].at \in Nat /\ wire[j].size \in Nat
         /\ EndOf(wire[j]) \in Nat
         /\ EndOf(wire[j]) <= frames[wire[j].frame].taken
    BY <1>1, PartTypes DEF Inv, WireInv, PartsFollow, EndOf
<1>9. TakenInv'
    <2>1. ASSUME NEW k \in DOMAIN frames' PROVE frames'[k].taken <= Total(frames'[k])
        <3>1. CASE k = i
            BY <1>2, <1>3, <1>5, <3>1 DEF Total
        <3>2. CASE k # i
            BY <1>5, <3>2 DEF Inv, TakenInv, Total
        <3> QED
            BY <3>1, <3>2
    <2> QED
        BY <2>1 DEF TakenInv, Total
<1>10. \A j \in DOMAIN wire : EndOf(wire[j]) <= frames'[wire[j].frame].taken
    <2> TAKE j \in DOMAIN wire
    <2>1. CASE wire[j].frame = i
        <3>1. i \in DOMAIN frames /\ frame = frames[i]
            BY <1>1, <1>8, <2>1 DEF Current
        <3>2. EndOf(wire[j]) <= frame.taken
            BY <1>8, <2>1, <3>1
        <3> QED
            BY <1>1, <1>2, <1>3, <1>5, <1>8, <2>1, <3>2
    <2>2. CASE wire[j].frame # i
        BY <1>5, <1>8, <2>2
    <2> QED
        BY <2>1, <2>2
<1>11. PartsFollow'
    <2>1. ASSUME NEW j \in DOMAIN wire', wire'[j].from > 0
          PROVE  \E k \in 1..(j - 1) : /\ wire'[k].frame = wire'[j].frame
                                        /\ EndOf(wire'[k]) = wire'[j].from
        <3>1. CASE j \in DOMAIN wire
            <4>1. PICK k \in 1..(j - 1) : wire[k].frame = wire[j].frame /\ EndOf(wire[k]) = wire[j].from
                BY <1>6, <2>1, <3>1 DEF Inv, WireInv, PartsFollow
            <4>2. k \in DOMAIN wire
                BY <1>6, <3>1
            <4> QED
                BY <1>6, <3>1, <4>1, <4>2
        <3>2. CASE j = Len(wire) + 1
            <4>1. frame.taken > 0 /\ i \in DOMAIN frames /\ frame = frames[i]
                BY <1>1, <1>2, <1>6, <2>1, <3>2 DEF Current
            <4>2. PICK k \in DOMAIN wire : wire[k].frame = i /\ EndOf(wire[k]) = frames[i].taken
                BY <4>1 DEF Inv, WireInv
            <4>3. k \in 1..(j - 1)
                BY <1>6, <3>2
            <4> QED
                BY <1>2, <1>6, <3>2, <4>1, <4>2, <4>3
        <3> QED
            BY <1>6, <3>1, <3>2
    <2>2. ASSUME NEW j \in DOMAIN wire', NEW k \in DOMAIN wire',
                 k < j, wire'[k].frame = wire'[j].frame
          PROVE  EndOf(wire'[k]) <= wire'[j].from
        <3>1. k \in DOMAIN wire /\ wire'[k] = wire[k]
            BY <1>6, <2>2
        <3>2. CASE j \in DOMAIN wire
            BY <1>6, <2>2, <3>1, <3>2 DEF Inv, WireInv, PartsFollow
        <3>3. CASE j = Len(wire) + 1
            <4>1. wire[k].frame = i /\ wire'[j].from = frame.taken
                BY <1>2, <1>6, <2>2, <3>1, <3>3
            <4>2. frame = frames[i]
                BY <1>1, <1>8, <3>1, <4>1 DEF Current
            <4> QED
                BY <1>8, <3>1, <4>1, <4>2
        <3> QED
            BY <1>6, <3>2, <3>3
    <2>3. ASSUME NEW j \in DOMAIN wire' PROVE EndOf(wire'[j]) <= frames'[wire'[j].frame].taken
        <3>1. CASE j \in DOMAIN wire
            BY <1>6, <1>10, <3>1
        <3>2. CASE j = Len(wire) + 1
            BY <1>2, <1>3, <1>5, <1>6, <3>2
        <3> QED
            BY <1>6, <3>1, <3>2
    <2> QED
        BY <2>1, <2>2, <2>3 DEF PartsFollow, EndOf
<1>12. WireInv'
    <2>1. \A j \in DOMAIN wire' : wire'[j].frame \in DOMAIN frames'
        BY <1>2, <1>5, <1>6, <1>8
    <2>2. ASSUME NEW k \in DOMAIN frames', frames'[k].taken > 0
          PROVE  \E j \in DOMAIN wire' : wire'[j].frame = k /\ EndOf(wire'[j]) = frames'[k].taken
        <3>1. CASE k = i
            <4>1. Len(wire) + 1 \in DOMAIN wire'
                BY <1>6
            <4> QED
                BY <1>2, <1>3, <1>5, <1>6, <3>1, <4>1
        <3>2. CASE k # i
            <4>1. k \in DOMAIN frames /\ frames'[k] = frames[k]
                BY <1>5, <3>2
            <4>2. PICK j \in DOMAIN wire : wire[j].frame = k /\ EndOf(wire[j]) = frames[k].taken
                BY <2>2, <4>1 DEF Inv, WireInv
            <4>3. j \in DOMAIN wire' /\ wire'[j] = wire[j]
                BY <1>6
            <4> QED
                BY <4>1, <4>2, <4>3
        <3> QED
            BY <3>1, <3>2
    <2> QED
        BY <1>11, <2>1, <2>2 DEF WireInv, EndOf
<1>13. PageInv'
    <2>1. seen' = seen /\ got' = got /\ seen \in 0..Len(wire) /\ got <= put
        BY <1>1 DEF page, TypeOK
    <2>2. \A j \in DOMAIN wire' : wire'[j].at + wire'[j].size <= put'
        <3>1. \A j \in DOMAIN wire : wire[j].at + wire[j].size <= put
            BY DEF Inv, PageInv
        <3> TAKE j \in DOMAIN wire'
        <3>2. CASE j \in DOMAIN wire
            <4>1. wire[j].at + wire[j].size \in Nat
                BY <1>8, <3>2
            <4>2. wire[j].at + wire[j].size <= put
                BY <3>1, <3>2
            <4> QED
                BY <1>6, <1>7, <3>2, <4>1, <4>2
        <3>3. CASE j = Len(wire) + 1
            BY <1>2, <1>4, <1>6, <1>7, <3>3
        <3> QED
            BY <1>6, <3>2, <3>3
    <2>3. \A j \in 1..(Len(wire') - 1) : wire'[j + 1].at = wire'[j].at + wire'[j].size
        <3> TAKE j \in 1..(Len(wire') - 1)
        <3>1. j \in DOMAIN wire /\ wire'[j] = wire[j]
            BY <1>6
        <3>2. CASE j < Len(wire)
            <4>1. j \in 1..(Len(wire) - 1) /\ j + 1 \in DOMAIN wire
                BY <1>6, <3>1, <3>2
            <4>2. wire[j + 1].at = wire[j].at + wire[j].size
                BY <4>1 DEF Inv, PageInv
            <4> QED
                BY <1>6, <3>1, <4>1, <4>2
        <3>3. CASE j = Len(wire)
            <4>1. wire[j].at + wire[j].size = put
                BY <1>6, <3>1, <3>3 DEF Inv, PageInv
            <4> QED
                BY <1>2, <1>6, <3>1, <3>3, <4>1
        <3> QED
            BY <1>6, <3>1, <3>2, <3>3
    <2>4. wire'[Len(wire')].at + wire'[Len(wire')].size = put'
        BY <1>2, <1>4, <1>6
    <2>5. seen' < Len(wire') => got' <= wire'[seen' + 1].at + wire'[seen' + 1].size
        <3>1. CASE seen < Len(wire)
            BY <1>6, <2>1, <3>1 DEF Inv, PageInv
        <3>2. CASE seen = Len(wire)
            BY <1>2, <1>6, <1>7, <2>1, <3>2
        <3>3. seen \in 0..Len(wire) /\ Len(wire) \in Nat
            BY <1>6, <2>1
        <3> QED
            BY <3>1, <3>2, <3>3
    <2> QED
        BY <2>2, <2>3, <2>4, <2>5 DEF PageInv
<1> QED
    <2>1. frames'[i].built = frame.built /\ frames'[i].size = frame.size /\ frames'[i].taken = EndOf(part)
        BY <1>3, <1>5
    <2>2. Len(frames) <= Len(frames')
        BY <1>1, <1>5
    <2> QED
        BY <1>5, <1>6, <1>7, <1>9, <1>12, <1>13, <2>1, <2>2 DEF part

(* What a step of frame i's operation may do to the queues. *)
LEMMA OperationStep ==
    ASSUME OneOperation, NEW i, DOMAIN frames' = DOMAIN frames \cup {i},
           \A k \in DOMAIN frames : k # i => frames'[k] = frames[k],
           Distinct(waiting'), Distinct(completed'),
           \A k : k # i => (Holds(waiting', k) <=> Holds(waiting, k)),
           \A k : k # i => (Holds(completed', k) <=> Holds(completed, k)),
           \/ /\ Holds(waiting', i) /\ ~Holds(completed', i)
              /\ frames'[i].taken # Total(frames'[i])
           \/ Holds(completed', i) /\ ~Holds(waiting', i)
    PROVE  OneOperation'
<1>1. ASSUME NEW k \in DOMAIN frames'
      PROVE  /\ ~(Holds(waiting', k) /\ Holds(completed', k))
             /\ frames'[k].taken # Total(frames'[k]) => Holds(waiting', k) \/ Holds(completed', k)
             /\ Holds(waiting', k) => frames'[k].taken # Total(frames'[k])
    <2>1. CASE k = i
        BY <2>1
    <2>2. CASE k # i
        <3>1. k \in DOMAIN frames /\ frames'[k] = frames[k]
            BY <2>2
        <3> QED
            BY <2>2, <3>1 DEF OneOperation, Taken
    <2> QED
        BY <2>1, <2>2
<1>2. ASSUME NEW k \in DOMAIN frames'
      PROVE  Taken(k)' <=> frames'[k].taken = Total(frames'[k])
    BY DEF Taken, Total
<1>3. Distinct(waiting)' /\ Distinct(completed)'
    BY DEF Distinct
<1>4. \A k : (Holds(waiting, k)' <=> Holds(waiting', k)) /\ (Holds(completed, k)' <=> Holds(completed', k))
    BY DEF Holds
<1> QED
    BY <1>1, <1>2, <1>3, <1>4 DEF OneOperation

(* async_write_some keeps the invariant if the frame has no operation. *)
LEMMA AsyncStep ==
    ASSUME Inv, NEW i, NEW frame, Current(i, frame),
           NEW queue \in Seq(1..Len(frames)), Distinct(queue),
           ~Holds(queue, i), ~Holds(waiting, i),
           \A k : k # i => (Holds(queue, k) <=> Holds(completed, k)),
           AsyncWriteSome(i, frame, queue), UNCHANGED <<pacing, ended>>, UNCHANGED page
    PROVE  Inv'
<1>1. /\ TypeOK /\ i \in 1..(Len(frames) + 1) /\ frame \in Frames
      /\ frame.taken < Total(frame) /\ frame.taken \in Nat /\ Total(frame) \in Nat
      /\ Len(frames) \in Nat /\ DOMAIN frames = 1..Len(frames)
    BY SeqFacts, TotalType DEF Inv, Current, Frames, TypeOK
<1>2. waiting \in Seq(1..Len(frames)) /\ Distinct(waiting) /\ ended \in 0..Len(frames)
    BY DEF Inv, TypeOK, OneOperation
<1>3. CASE TriedAtOnce
    <2>1. Take(Part(i, frame), frame, queue) /\ waiting' = waiting /\ Room > 0
        BY <1>3 DEF AsyncWriteSome, TriedAtOnce
    <2>2. /\ frames' \in Seq(Frames) /\ Len(frames) <= Len(frames')
          /\ Len(frames') = IF i = Len(frames) + 1 THEN i ELSE Len(frames)
          /\ DOMAIN frames' = DOMAIN frames \cup {i}
          /\ \A k \in DOMAIN frames : k # i => frames'[k] = frames[k]
          /\ wire' \in Seq(Parts) /\ put' \in Nat /\ put' - got <= SocketBuffer /\ put <= put'
          /\ Len(wire') = Len(wire) + 1
          /\ TakenInv' /\ WireInv' /\ PageInv'
        BY <2>1, TakeStep
    <2>3. completed' = Append(queue, i)
        BY <1>1, <2>1, PartFacts DEF Take
    <2>4. /\ Len(frames') \in Nat /\ i \in 1..Len(frames')
          /\ queue \in Seq(1..Len(frames')) /\ waiting' \in Seq(1..Len(frames'))
        BY <1>1, <1>2, <2>1, <2>2, SeqMonotone
    <2>5. completed' \in Seq(1..Len(frames'))
        BY <2>3, <2>4, AppendFacts
    <2>6. Distinct(completed') /\ \A k : Holds(completed', k) <=> Holds(queue, k) \/ k = i
        BY <2>3, <2>4, QueuePlus
    <2>7. OneOperation'
        BY <1>2, <2>1, <2>2, <2>6, OperationStep DEF Inv
    <2>8. TypeOK'
        <3>1. got \in 0..put /\ seen \in 0..Len(wire) /\ put \in Nat /\ Len(wire) \in Nat /\ pacing \in Pacings
            BY <1>1, SeqFacts DEF TypeOK
        <3>2. got' \in 0..put' /\ seen' \in 0..Len(wire') /\ got' = got
            BY <2>2, <3>1 DEF page
        <3>3. ended' \in 0..Len(frames')
            BY <1>1, <1>2, <2>2, <2>4
        <3> QED
            BY <2>2, <2>4, <2>5, <3>1, <3>2, <3>3 DEF TypeOK
    <2> QED
        BY <2>2, <2>7, <2>8 DEF Inv
<1>4. CASE ~TriedAtOnce
    <2>1. /\ frames' = Updated(i, frame) /\ waiting' = Append(waiting, i)
          /\ completed' = queue /\ UNCHANGED <<wire, put>> /\ UNCHANGED <<seen, got>>
        BY <1>4 DEF AsyncWriteSome, page
    <2>2. /\ frames' \in Seq(Frames)
          /\ Len(frames') = IF i = Len(frames) + 1 THEN i ELSE Len(frames)
          /\ DOMAIN frames' = DOMAIN frames \cup {i} /\ frames'[i] = frame
          /\ \A k \in DOMAIN frames : k # i => frames'[k] = frames[k]
        <3>1. /\ frames \in Seq(Frames) /\ i \in 1..(Len(frames) + 1) /\ frame \in Frames
              /\ frames' = Updated(i, frame)
            BY <1>1, <2>1 DEF TypeOK
        <3> QED
            BY <3>1, UpdatedFacts
    <2>3. \A k \in DOMAIN frames : frames'[k] = frames[k]
        BY <1>1, <2>2 DEF Current
    <2>4. /\ Len(frames') \in Nat /\ i \in 1..Len(frames') /\ Len(frames) <= Len(frames')
          /\ waiting \in Seq(1..Len(frames')) /\ completed' \in Seq(1..Len(frames'))
        BY <1>1, <1>2, <2>1, <2>2, SeqMonotone
    <2>5. waiting' \in Seq(1..Len(frames'))
        BY <2>1, <2>4, AppendFacts
    <2>6. Distinct(waiting') /\ \A k : Holds(waiting', k) <=> Holds(waiting, k) \/ k = i
        BY <1>2, <2>1, <2>4, QueuePlus
    <2>7. OneOperation'
        BY <1>1, <2>1, <2>2, <2>6, OperationStep DEF Inv
    <2>8. TakenInv'
        <3>1. ASSUME NEW k \in DOMAIN frames' PROVE frames'[k].taken <= Total(frames'[k])
            BY <1>1, <2>2, <2>3 DEF Inv, TakenInv
        <3> QED
            BY <3>1 DEF TakenInv, Total
    <2>9. WireInv'
        <3>1. PartsFollow'
            BY <2>1, <2>3 DEF Inv, WireInv, PartsFollow, EndOf
        <3>2. ASSUME NEW k \in DOMAIN frames', frames'[k].taken > 0
              PROVE  \E j \in DOMAIN wire : wire[j].frame = k /\ EndOf(wire[j]) = frames'[k].taken
            <4>1. k \in DOMAIN frames
                BY <1>1, <2>2, <3>2 DEF Current
            <4> QED
                BY <2>3, <3>2, <4>1 DEF Inv, WireInv
        <3> QED
            BY <2>1, <2>2, <3>1, <3>2 DEF Inv, WireInv, EndOf
    <2>10. PageInv'
        BY <2>1 DEF Inv, PageInv
    <2>11. TypeOK'
        <3>1. ended' \in 0..Len(frames')
            BY <1>1, <1>2, <2>4
        <3> QED
            BY <1>1, <2>1, <2>2, <2>4, <2>5, <3>1 DEF TypeOK
    <2> QED
        BY <2>7, <2>8, <2>9, <2>10, <2>11 DEF Inv
<1> QED
    BY <1>3, <1>4

-------------------------------------------------------------------------------
LEMMA InitInv == Init => Inv
<1> SUFFICES ASSUME Init PROVE Inv
    OBVIOUS
<1>1. TypeOK
    BY ConstantsAssumption DEF Init, TypeOK, Pacings
<1> QED
    BY <1>1 DEF Init, Inv, TakenInv, OneOperation, Distinct, Holds, WireInv, PartsFollow, PageInv

LEMMA WriteInv ==
    ASSUME Inv, NEW layout \in FrameLayouts, Write(layout)
    PROVE  Inv'
<1> DEFINE frame == [built |-> layout.built, size |-> layout.size, taken |-> 0]
           i == Len(frames) + 1
<1>1. /\ frame \in Frames /\ frame.taken = 0
      /\ frame.built \in Nat /\ frame.size \in Nat
    BY ConstantsAssumption DEF Frames
<1>2. Total(frame) \in Nat /\ Total(frame) >= 2
    BY <1>1, TotalType
<1>3. /\ waiting \in Seq(1..Len(frames)) /\ completed \in Seq(1..Len(frames))
      /\ Len(frames) \in Nat
    BY SeqFacts DEF Inv, TypeOK
<1>4. Current(i, frame)
    BY <1>1, <1>2, <1>3 DEF Current
<1>5. ~Holds(waiting, i) /\ ~Holds(completed, i)
    BY <1>3, SeqFacts DEF Holds
<1>6. /\ AsyncWriteSome(i, frame, completed)
      /\ UNCHANGED <<pacing, ended>> /\ UNCHANGED page
    BY DEF Write
<1>7. Distinct(completed)
    BY DEF Inv, OneOperation
<1> HIDE DEF frame, i
<1> QED
    BY <1>3, <1>4, <1>5, <1>6, <1>7, AsyncStep

LEMMA GoesOnInv ==
    ASSUME Inv, WriteGoesOn
    PROVE  Inv'
<1> DEFINE i == Head(completed)
           queue == Tail(completed)
<1>1. completed \in Seq(1..Len(frames)) /\ completed # <<>> /\ Distinct(completed) /\ TypeOK
    BY DEF Inv, TypeOK, OneOperation, WriteGoesOn
<1>2. i \in 1..Len(frames) /\ queue \in Seq(1..Len(frames))
    BY <1>1, TailFacts
<1>3. /\ Distinct(queue) /\ Holds(completed, i)
      /\ \A k : Holds(queue, k) <=> Holds(completed, k) /\ k # i
    BY <1>1, QueueTail
<1>4. Len(frames) \in Nat /\ DOMAIN frames = 1..Len(frames) /\ i \in DOMAIN frames
    BY <1>1, <1>2, SeqFacts DEF TypeOK
<1>5. /\ frames[i] \in Frames /\ frames[i].taken \in Nat
      /\ Total(frames[i]) \in Nat /\ frames[i].taken <= Total(frames[i])
    BY <1>1, <1>4, FrameTypes DEF Inv, TakenInv
<1>6. ~Taken(i) /\ AsyncWriteSome(i, frames[i], queue)
      /\ UNCHANGED <<pacing, ended>> /\ UNCHANGED page
    BY DEF WriteGoesOn, GoOn
<1>7. Current(i, frames[i])
    BY <1>2, <1>4, <1>5, <1>6 DEF Current, Taken
<1>8. ~Holds(waiting, i)
    BY <1>3, <1>4 DEF Inv, OneOperation
<1> HIDE DEF i, queue
<1> QED
    BY <1>2, <1>3, <1>6, <1>7, <1>8, AsyncStep

LEMMA WritableInv ==
    ASSUME Inv, Writable
    PROVE  Inv'
<1> DEFINE i == Head(waiting)
<1>1. /\ waiting \in Seq(1..Len(frames)) /\ waiting # <<>> /\ Distinct(waiting) /\ TypeOK
      /\ completed \in Seq(1..Len(frames)) /\ Distinct(completed)
    BY DEF Inv, TypeOK, OneOperation, Writable
<1>2. i \in 1..Len(frames) /\ Tail(waiting) \in Seq(1..Len(frames))
    BY <1>1, TailFacts
<1>3. /\ Distinct(Tail(waiting)) /\ Holds(waiting, i)
      /\ \A k : Holds(Tail(waiting), k) <=> Holds(waiting, k) /\ k # i
    BY <1>1, QueueTail
<1>4. Len(frames) \in Nat /\ DOMAIN frames = 1..Len(frames) /\ i \in DOMAIN frames
    BY <1>1, <1>2, SeqFacts DEF TypeOK
<1>5. /\ frames[i] \in Frames /\ frames[i].taken \in Nat
      /\ Total(frames[i]) \in Nat /\ frames[i].taken <= Total(frames[i])
    BY <1>1, <1>4, FrameTypes DEF Inv, TakenInv
<1>6. /\ Take(Part(i, frames[i]), frames[i], completed) /\ waiting' = Tail(waiting)
      /\ Room > 0 /\ UNCHANGED <<pacing, ended>> /\ UNCHANGED page
    BY DEF Writable
<1>7. ~Taken(i) /\ ~Holds(completed, i)
    BY <1>3, <1>4 DEF Inv, OneOperation
<1>8. Current(i, frames[i])
    BY <1>2, <1>4, <1>5, <1>7 DEF Current, Taken
<1>9. /\ frames' \in Seq(Frames) /\ Len(frames') = Len(frames)
      /\ DOMAIN frames' = DOMAIN frames \cup {i}
      /\ \A k \in DOMAIN frames : k # i => frames'[k] = frames[k]
      /\ wire' \in Seq(Parts) /\ put' \in Nat /\ put' - got <= SocketBuffer /\ put <= put'
      /\ Len(wire') = Len(wire) + 1
      /\ TakenInv' /\ WireInv' /\ PageInv'
    <2>1. i # Len(frames) + 1
        BY <1>2, <1>4
    <2> HIDE DEF i
    <2> QED
        BY <1>6, <1>8, <2>1, TakeStep
<1>10. completed' = Append(completed, i)
    BY <1>2, <1>6 DEF Take, Part
<1> HIDE DEF i
<1>11. completed' \in Seq(1..Len(frames)) /\ Distinct(completed')
       /\ \A k : Holds(completed', k) <=> Holds(completed, k) \/ k = i
    BY <1>1, <1>2, <1>7, <1>10, AppendFacts, QueuePlus
<1>12. OneOperation'
    BY <1>3, <1>6, <1>9, <1>11, OperationStep DEF Inv
<1>13. TypeOK'
    <2>1. /\ got \in 0..put /\ seen \in 0..Len(wire) /\ put \in Nat /\ Len(wire) \in Nat
          /\ pacing \in Pacings /\ ended \in 0..Len(frames)
        BY <1>1, SeqFacts DEF TypeOK
    <2>2. got' \in 0..put' /\ seen' \in 0..Len(wire') /\ got' = got
        BY <1>6, <1>9, <2>1 DEF page
    <2> QED
        BY <1>2, <1>6, <1>9, <1>11, <2>1, <2>2 DEF TypeOK
<1> QED
    BY <1>9, <1>12, <1>13 DEF Inv

LEMMA WriteEndsInv ==
    ASSUME Inv, WriteEnds
    PROVE  Inv'
<1>1. completed \in Seq(1..Len(frames)) /\ completed # <<>> /\ Distinct(completed)
    BY DEF Inv, TypeOK, OneOperation, WriteEnds
<1>2. /\ UNCHANGED <<pacing, frames, ended, waiting, wire, put, got, seen>>
      /\ completed' = Tail(completed) /\ Taken(Head(completed))
    BY DEF WriteEnds, page
<1>3. /\ completed' \in Seq(1..Len(frames)) /\ Distinct(completed')
      /\ \A k : Holds(completed', k) <=> Holds(completed, k) /\ k # Head(completed)
    BY <1>1, <1>2, TailFacts, QueueTail
<1>4. TypeOK'
    BY <1>2, <1>3 DEF Inv, TypeOK
<1>5. OneOperation'
    <2>1. \A k : Taken(k)' <=> Taken(k)
        BY <1>2 DEF Taken, Total
    <2>2. Distinct(waiting)' /\ Distinct(completed)'
        BY <1>2, <1>3 DEF Distinct, Inv, OneOperation
    <2>3. \A k : (Holds(waiting, k)' <=> Holds(waiting, k)) /\ (Holds(completed, k)' <=> Holds(completed', k))
        BY <1>2 DEF Holds
    <2> QED
        BY <1>2, <1>3, <2>1, <2>2, <2>3, Zenon DEF Inv, OneOperation
<1>6. TakenInv' /\ WireInv' /\ PageInv'
    BY <1>2 DEF Inv, TakenInv, Total, WireInv, PartsFollow, EndOf, PageInv
<1> QED
    BY <1>4, <1>5, <1>6 DEF Inv

LEMMA PageReadsInv ==
    ASSUME Inv, NEW n \in ReadSizes, PageReads(n)
    PROVE  Inv'
<1> DEFINE end == wire[seen + 1].at + wire[seen + 1].size
<1>1. /\ seen < Len(wire) /\ got' = Least({got + n, end})
      /\ seen' = (IF got' = end THEN seen + 1 ELSE seen)
      /\ UNCHANGED <<pacing, frames, ended, waiting, completed, wire, put>>
    BY DEF PageReads, asio
<1>2. /\ TypeOK /\ seen \in 0..Len(wire) /\ Len(wire) \in Nat /\ DOMAIN wire = 1..Len(wire)
      /\ put \in Nat /\ got \in 0..put /\ put - got <= SocketBuffer /\ n \in Nat /\ n > 0
    BY ConstantsAssumption, SeqFacts DEF Inv, TypeOK
<1>3. /\ wire[seen + 1].at \in Nat /\ wire[seen + 1].size \in Nat
      /\ end <= put /\ got <= end /\ end \in Nat
    <2>1. seen + 1 \in DOMAIN wire
        BY <1>1, <1>2
    <2>2. wire[seen + 1].at \in Nat /\ wire[seen + 1].size \in Nat
        BY <1>2, <2>1, PartTypes
    <2> QED
        BY <1>1, <2>1, <2>2 DEF Inv, PageInv
<1> HIDE DEF end
<1>4. got' \in {got + n, end} /\ got' <= end
    <2>1. got + n \in Int /\ end \in Int
        BY <1>2, <1>3
    <2>2. /\ Least({got + n, end}) \in {got + n, end} /\ Least({got + n, end}) <= end
        BY <2>1, LeastOfTwo, Zenon
    <2> QED
        BY <1>1, <2>2, Zenon
<1>5. got' \in Nat /\ got <= got' /\ got' <= end
    BY <1>2, <1>3, <1>4
<1>6. TypeOK'
    <2>1. got' \in 0..put' /\ put' - got' <= SocketBuffer
        BY <1>1, <1>2, <1>3, <1>5, ConstantsAssumption
    <2>2. seen' \in 0..Len(wire')
        BY <1>1, <1>2
    <2> QED
        BY <1>1, <1>2, <2>1, <2>2 DEF TypeOK
<1>7. PageInv'
    <2>1. seen' < Len(wire') => got' <= wire'[seen' + 1].at + wire'[seen' + 1].size
        <3>1. CASE got' = end /\ seen + 1 < Len(wire)
            <4>1. wire[(seen + 1) + 1].at = end /\ wire[(seen + 1) + 1].size \in Nat
                <5>1. seen + 1 \in 1..(Len(wire) - 1) /\ (seen + 1) + 1 \in DOMAIN wire
                    BY <1>2, <3>1
                <5> QED
                    BY <1>2, <5>1, PartTypes DEF Inv, PageInv, end
            <4> QED
                BY <1>1, <1>3, <3>1, <4>1
        <3>2. CASE got' # end
            BY <1>1, <1>5, <3>2 DEF end
        <3>3. CASE ~(seen + 1 < Len(wire)) /\ got' = end
            BY <1>1, <1>2, <3>3
        <3> QED
            BY <3>1, <3>2, <3>3
    <2> QED
        BY <1>1, <2>1 DEF Inv, PageInv
<1>8. TakenInv' /\ WireInv'
    BY <1>1 DEF Inv, TakenInv, Total, WireInv, PartsFollow, EndOf
<1>9. OneOperation'
    BY <1>1 DEF Inv, OneOperation, Distinct, Holds, Taken, Total
<1> QED
    BY <1>6, <1>7, <1>8, <1>9 DEF Inv

LEMMA StepInv == Inv /\ [Next]_vars => Inv'
<1> SUFFICES ASSUME Inv, [Next]_vars PROVE Inv'
    OBVIOUS
<1>1. CASE \E layout \in FrameLayouts : Write(layout)
    BY <1>1, WriteInv
<1>2. CASE HandlerEnds
    <2>1. UNCHANGED <<pacing, frames, waiting, completed, wire, put, got, seen>>
        BY <1>2 DEF HandlerEnds, asio, page
    <2>2. ended' = Len(frames) /\ Len(frames) \in Nat
        BY <1>2, SeqFacts DEF HandlerEnds, Inv, TypeOK
    <2>3. TypeOK'
        BY <2>1, <2>2 DEF Inv, TypeOK
    <2>4. OneOperation'
        BY <2>1 DEF Inv, OneOperation, Distinct, Holds, Taken, Total
    <2> QED
        BY <2>1, <2>3, <2>4 DEF Inv, TakenInv, Total, WireInv, PartsFollow, EndOf, PageInv
<1>3. CASE WriteGoesOn
    BY <1>3, GoesOnInv
<1>4. CASE WriteEnds
    BY <1>4, WriteEndsInv
<1>5. CASE Writable
    BY <1>5, WritableInv
<1>6. CASE PageReadsSome
    BY <1>6, PageReadsInv DEF PageReadsSome
<1>7. CASE UNCHANGED vars
    <2>1. UNCHANGED <<pacing, frames, ended, waiting, completed, wire, put, got, seen>>
        BY <1>7 DEF vars, asio, page
    <2>2. OneOperation'
        BY <2>1 DEF Inv, OneOperation, Distinct, Holds, Taken, Total
    <2> QED
        BY <2>1, <2>2 DEF Inv, TypeOK, TakenInv, Total, WireInv, PartsFollow, EndOf, PageInv
<1> QED
    BY <1>1, <1>2, <1>3, <1>4, <1>5, <1>6, <1>7 DEF Next

LEMMA Invariance == Spec => []Inv
<1> QED
    BY InitInv, StepInv, PTL DEF Spec

(* The types: what the socket holds never exceeds its buffer. *)
THEOREM TypeCorrect == Spec => []TypeOK
<1>1. Inv => TypeOK
    BY DEF Inv
<1> QED
    BY <1>1, Invariance, PTL

(* Until it is taken whole, every frame has one operation and only one. *)
THEOREM WritesKeepOperation == Spec => []OneOperation
<1>1. Inv => OneOperation
    BY DEF Inv
<1> QED
    BY <1>1, Invariance, PTL

-------------------------------------------------------------------------------
(* Handlers that write one frame at a time: the last part on the wire is of *)
(* the last frame, or of the one before it while the last one waits.        *)
InOrder ==
    /\ wire # <<>> => wire[1].frame = 1 /\ wire[1].from = 0
    /\ \A j \in 1..(Len(wire) - 1) : Continues(wire[j], wire[j + 1])

LastPart(last) ==
    \/ last.frame = Len(frames) /\ EndOf(last) = frames[last.frame].taken
    \/ /\ last.frame = Len(frames) - 1 /\ EndOf(last) = Total(frames[last.frame])
       /\ frames[Len(frames)].taken = 0

LastInv ==
    /\ \A k \in DOMAIN frames : k < Len(frames) => Taken(k)
    /\ wire = <<>> => Len(frames) <= 1 /\ \A k \in DOMAIN frames : frames[k].taken = 0
    /\ wire # <<>> => LastPart(wire[Len(wire)])

AloneInv == pacing = "alone" => LastInv /\ InOrder

(* The frame a step may go on with or add when handlers write one at a time. *)
Lone(i) ==
    /\ i \in {Len(frames), Len(frames) + 1}
    /\ i = Len(frames) + 1 => \A k \in DOMAIN frames : Taken(k)

LEMMA Numbers ==
    ASSUME NEW n \in Nat, NEW i \in 1..(n + 1)
    PROVE  /\ i \in Nat /\ i > 0
           /\ i = n => i \in 1..n /\ i # n + 1
           /\ i # n + 1 => i \in 1..n
           /\ \A k \in 1..n : k # n => k < n
           /\ \A k \in 1..i : k < i /\ i \in {n, n + 1} => k \in 1..n /\ k # i
OBVIOUS

LEMMA LoneOld ==
    ASSUME Inv, NEW i, NEW frame, Current(i, frame), Lone(i)
    PROVE  /\ Len(frames) \in Nat /\ DOMAIN frames = 1..Len(frames)
           /\ i \in Nat /\ i > 0 /\ frame \in Frames /\ frame.taken < Total(frame)
           /\ \/ i = Len(frames) /\ i \in DOMAIN frames /\ frame = frames[i]
              \/ /\ i = Len(frames) + 1 /\ frame.taken = 0
                 /\ \A k \in DOMAIN frames : Taken(k)
<1> DEFINE n == Len(frames)
<1>1. n \in Nat /\ DOMAIN frames = 1..n
    BY SeqFacts DEF Inv, TypeOK
<1>2. i \in 1..(n + 1) /\ frame \in Frames /\ frame.taken < Total(frame)
    BY DEF Current
<1>3. i \in {n, n + 1}
    BY DEF Lone
<1>4. IF i = n + 1 THEN frame.taken = 0 ELSE frame = frames[i]
    BY DEF Current
<1>5. i = n + 1 => \A k \in DOMAIN frames : Taken(k)
    BY DEF Lone
<1> HIDE DEF n
<1>6. i \in Nat /\ i > 0 /\ (i = n => i \in 1..n /\ i # n + 1)
    BY <1>1, <1>2, Numbers, Zenon
<1>7. CASE i = n
    <2>1. i \in DOMAIN frames /\ frame = frames[i]
        BY <1>1, <1>4, <1>6, <1>7, Zenon
    <2> QED
        BY <1>1, <1>2, <1>6, <1>7, <2>1, Zenon DEF n
<1>8. CASE i = n + 1
    BY <1>1, <1>2, <1>4, <1>5, <1>6, <1>8, Zenon DEF n
<1> QED
    BY <1>3, <1>7, <1>8, Zenon

LEMMA LoneFacts ==
    ASSUME Inv, LastInv, NEW i, NEW frame, Current(i, frame), Lone(i)
    PROVE  /\ Len(frames) \in Nat /\ DOMAIN frames = 1..Len(frames)
           /\ \A k \in DOMAIN frames : k # i => Taken(k)
           /\ wire = <<>> => i = 1 /\ frame.taken = 0
           /\ wire # <<>> => /\ wire[Len(wire)].frame \in DOMAIN frames
                            /\ \/ /\ i = wire[Len(wire)].frame
                                  /\ i = Len(frames) /\ frame.taken = EndOf(wire[Len(wire)])
                               \/ /\ i = wire[Len(wire)].frame + 1 /\ frame.taken = 0
                                  /\ EndOf(wire[Len(wire)]) = Total(frames[wire[Len(wire)].frame])
<1> DEFINE n == Len(frames)
<1>0. n \in Nat /\ DOMAIN frames = 1..n
    BY SeqFacts DEF Inv, TypeOK
<1>1. /\ i \in Nat /\ i > 0
      /\ \/ i = n /\ i \in DOMAIN frames /\ frame = frames[i]
         \/ i = n + 1 /\ frame.taken = 0 /\ \A k \in DOMAIN frames : Taken(k)
    BY LoneOld
<1>2. ASSUME NEW k \in DOMAIN frames, k # i PROVE Taken(k)
    <2>1. CASE i = n
        <3>1. k < n
            <4> HIDE DEF n
            <4> QED
                BY <1>0, <1>2, <2>1
        <3> QED
            BY <3>1 DEF LastInv
    <2>2. CASE i = n + 1
        <3> HIDE DEF n
        <3>1. i # n
            BY <1>0, <2>2
        <3> QED
            BY <1>1, <3>1
    <2> QED
        BY <1>1, <2>1, <2>2
<1>3. \A k \in DOMAIN frames : Taken(k) => frames[k].taken >= 2
    BY FrameTypes DEF Inv, Taken
<1>4. ASSUME wire = <<>> PROVE i = 1 /\ frame.taken = 0
    <2>1. n <= 1 /\ \A k \in DOMAIN frames : frames[k].taken = 0
        BY <1>4 DEF LastInv
    <2>2. \A k \in DOMAIN frames : ~Taken(k)
        BY <1>3, <2>1
    <2> HIDE DEF n
    <2>3. CASE i = n + 1 /\ frame.taken = 0 /\ \A k \in DOMAIN frames : Taken(k)
        <3>1. 1 \notin DOMAIN frames
            BY <2>2, <2>3
        <3>2. n = 0
            BY <1>0, <2>1, <3>1
        <3> QED
            BY <2>3, <3>2
    <2>4. CASE i = n /\ i \in DOMAIN frames /\ frame = frames[i]
        <3>1. i = 1
            BY <1>0, <2>1, <2>4
        <3> QED
            BY <2>1, <2>4, <3>1
    <2> QED
        BY <1>1, <2>3, <2>4
<1>5. ASSUME wire # <<>>
      PROVE  /\ wire[Len(wire)].frame \in DOMAIN frames
             /\ \/ /\ i = wire[Len(wire)].frame
                   /\ i = Len(frames) /\ frame.taken = EndOf(wire[Len(wire)])
                \/ /\ i = wire[Len(wire)].frame + 1 /\ frame.taken = 0
                   /\ EndOf(wire[Len(wire)]) = Total(frames[wire[Len(wire)].frame])
    <2> DEFINE last == wire[Len(wire)]
    <2>1. Len(wire) \in DOMAIN wire
        <3>1. wire \in Seq(Parts)
            BY DEF Inv, TypeOK
        <3> QED
            BY <1>5, <3>1, SeqFacts
    <2>2. last.frame \in DOMAIN frames /\ LastPart(last)
        BY <1>5, <2>1 DEF Inv, WireInv, LastInv
    <2> HIDE DEF last
    <2>3. \/ last.frame = n /\ EndOf(last) = frames[last.frame].taken
          \/ /\ last.frame = n - 1 /\ EndOf(last) = Total(frames[last.frame])
             /\ frames[n].taken = 0
        BY <2>2 DEF LastPart
    <2> HIDE DEF n
    <2>4. CASE last.frame = n /\ EndOf(last) = frames[last.frame].taken
        <3>1. CASE i = n /\ i \in DOMAIN frames /\ frame = frames[i]
            BY <2>2, <2>4, <3>1 DEF last, n
        <3>2. CASE i = n + 1 /\ frame.taken = 0 /\ \A k \in DOMAIN frames : Taken(k)
            <4>1. EndOf(last) = Total(frames[last.frame])
                BY <2>2, <2>4, <3>2 DEF Taken
            <4>2. i = last.frame + 1
                BY <2>4, <3>2
            <4> QED
                BY <2>2, <3>2, <4>1, <4>2 DEF last
        <3> QED
            BY <1>1, <3>1, <3>2
    <2>5. CASE /\ last.frame = n - 1 /\ EndOf(last) = Total(frames[last.frame])
               /\ frames[n].taken = 0
        <3>1. n \in DOMAIN frames
            BY <1>0, <2>2, <2>5
        <3>2. ~Taken(n)
            BY <1>3, <2>5, <3>1
        <3>3. i = n /\ frame = frames[i]
            BY <1>1, <3>1, <3>2
        <3>4. i = last.frame + 1
            BY <1>0, <2>5, <3>3
        <3> QED
            BY <2>2, <2>5, <3>3, <3>4 DEF last
    <2> QED
        BY <2>3, <2>4, <2>5
<1> QED
    BY <1>0, <1>2, <1>4, <1>5

LEMMA AloneTake ==
    ASSUME Inv, LastInv, InOrder, NEW i, NEW frame, Current(i, frame), Lone(i), Room > 0,
           NEW queue, Take(Part(i, frame), frame, queue), UNCHANGED page
    PROVE  LastInv' /\ InOrder'
<1> DEFINE part == Part(i, frame)
           last == wire[Len(wire)]
<1>1. /\ Len(frames) \in Nat /\ DOMAIN frames = 1..Len(frames)
      /\ \A k \in DOMAIN frames : k # i => Taken(k)
      /\ wire = <<>> => i = 1 /\ frame.taken = 0
      /\ wire # <<>> => /\ last.frame \in DOMAIN frames
                       /\ \/ i = last.frame /\ i = Len(frames) /\ frame.taken = EndOf(last)
                          \/ /\ i = last.frame + 1 /\ frame.taken = 0
                             /\ EndOf(last) = Total(frames[last.frame])
    BY LoneFacts
<1>2. /\ TypeOK /\ i \in 1..(Len(frames) + 1) /\ frame \in Frames
      /\ frame.taken < Total(frame) /\ (i = Len(frames) => frame = frames[i])
      /\ i \in {Len(frames), Len(frames) + 1}
    <2>1. TypeOK /\ i \in 1..(Len(frames) + 1) /\ i \in {Len(frames), Len(frames) + 1}
        BY DEF Inv, Current, Lone
    <2> QED
        BY <2>1, LoneOld
<1>3. part \in Parts /\ part.frame = i /\ part.from = frame.taken
    BY <1>2, PartFacts
<1>4. /\ Len(frames') = i /\ DOMAIN frames' = DOMAIN frames \cup {i}
      /\ frames'[i].built = frame.built /\ frames'[i].size = frame.size
      /\ frames'[i].taken = EndOf(part)
      /\ \A k \in DOMAIN frames : k # i => frames'[k] = frames[k]
    <2>1. Len(frames') = IF i = Len(frames) + 1 THEN i ELSE Len(frames)
        BY TakeStep
    <2> QED
        BY <1>2, <2>1, TakeStep
<1>5. wire' = Append(wire, part)
    BY DEF Take
<1> HIDE DEF part, last
<1>6. wire \in Seq(Parts)
    BY <1>2 DEF TypeOK
<1>7. /\ Len(wire') = Len(wire) + 1 /\ DOMAIN wire = 1..Len(wire) /\ Len(wire) \in Nat
      /\ \A j \in DOMAIN wire : wire'[j] = wire[j]
      /\ wire'[Len(wire) + 1] = part
    BY <1>3, <1>5, <1>6, AppendFacts, SeqFacts
<1>8. \A k \in DOMAIN frames : Total(frames'[k]) = Total(frames[k])
    BY <1>1, <1>2, <1>4 DEF Total
<1>9. ASSUME NEW k \in DOMAIN frames', k < Len(frames')
      PROVE  frames'[k].taken = Total(frames'[k])
    <2>1. k \in DOMAIN frames /\ k # i
        BY <1>2, <1>4, <1>9
    <2>2. Taken(k) /\ frames'[k] = frames[k]
        BY <1>1, <1>4, <2>1
    <2> QED
        BY <2>2 DEF Taken
<1>10. LastInv'
    <2>1. wire'[Len(wire')] = part /\ wire' # <<>>
        BY <1>7
    <2>2. part.frame = Len(frames') /\ EndOf(part) = frames'[part.frame].taken
        BY <1>3, <1>4
    <2>3. ASSUME NEW k \in DOMAIN frames', k < Len(frames') PROVE Taken(k)'
        BY <1>9, <2>3 DEF Taken, Total
    <2>4. LastPart(wire[Len(wire)])'
        BY <2>1, <2>2 DEF LastPart, EndOf
    <2> QED
        BY <2>1, <2>3, <2>4 DEF LastInv
<1>11. wire # <<>> => \/ part.frame = last.frame /\ part.from = EndOf(last)
                     \/ /\ part.frame = last.frame + 1 /\ part.from = 0
                        /\ EndOf(last) = Total(frames'[last.frame])
    BY <1>1, <1>3, <1>8
<1>12. ASSUME NEW j \in 1..(Len(wire') - 1)
       PROVE  \/ wire'[j + 1].frame = wire'[j].frame /\ wire'[j + 1].from = EndOf(wire'[j])
              \/ /\ wire'[j + 1].frame = wire'[j].frame + 1 /\ wire'[j + 1].from = 0
                 /\ EndOf(wire'[j]) = Total(frames'[wire'[j].frame])
    <2>1. j \in DOMAIN wire /\ wire'[j] = wire[j] /\ wire[j].frame \in DOMAIN frames
        BY <1>7 DEF Inv, WireInv
    <2>2. CASE j < Len(wire)
        <3>1. j \in 1..(Len(wire) - 1) /\ wire'[j + 1] = wire[j + 1]
            BY <1>7, <2>1, <2>2
        <3>2. Continues(wire[j], wire[j + 1])
            BY <3>1 DEF InOrder
        <3> QED
            BY <1>8, <2>1, <3>1, <3>2 DEF Continues
    <2>3. CASE j = Len(wire)
        <3>1. wire # <<>> /\ wire'[j + 1] = part /\ wire'[j] = last
            BY <1>7, <2>1, <2>3 DEF last
        <3> QED
            BY <1>11, <3>1
    <2> QED
        BY <1>7, <2>1, <2>2, <2>3
<1>13. wire'[1].frame = 1 /\ wire'[1].from = 0
    <2>1. CASE wire = <<>>
        <3>1. wire'[1] = part
            BY <1>5, <2>1
        <3> QED
            BY <1>1, <1>3, <2>1, <3>1
    <2>2. CASE wire # <<>>
        BY <1>6, <1>7, <2>2 DEF InOrder
    <2> QED
        BY <2>1, <2>2
<1>14. InOrder'
    BY <1>12, <1>13 DEF InOrder, Continues, Total, EndOf
<1> QED
    BY <1>10, <1>14

LEMMA AloneAsync ==
    ASSUME Inv, LastInv, InOrder, NEW i, NEW frame, Current(i, frame), Lone(i),
           NEW queue, AsyncWriteSome(i, frame, queue), UNCHANGED page
    PROVE  LastInv' /\ InOrder'
<1>1. CASE TriedAtOnce
    <2>1. Room > 0 /\ Take(Part(i, frame), frame, queue)
        BY <1>1 DEF TriedAtOnce, AsyncWriteSome
    <2> QED
        BY <2>1, AloneTake
<1>2. CASE ~TriedAtOnce
    <2>1. frames' = Updated(i, frame) /\ wire' = wire
        BY <1>2 DEF AsyncWriteSome
    <2>2. /\ frames \in Seq(Frames) /\ i \in 1..(Len(frames) + 1) /\ frame \in Frames
          /\ i \in {Len(frames), Len(frames) + 1}
          /\ (i = Len(frames) => frame = frames[i])
          /\ (i = Len(frames) + 1 => frame.taken = 0)
        BY SeqFacts DEF Inv, TypeOK, Current, Lone
    <2>3. /\ Len(frames') = i /\ DOMAIN frames' = DOMAIN frames \cup {i} /\ frames'[i] = frame
          /\ \A k \in DOMAIN frames : k # i => frames'[k] = frames[k]
        BY <2>1, <2>2, UpdatedFacts
    <2>4. \A k \in DOMAIN frames : frames'[k] = frames[k]
        BY <2>2, <2>3, SeqFacts
    <2>5. /\ Len(frames) \in Nat /\ DOMAIN frames = 1..Len(frames)
          /\ \A k \in DOMAIN frames : k # i => Taken(k)
          /\ wire = <<>> => i = 1 /\ frame.taken = 0
          /\ wire # <<>> => /\ wire[Len(wire)].frame \in DOMAIN frames
                           /\ \/ /\ i = wire[Len(wire)].frame
                                 /\ i = Len(frames) /\ frame.taken = EndOf(wire[Len(wire)])
                              \/ /\ i = wire[Len(wire)].frame + 1 /\ frame.taken = 0
                                 /\ EndOf(wire[Len(wire)]) = Total(frames[wire[Len(wire)].frame])
        BY LoneFacts
    <2>6. \A k \in DOMAIN frames' : k < Len(frames') => frames'[k].taken = Total(frames'[k])
        BY <2>3, <2>4, <2>5 DEF Taken
    <2>7. ASSUME wire # <<>> PROVE LastPart(wire[Len(wire)])'
        <3> DEFINE last == wire[Len(wire)]
        <3>1. /\ last.frame \in DOMAIN frames
              /\ \/ i = last.frame /\ i = Len(frames) /\ frame.taken = EndOf(last)
                 \/ /\ i = last.frame + 1 /\ frame.taken = 0
                    /\ EndOf(last) = Total(frames[last.frame])
            BY <2>5, <2>7
        <3>2. last.frame \in Nat
            BY <2>5, <3>1
        <3> HIDE DEF last
        <3>3. \/ last.frame = Len(frames') /\ EndOf(last) = frames'[last.frame].taken
              \/ /\ last.frame = Len(frames') - 1 /\ EndOf(last) = Total(frames'[last.frame])
                 /\ frames'[Len(frames')].taken = 0
            BY <2>3, <2>4, <3>1, <3>2
        <3>4. CASE last.frame = Len(frames') /\ EndOf(last) = frames'[last.frame].taken
            BY <2>1, <3>4 DEF last, LastPart, EndOf
        <3>5. CASE /\ last.frame = Len(frames') - 1 /\ EndOf(last) = Total(frames'[last.frame])
                   /\ frames'[Len(frames')].taken = 0
            BY <2>1, <3>5 DEF last, LastPart, EndOf, Total
        <3> QED
            BY <3>3, <3>4, <3>5
    <2>8. wire = <<>> => Len(frames') <= 1 /\ \A k \in DOMAIN frames' : frames'[k].taken = 0
        <3>1. CASE wire = <<>>
            <4>1. i = 1 /\ frame.taken = 0 /\ \A k \in DOMAIN frames : frames[k].taken = 0
                BY <2>5, <3>1 DEF LastInv
            <4> QED
                BY <2>3, <2>4, <4>1
        <3> QED
            BY <3>1
    <2>9. LastInv'
        BY <2>1, <2>6, <2>7, <2>8 DEF LastInv, Taken, Total
    <2>10. ASSUME NEW j \in 1..(Len(wire) - 1)
           PROVE  \/ wire[j + 1].frame = wire[j].frame /\ wire[j + 1].from = EndOf(wire[j])
                  \/ /\ wire[j + 1].frame = wire[j].frame + 1 /\ wire[j + 1].from = 0
                     /\ EndOf(wire[j]) = Total(frames'[wire[j].frame])
        <3>1. j \in DOMAIN wire
            <4>1. wire \in Seq(Parts)
                BY DEF Inv, TypeOK
            <4> QED
                BY <4>1, SeqFacts
        <3>2. wire[j].frame \in DOMAIN frames /\ Continues(wire[j], wire[j + 1])
            BY <3>1 DEF Inv, WireInv, InOrder
        <3> QED
            BY <2>4, <3>2 DEF Continues
    <2>11. InOrder'
        BY <2>1, <2>10 DEF InOrder, Continues, Total, EndOf
    <2> QED
        BY <2>9, <2>11
<1> QED
    BY <1>1, <1>2

(* Who is not taken yet is the last frame. *)
LEMMA LastIsLone ==
    ASSUME Inv, LastInv, NEW i \in DOMAIN frames, ~Taken(i)
    PROVE  Lone(i) /\ Current(i, frames[i])
<1>1. Len(frames) \in Nat /\ DOMAIN frames = 1..Len(frames)
    BY SeqFacts DEF Inv, TypeOK
<1>2. /\ frames[i] \in Frames /\ frames[i].taken \in Nat /\ Total(frames[i]) \in Nat
      /\ frames[i].taken <= Total(frames[i])
    BY FrameTypes DEF Inv, TakenInv
<1>3. i = Len(frames)
    BY <1>1 DEF LastInv
<1> QED
    <2>1. i \in {Len(frames), Len(frames) + 1} /\ i # Len(frames) + 1 /\ i \in 1..(Len(frames) + 1)
        <3> DEFINE n == Len(frames)
        <3>1. n \in Nat /\ i \in 1..n /\ i = n
            BY <1>1, <1>3
        <3> HIDE DEF n
        <3>2. i \in {n, n + 1} /\ i # n + 1 /\ i \in 1..(n + 1)
            BY <3>1
        <3> QED
            BY <3>2 DEF n
    <2>2. frames[i].taken < Total(frames[i])
        BY <1>2 DEF Taken
    <2> QED
        BY <1>2, <2>1, <2>2 DEF Lone, Current

LEMMA PacingStays == [Next]_vars => pacing' = pacing
BY DEF Next, Write, HandlerEnds, WriteGoesOn, WriteEnds, Writable, PageReadsSome, PageReads,
       vars

LEMMA AloneStep ==
    ASSUME Inv, LastInv, InOrder, pacing = "alone", [Next]_vars
    PROVE  LastInv' /\ InOrder'
<1>1. ASSUME NEW layout \in FrameLayouts, Write(layout) PROVE LastInv' /\ InOrder'
    <2> DEFINE frame == [built |-> layout.built, size |-> layout.size, taken |-> 0]
               i == Len(frames) + 1
    <2>1. /\ frame \in Frames /\ frame.taken = 0
          /\ frame.built \in Nat /\ frame.size \in Nat
        BY ConstantsAssumption DEF Frames
    <2>2. Total(frame) \in Nat /\ Total(frame) >= 2 /\ Len(frames) \in Nat
        BY <2>1, TotalType, SeqFacts DEF Inv, TypeOK
    <2>3. Current(i, frame)
        BY <2>1, <2>2 DEF Current
    <2>4. /\ AsyncWriteSome(i, frame, completed) /\ UNCHANGED page
          /\ \A k \in DOMAIN frames : Taken(k)
        BY <1>1 DEF Write, Paced
    <2>5. Lone(i)
        BY <2>4 DEF Lone
    <2> HIDE DEF frame, i
    <2> QED
        BY <2>3, <2>4, <2>5, AloneAsync
<1>2. CASE WriteGoesOn
    <2> DEFINE i == Head(completed)
    <2>1. completed \in Seq(1..Len(frames)) /\ completed # <<>>
        BY <1>2 DEF Inv, TypeOK, WriteGoesOn
    <2>2. i \in DOMAIN frames
        BY <2>1, TailFacts, SeqFacts DEF Inv, TypeOK
    <2>3. ~Taken(i) /\ AsyncWriteSome(i, frames[i], Tail(completed)) /\ UNCHANGED page
        BY <1>2 DEF WriteGoesOn, GoOn
    <2> HIDE DEF i
    <2> QED
        BY <2>2, <2>3, LastIsLone, AloneAsync
<1>3. CASE Writable
    <2> DEFINE i == Head(waiting)
    <2>1. waiting \in Seq(1..Len(frames)) /\ waiting # <<>> /\ Distinct(waiting)
        BY <1>3 DEF Inv, TypeOK, OneOperation, Writable
    <2>2. i \in DOMAIN frames /\ Holds(waiting, i)
        BY <2>1, TailFacts, SeqFacts, QueueTail DEF Inv, TypeOK
    <2>3. Room > 0 /\ Take(Part(i, frames[i]), frames[i], completed) /\ UNCHANGED page
        BY <1>3 DEF Writable
    <2> HIDE DEF i
    <2>4. ~Taken(i)
        BY <2>2 DEF Inv, OneOperation
    <2> QED
        BY <2>2, <2>3, <2>4, LastIsLone, AloneTake
<1>4. CASE HandlerEnds \/ WriteEnds \/ PageReadsSome \/ UNCHANGED vars
    <2>1. frames' = frames /\ wire' = wire
        BY <1>4 DEF HandlerEnds, WriteEnds, PageReadsSome, PageReads, asio, vars
    <2> QED
        BY <2>1 DEF LastInv, LastPart, InOrder, Continues, Taken, Total, EndOf
<1> QED
    BY <1>1, <1>2, <1>3, <1>4 DEF Next

-------------------------------------------------------------------------------
(* With room for every frame each is taken at once, in one part. *)
RoomyInv ==
    /\ waiting = <<>> /\ Len(wire) = Len(frames)
    /\ \A j \in DOMAIN wire : wire[j].frame = j /\ Whole(wire[j])
    /\ \A k \in DOMAIN frames : Taken(k)

LEMMA RoomyWrite ==
    ASSUME Inv, RoomyInv, pacing = "roomy", NEW layout \in FrameLayouts, Write(layout)
    PROVE  /\ RoomyInv' /\ Len(frames') = Len(frames) + 1
           /\ \A k \in DOMAIN frames : frames'[k] = frames[k]
<1> DEFINE frame == [built |-> layout.built, size |-> layout.size, taken |-> 0]
           n == Len(frames)
           part == Part(n + 1, frame)
<1>1. /\ frame \in Frames /\ frame.taken = 0 /\ frame.built \in Nat /\ frame.size \in Nat
    BY ConstantsAssumption DEF Frames
<1>2. /\ AsyncWriteSome(n + 1, frame, completed) /\ UNCHANGED <<ended, pacing>> /\ UNCHANGED page
      /\ Total(frame) <= Room /\ Total(frame) <= ChunkSize /\ HeaderFits(frame)
    BY DEF Write, Paced
<1> HIDE DEF frame
<1>3. Total(frame) \in Nat /\ Total(frame) >= 2
    BY <1>1, TotalType
<1>4. /\ TypeOK /\ n \in Nat /\ DOMAIN frames = 1..n /\ Room \in Int /\ ended \in 0..n
      /\ frames \in Seq(Frames) /\ wire \in Seq(Parts) /\ ChunkSize \in Int
    <2>1. /\ TypeOK /\ frames \in Seq(Frames) /\ ended \in 0..n /\ put \in Nat /\ got \in 0..put
          /\ wire \in Seq(Parts)
        BY DEF Inv, TypeOK
    <2> QED
        BY <2>1, SeqFacts, ConstantsAssumption DEF Room
<1>5. Room > 0 /\ TriedAtOnce
    BY <1>2, <1>3, <1>4 DEF RoomyInv, TriedAtOnce
<1>6. part.size = Total(frame)
    <2>1. part.size = Least({Total(frame) - 0, Room, ChunkSize})
        BY <1>1 DEF Part
    <2>2. Total(frame) - 0 = Total(frame)
        BY <1>3
    <2>3. Total(frame) \in Int
        BY <1>3
    <2>4. /\ Least({Total(frame), Room, ChunkSize}) \in {Total(frame), Room, ChunkSize}
          /\ Least({Total(frame), Room, ChunkSize}) <= Total(frame)
        BY <1>4, <2>3, LeastOfThree, Zenon
    <2> QED
        <3>1. part.size = Least({Total(frame), Room, ChunkSize})
            BY <2>1, <2>2, Zenon
        <3> HIDE DEF part
        <3> DEFINE least == Least({Total(frame), Room, ChunkSize})
        <3>2. /\ part.size = least /\ least \in {Total(frame), Room, ChunkSize}
              /\ least <= Total(frame)
            BY <2>4, <3>1, Zenon
        <3> HIDE DEF least
        <3> QED
            BY <1>2, <1>3, <1>4, <3>2
<1>7. /\ part \in Parts /\ part.frame = n + 1 /\ part.from = 0 /\ part.live = TRUE
    <2>1. n + 1 \in 1..(n + 1) /\ n + 1 > ended /\ frame.taken < Total(frame)
        BY <1>1, <1>3, <1>4
    <2>2. part \in Parts /\ part.frame = n + 1 /\ part.from = 0
        BY <1>1, <1>4, <1>5, <2>1, PartFacts
    <2> QED
        BY <2>1, <2>2 DEF Part
<1>8. EndOf(part) = Total(frame)
    BY <1>3, <1>6, <1>7 DEF EndOf
<1>9. /\ frames' = Updated(n + 1, [frame EXCEPT !.taken = EndOf(part)])
      /\ wire' = Append(wire, part) /\ waiting' = waiting
    BY <1>2, <1>5, <1>7 DEF AsyncWriteSome, Take
<1> DEFINE taken == [frame EXCEPT !.taken = EndOf(part)]
<1>10. taken \in Frames /\ taken.built = frame.built /\ taken.size = frame.size /\ taken.taken = Total(frame)
    BY <1>1, <1>3, <1>8 DEF Frames
<1>11. /\ frames' = Append(frames, taken)
    BY <1>9 DEF Updated
<1> HIDE DEF taken, part
<1>12. /\ Len(frames') = n + 1 /\ DOMAIN frames' = 1..(n + 1) /\ frames'[n + 1] = taken
       /\ \A k \in DOMAIN frames : frames'[k] = frames[k]
    BY <1>4, <1>10, <1>11, AppendFacts
<1>13. /\ Len(wire') = n + 1 /\ DOMAIN wire' = 1..(n + 1) /\ wire'[n + 1] = part
       /\ DOMAIN wire = 1..n /\ \A j \in DOMAIN wire : wire'[j] = wire[j]
    <2>1. Len(wire) = n
        BY DEF RoomyInv
    <2>2. DOMAIN wire = 1..n
        BY <1>4, <2>1, SeqFacts
    <2> QED
        BY <1>4, <1>7, <1>9, <2>1, <2>2, AppendFacts
<1>14. Total(taken) = Total(frame) /\ HeaderFits(taken)
    BY <1>2, <1>10 DEF Total, HeaderFits
<1>15. ASSUME NEW k \in DOMAIN frames' PROVE Taken(k)'
    <2>1. frames'[k].taken = Total(frames'[k])
        <3>1. CASE k = n + 1
            BY <1>10, <1>12, <1>14, <3>1
        <3>2. CASE k \in DOMAIN frames
            BY <1>12, <3>2 DEF RoomyInv, Taken
        <3> HIDE DEF n
        <3> QED
            BY <1>4, <1>12, <3>1, <3>2
    <2> QED
        BY <2>1 DEF Taken, Total
<1>16. ASSUME NEW j \in DOMAIN wire' PROVE wire'[j].frame = j /\ Whole(wire[j])'
    <2>1. /\ wire'[j].frame = j /\ wire'[j].from = 0 /\ wire'[j].live
          /\ wire'[j].size = Total(frames'[j]) /\ HeaderFits(frames'[j])
        <3>1. CASE j = n + 1
            BY <1>6, <1>7, <1>12, <1>13, <1>14, <3>1
        <3>2. CASE j \in DOMAIN wire
            <4>1. wire[j].frame = j /\ Whole(wire[j]) /\ wire'[j] = wire[j] /\ frames'[j] = frames[j]
                BY <1>4, <1>12, <1>13, <3>2 DEF RoomyInv
            <4> QED
                BY <4>1 DEF Whole
        <3> HIDE DEF n
        <3> QED
            BY <1>4, <1>13, <3>1, <3>2
    <2> QED
        BY <2>1 DEF Whole, Total, HeaderFits
<1>17. Len(wire') = Len(frames') /\ waiting' = <<>>
    BY <1>9, <1>12, <1>13 DEF RoomyInv
<1>18. RoomyInv'
    BY <1>15, <1>16, <1>17 DEF RoomyInv
<1> QED
    BY <1>12, <1>18

LEMMA RoomyStep ==
    ASSUME Inv, RoomyInv, pacing = "roomy", [Next]_vars
    PROVE  RoomyInv' /\ [Channel!Next]_<<Watched(sentPayloads), Watched(readPayloads)>>
<1>1. /\ Watched(sentPayloads) = sentPayloads /\ Watched(sentPayloads)' = sentPayloads'
      /\ Watched(readPayloads) = readPayloads /\ Watched(readPayloads)' = readPayloads'
    BY PacingStays DEF Watched
<1>2. /\ frames \in Seq(Frames) /\ Len(frames) \in Nat /\ DOMAIN frames = 1..Len(frames)
      /\ wire \in Seq(Parts) /\ DOMAIN wire = 1..Len(frames) /\ Len(wire) = Len(frames)
      /\ seen \in 0..Len(frames)
    <2>1. frames \in Seq(Frames) /\ wire \in Seq(Parts) /\ seen \in 0..Len(wire)
        BY DEF Inv, TypeOK
    <2> QED
        BY <2>1, SeqFacts DEF RoomyInv
<1>3. /\ readPayloads = [j \in 1..seen |-> Payload(j)]
      /\ Len(readPayloads) = seen
    <2>1. \A j \in 1..seen : Whole(wire[j]) /\ wire[j].frame = j
        BY <1>2 DEF RoomyInv
    <2> QED
        BY <1>2, <2>1 DEF readPayloads
<1>4. DOMAIN sentPayloads = 1..Len(frames) /\ Len(sentPayloads) = Len(frames)
    BY <1>2 DEF sentPayloads
<1>5. ASSUME NEW layout \in FrameLayouts, Write(layout)
      PROVE  RoomyInv' /\ Channel!Send
    <2>1. /\ RoomyInv' /\ Len(frames') = Len(frames) + 1 /\ Inv'
          /\ \A k \in DOMAIN frames : frames'[k] = frames[k]
        BY <1>5, RoomyWrite, WriteInv
    <2>2. frames' \in Seq(Frames)
        BY <2>1 DEF Inv, TypeOK
    <2>3. DOMAIN frames' = 1..(Len(frames) + 1)
        BY <2>1, <2>2, SeqFacts
    <2>4. sentPayloads' = [k \in 1..(Len(frames) + 1) |-> [number |-> k, size |-> frames'[k].size]]
        BY <2>3 DEF sentPayloads, Payload
    <2>5. sentPayloads = [k \in 1..Len(frames) |-> [number |-> k, size |-> frames[k].size]]
        BY <1>2 DEF sentPayloads, Payload
    <2>6. /\ Len(sentPayloads') = Len(sentPayloads) + 1
          /\ \A k \in DOMAIN sentPayloads : sentPayloads'[k] = sentPayloads[k]
        BY <1>2, <1>4, <2>1, <2>4, <2>5
    <2>7. seen' = seen
        BY <1>5 DEF Write, page
    <2>8. readPayloads' = [j \in 1..seen |-> Payload(j)]
        <3>1. \A j \in 1..seen : Whole(wire[j])' /\ wire'[j].frame = j /\ j \in DOMAIN frames
            <4>1. wire' \in Seq(Parts) /\ Len(wire') = Len(frames) + 1
                BY <2>1 DEF Inv, TypeOK, RoomyInv
            <4>2. DOMAIN wire' = 1..(Len(frames) + 1)
                BY <4>1, SeqFacts
            <4> QED
                BY <1>2, <2>1, <4>2 DEF RoomyInv
        <3>2. readPayloads' = [j \in 1..seen |-> IF Whole(wire[j])' THEN Payload(wire[j].frame)' ELSE Broken]
            BY <2>7 DEF readPayloads, Broken
        <3>3. \A j \in 1..seen : Payload(wire[j].frame)' = Payload(j)
            BY <2>1, <3>1 DEF Payload
        <3> QED
            BY <3>1, <3>2, <3>3
    <2>9. readPayloads' = readPayloads
        BY <1>3, <2>8
    <2> QED
        BY <1>1, <2>1, <2>6, <2>9 DEF Channel!Send
<1>6. ASSUME NEW m \in ReadSizes, PageReads(m)
      PROVE  RoomyInv' /\ (Channel!Deliver \/ UNCHANGED <<sentPayloads, readPayloads>>)
    <2>1. /\ UNCHANGED <<pacing, frames, waiting, wire>> /\ seen < Len(wire)
          /\ seen' \in {seen, seen + 1}
        BY <1>6 DEF PageReads, asio
    <2>2. RoomyInv'
        BY <2>1 DEF RoomyInv, Taken, Total, Whole, HeaderFits
    <2>3. sentPayloads' = sentPayloads
        BY <2>1 DEF sentPayloads, Payload
    <2>4. CASE seen' = seen
        <3>1. readPayloads' = readPayloads
            BY <2>1, <2>4 DEF readPayloads, Payload, Whole, Total, HeaderFits, Broken
        <3> QED
            BY <2>2, <2>3, <3>1
    <2>5. CASE seen' = seen + 1
        <3>1. /\ seen + 1 \in DOMAIN frames /\ seen \in Nat
            BY <1>2, <2>1
        <3>2. readPayloads' = [j \in 1..(seen + 1) |->
                  IF Whole(wire[j]) THEN Payload(wire[j].frame) ELSE Broken]
            BY <2>1, <2>5 DEF readPayloads, Payload, Whole, Total, HeaderFits, Broken
        <3>3. \A j \in 1..(seen + 1) : Whole(wire[j]) /\ wire[j].frame = j
            BY <1>2, <3>1 DEF RoomyInv
        <3>4. readPayloads' = [j \in 1..(seen + 1) |-> Payload(j)]
            BY <3>2, <3>3
        <3>5. readPayloads = [j \in 1..seen |-> Payload(j)]
            BY <3>1, <3>3 DEF readPayloads
        <3>6. sentPayloads[seen + 1] = Payload(seen + 1)
            BY <3>1 DEF sentPayloads
        <3>7. readPayloads' = Append(readPayloads, Payload(seen + 1))
            <4> HIDE DEF readPayloads
            <4>1. readPayloads \in Seq({Payload(j) : j \in 1..(seen + 1)})
                BY <3>1, <3>5
            <4> QED
                BY <3>1, <3>4, <3>5, <4>1
        <3>8. Len(readPayloads) < Len(sentPayloads)
            BY <1>2, <1>3, <1>4, <2>1
        <3>9. readPayloads' = Append(readPayloads, sentPayloads[Len(readPayloads) + 1])
            BY <1>3, <3>6, <3>7, Zenon
        <3> HIDE DEF readPayloads, sentPayloads
        <3>10. Channel!Deliver
            BY <1>1, <2>3, <3>8, <3>9, Zenon DEF Channel!Deliver
        <3> QED
            BY <2>2, <3>10
    <2> QED
        BY <2>1, <2>4, <2>5
<1>7. CASE HandlerEnds \/ WriteEnds \/ UNCHANGED vars
    <2>1. UNCHANGED <<frames, waiting, wire, seen>>
        BY <1>7 DEF HandlerEnds, WriteEnds, asio, page, vars
    <2>2. RoomyInv'
        BY <2>1 DEF RoomyInv, Taken, Total, Whole, HeaderFits
    <2>3. UNCHANGED <<sentPayloads, readPayloads>>
        BY <2>1 DEF sentPayloads, readPayloads, Payload, Whole, Total, HeaderFits, Broken
    <2> QED
        BY <1>1, <2>2, <2>3
<1>8. ~WriteGoesOn
    <2> SUFFICES ASSUME WriteGoesOn PROVE FALSE
        OBVIOUS
    <2>1. completed \in Seq(1..Len(frames)) /\ completed # <<>> /\ ~Taken(Head(completed))
        BY DEF WriteGoesOn, Inv, TypeOK
    <2>2. Head(completed) \in DOMAIN frames
        BY <1>2, <2>1, TailFacts
    <2> QED
        BY <2>1, <2>2 DEF RoomyInv
<1>9. ~Writable
    BY DEF Writable, RoomyInv
<1> QED
    BY <1>1, <1>5, <1>6, <1>7, <1>8, <1>9 DEF Next, PageReadsSome, Channel!Next

Followed == (pacing = "roomy" => RoomyInv) /\ (pacing = "alone" => LastInv /\ InOrder)

LEMMA FollowedInit == Init => Followed /\ Channel!Init
<1> SUFFICES ASSUME Init PROVE Followed /\ Channel!Init
    OBVIOUS
<1>1. Followed
    BY DEF Init, Followed, RoomyInv, LastInv, InOrder
<1>2. sentPayloads = <<>> /\ readPayloads = <<>>
    <2>1. DOMAIN frames = {} /\ 1..seen = {}
        BY DEF Init
    <2> QED
        BY <2>1 DEF sentPayloads, readPayloads
<1> QED
    BY <1>1, <1>2 DEF Channel!Init, Watched, sentPayloads, readPayloads

LEMMA FollowedStep ==
    ASSUME Inv, Followed, [Next]_vars
    PROVE  Followed' /\ [Channel!Next]_<<Watched(sentPayloads), Watched(readPayloads)>>
<1>1. pacing' = pacing
    BY PacingStays
<1>2. CASE pacing = "roomy"
    BY <1>1, <1>2, RoomyStep DEF Followed
<1>3. CASE pacing # "roomy"
    <2>1. UNCHANGED <<Watched(sentPayloads), Watched(readPayloads)>>
        BY <1>1, <1>3 DEF Watched
    <2> QED
        BY <1>1, <1>3, <2>1, AloneStep DEF Followed
<1> QED
    BY <1>2, <1>3

LEMMA FollowedWhole == Inv /\ Followed => AloneStaysWhole
<1> SUFFICES ASSUME Inv, Followed, pacing \in {"alone", "roomy"} PROVE InOrder
    BY DEF AloneStaysWhole, InOrder
<1>1. CASE pacing = "alone"
    BY <1>1 DEF Followed
<1>2. CASE pacing = "roomy"
    <2>1. RoomyInv /\ wire \in Seq(Parts)
        BY <1>2 DEF Followed, Inv, TypeOK
    <2>2. Len(wire) \in Nat /\ DOMAIN wire = 1..Len(wire)
        BY <2>1, SeqFacts
    <2>3. \A j \in DOMAIN wire : /\ wire[j].frame = j /\ wire[j].from = 0
                                  /\ EndOf(wire[j]) = Total(frames[j])
        <3>1. \A j \in DOMAIN wire : wire[j].frame = j /\ Whole(wire[j]) /\ wire[j].size \in Nat
            BY <2>1, PartTypes DEF RoomyInv, Inv
        <3> QED
            BY <3>1 DEF Whole, EndOf
    <2> QED
        BY <2>1, <2>2, <2>3 DEF InOrder, Continues
<1> QED
    BY <1>1, <1>2

(* Who writes only when all before has been taken keeps frames whole on the *)
(* wire, however small the parts are that the socket takes.                 *)
THEOREM AloneWritesStayWhole == Spec => []AloneStaysWhole
<1>1. Init => Followed
    BY FollowedInit
<1>2. Inv /\ Followed /\ [Next]_vars => Followed'
    BY FollowedStep
<1> QED
    BY <1>1, <1>2, Invariance, FollowedWhole, PTL DEF Spec

(* With room for each frame the writing half implements FrameChannel: the   *)
(* page receives the frames whole, once, in order, from living buffers.     *)
THEOREM RoomyImplementsChannel == Spec => ImplementsChannel
<1>1. Init => Followed /\ Channel!Init
    BY FollowedInit
<1>2. Inv /\ Followed /\ [Next]_vars
        => Followed' /\ [Channel!Next]_<<Watched(sentPayloads), Watched(readPayloads)>>
    BY FollowedStep
<1> QED
    BY <1>1, <1>2, Invariance, PTL
    DEF Spec, ImplementsChannel, Channel!Spec
===============================================================================
