------------------------- MODULE WebSocketReadsProofs -------------------------
(* Theorems about WebSocketReads, for every size of the reception buffer.   *)
EXTENDS WebSocketReads, TLAPS

LEMMA ReceivedFacts ==
    ASSUME NEW bytes \in Nat, bytes > 0
    PROVE  /\ Received(bytes) \in 1..BufferSize /\ Received(bytes) <= bytes
           /\ bytes <= BufferSize => Received(bytes) = bytes
BY ReadsAssumption DEF Received

LEMMA FilledFacts ==
    ASSUME NEW buffer \in [1..BufferSize -> Nat], NEW from \in Nat, NEW n \in 1..BufferSize
    PROVE  /\ Filled(buffer, from, n) \in [1..BufferSize -> Nat]
           /\ \A i \in 1..n : Filled(buffer, from, n)[i] = from + i
           /\ \A i \in 1..BufferSize : i > n => Filled(buffer, from, n)[i] = buffer[i]
<1> DEFINE f == Filled(buffer, from, n)
<1>1. n \in Nat /\ BufferSize \in Nat /\ n <= BufferSize
    BY ReadsAssumption
<1>2. f = [i \in 1..BufferSize |-> IF i <= n THEN from + i ELSE buffer[i]]
    BY DEF Filled
<1> HIDE DEF f
<1>3. \A i \in 1..BufferSize : (i <= n => f[i] = from + i) /\ (i > n => f[i] = buffer[i])
    BY <1>1, <1>2
<1>4. f \in [1..BufferSize -> Nat]
    BY <1>1, <1>2
<1>5. \A i \in 1..n : i \in 1..BufferSize /\ i <= n
    BY <1>1
<1> QED
    BY <1>3, <1>4, <1>5 DEF f

LEMMA ConcatFacts ==
    ASSUME NEW S, NEW s \in Seq(S), NEW t \in Seq(S)
    PROVE  s \o t \in Seq(S) /\ Len(s \o t) = Len(s) + Len(t)
OBVIOUS

(* parse is given n bytes of the buffer, which come after those it had. *)
LEMMA ParsesFacts ==
    ASSUME TypeOK, NEW n \in 1..BufferSize, Parses(n)
    PROVE  /\ parsed' \in Seq(Nat) /\ Len(parsed') = Len(parsed) + n
           /\ \A i \in 1..Len(parsed) : parsed'[i] = parsed[i]
           /\ \A i \in 1..n : parsed'[Len(parsed) + i] = readBuffer[i]
<1> DEFINE bytes == [i \in 1..n |-> readBuffer[i]]
<1>1. parsed \in Seq(Nat) /\ n \in Nat /\ \A i \in 1..n : readBuffer[i] \in Nat
    <2>1. parsed \in Seq(Nat) /\ readBuffer \in [1..BufferSize -> Nat]
        BY DEF TypeOK
    <2>2. n \in Nat /\ \A i \in 1..n : i \in 1..BufferSize
        BY ReadsAssumption
    <2> QED BY <2>1, <2>2
<1>2. bytes \in Seq(Nat) /\ Len(bytes) = n /\ \A i \in 1..n : bytes[i] = readBuffer[i]
    BY <1>1
<1>3. parsed' = parsed \o bytes
    BY DEF Parses, ParsedBy
<1> HIDE DEF bytes
<1>4. parsed' \in Seq(Nat) /\ Len(parsed') = Len(parsed) + n
    BY <1>1, <1>2, <1>3, ConcatFacts, Zenon
<1>5. \A i \in 1..Len(parsed) : parsed'[i] = parsed[i]
    BY <1>1, <1>2, <1>3
<1>6. ASSUME NEW i \in 1..n
      PROVE  parsed'[Len(parsed) + i] = readBuffer[i]
    <2>1. parsed'[Len(parsed) + i] = bytes[i]
        BY <1>1, <1>2, <1>3
    <2> QED BY <1>2, <2>1
<1> QED BY <1>4, <1>5, <1>6

(* What the queue of completed reads holds. *)
LEMMA QueueFacts ==
    ASSUME NEW S, NEW s \in Seq(S)
    PROVE  /\ Len(s) \in Nat /\ (Len(s) = 0 => s = <<>>) /\ (s = <<>> => Len(s) = 0)
           /\ \A i \in 1..Len(s) : s[i] \in S
<1>1. Len(s) \in Nat /\ (s # <<>> => Len(s) >= 1) /\ \A i \in 1..Len(s) : s[i] \in S
    OBVIOUS
<1>2. s = <<>> => Len(s) = 0
    OBVIOUS
<1> QED
    BY <1>1, <1>2

LEMMA BytesFacts ==
    ASSUME TypeOK
    PROVE  /\ Len(completed) \in Nat /\ (Len(completed) = 0 <=> completed = <<>>)
           /\ BytesOf(1) \in 0..BufferSize /\ BytesOf(2) \in 0..BufferSize
           /\ Len(completed) > 0 => BytesOf(1) \in 1..BufferSize
           /\ Len(completed) = 0 => BytesOf(1) = 0
           /\ Len(completed) <= 1 => BytesOf(2) = 0
<1>1. completed \in Seq(1..BufferSize) /\ BufferSize \in Nat
    BY ReadsAssumption DEF TypeOK
<1>2. /\ Len(completed) \in Nat /\ (Len(completed) = 0 <=> completed = <<>>)
      /\ \A i \in 1..Len(completed) : completed[i] \in 1..BufferSize
    BY <1>1, QueueFacts
<1> QED
    BY <1>1, <1>2 DEF BytesOf

LEMMA AppendFacts ==
    ASSUME NEW S, NEW t \in Seq(S), NEW e \in S
    PROVE  /\ Append(t, e) \in Seq(S) /\ Len(Append(t, e)) = Len(t) + 1
           /\ Append(t, e)[Len(t) + 1] = e
           /\ \A i \in 1..Len(t) : Append(t, e)[i] = t[i]
OBVIOUS

LEMMA TailFacts ==
    ASSUME NEW S, NEW s \in Seq(S), s # <<>>
    PROVE  /\ Head(s) = s[1] /\ Tail(s) \in Seq(S) /\ Len(Tail(s)) = Len(s) - 1
           /\ \A i \in 1..(Len(s) - 1) : Tail(s)[i] = s[i + 1]
OBVIOUS

(* A read that completes is the first or the second of the queue ... *)
LEMMA QueueGrows ==
    ASSUME TypeOK, Len(completed) <= 1, NEW n \in 1..BufferSize,
           completed' = Append(completed, n)
    PROVE  /\ completed' \in Seq(1..BufferSize) /\ Len(completed') = Len(completed) + 1
           /\ Len(completed) = 0 => BytesOf(1)' = n /\ BytesOf(2)' = 0
           /\ Len(completed) = 1 => BytesOf(1)' = BytesOf(1) /\ BytesOf(2)' = n
<1>1. completed \in Seq(1..BufferSize) /\ Len(completed) \in Nat
    BY DEF TypeOK
<1>2. /\ completed' \in Seq(1..BufferSize) /\ Len(completed') = Len(completed) + 1
      /\ completed'[Len(completed) + 1] = n
      /\ \A i \in 1..Len(completed) : completed'[i] = completed[i]
    BY <1>1, AppendFacts
<1> QED
    BY <1>1, <1>2 DEF BytesOf

(* ... and a handler takes the first away. *)
LEMMA QueueShrinks ==
    ASSUME TypeOK, Len(completed) <= 2, completed # <<>>, completed' = Tail(completed)
    PROVE  /\ completed' \in Seq(1..BufferSize) /\ Len(completed') = Len(completed) - 1
           /\ Head(completed) = BytesOf(1)
           /\ BytesOf(1)' = BytesOf(2) /\ BytesOf(2)' = 0
<1>1. completed \in Seq(1..BufferSize) /\ Len(completed) \in Nat /\ Len(completed) # 0
    BY QueueFacts DEF TypeOK
<1>2. /\ Head(completed) = completed[1]
      /\ completed' \in Seq(1..BufferSize) /\ Len(completed') = Len(completed) - 1
      /\ \A i \in 1..(Len(completed) - 1) : completed'[i] = completed[i + 1]
    BY <1>1, TailFacts
<1>3. ASSUME Len(completed) = 2
      PROVE  completed'[1] = completed[2]
    <2>1. 1 \in 1..(Len(completed) - 1) /\ 1 + 1 = 2
        BY <1>3
    <2>2. completed'[1] = completed[1 + 1]
        BY <1>2, <2>1, Zenon
    <2> QED
        BY <2>1, <2>2
<1>4. Len(completed) = 1 \/ Len(completed) = 2
    <2> DEFINE l == Len(completed)
    <2>1. l \in Nat /\ l # 0 /\ l <= 2
        BY <1>1
    <2> HIDE DEF l
    <2>2. l = 1 \/ l = 2
        BY <2>1
    <2> QED
        BY <2>2 DEF l
<1> QED
    BY <1>1, <1>2, <1>3, <1>4 DEF BytesOf

-------------------------------------------------------------------------------
(* One operation for each of the two calls of start().  Every byte taken    *)
(* has been parsed or waits in the queue, and where a handler of the queue  *)
(* will look for a byte, readBuffer holds that byte or a later one.         *)
IInv ==
    /\ TypeOK
    /\ ReadsBalanced
    /\ NeverStale
    /\ \A j \in 1..BytesOf(1) : Len(parsed) + j <= readBuffer[j] /\ readBuffer[j] <= taken
    /\ \A j \in 1..BytesOf(2) : Len(parsed) + BytesOf(1) + j <= readBuffer[j] /\ readBuffer[j] <= taken

LEMMA InvInit == Init => IInv
<1> SUFFICES ASSUME Init PROVE IInv
    OBVIOUS
<1>1. TypeOK
    BY DEF Init, TypeOK
<1>2. Len(completed) = 0 /\ Len(parsed) = 0 /\ BytesOf(1) = 0 /\ BytesOf(2) = 0
    BY DEF Init, BytesOf
<1>3. DOMAIN parsed = {}
    BY DEF Init
<1> QED
    BY <1>1, <1>2, <1>3 DEF Init, IInv, ReadsBalanced, NeverStale, Queued

LEMMA InvTypes ==
    ASSUME IInv
    PROVE  /\ TypeOK /\ BufferSize \in Nat /\ BufferSize > 0
           /\ arrived \in Nat /\ taken \in Nat /\ taken <= arrived
           /\ readBuffer \in [1..BufferSize -> Nat] /\ pending \in 0..2
           /\ Len(parsed) \in Nat /\ DOMAIN parsed = 1..Len(parsed)
           /\ \A i \in DOMAIN parsed : parsed[i] \in Nat
           /\ Len(completed) \in Nat /\ pending + Len(completed) = 2
           /\ Len(parsed) + BytesOf(1) + BytesOf(2) = taken
<1>1. TypeOK /\ parsed \in Seq(Nat)
    BY DEF IInv, TypeOK
<1>2. Len(parsed) \in Nat /\ DOMAIN parsed = 1..Len(parsed) /\ \A i \in DOMAIN parsed : parsed[i] \in Nat
    BY <1>1
<1> QED
    <2>1. /\ BufferSize \in Nat /\ BufferSize > 0
          /\ arrived \in Nat /\ taken \in Nat /\ taken <= arrived
          /\ readBuffer \in [1..BufferSize -> Nat] /\ pending \in 0..2
        BY <1>1, ReadsAssumption DEF TypeOK
    <2>2. Len(completed) \in Nat /\ BytesOf(1) \in Nat /\ BytesOf(2) \in Nat
        BY <1>1, <2>1, BytesFacts
    <2>3. pending + Len(completed) = 2 /\ Len(parsed) + (BytesOf(1) + BytesOf(2)) = taken
        BY DEF IInv, ReadsBalanced, Queued
    <2>4. Len(parsed) + BytesOf(1) + BytesOf(2) = taken
        BY <1>2, <2>2, <2>3
    <2> QED
        BY <1>1, <1>2, <2>1, <2>2, <2>3, <2>4

LEMMA InvReadCompletes ==
    ASSUME IInv, ReadCompletes
    PROVE  IInv'
<1> DEFINE n == Received(Unread)
           p == Len(parsed)
           l == Len(completed)
           b1 == BytesOf(1)
           b2 == BytesOf(2)
<1>0. /\ TypeOK /\ BufferSize \in Nat
      /\ arrived \in Nat /\ taken \in Nat /\ taken <= arrived
      /\ readBuffer \in [1..BufferSize -> Nat] /\ pending \in 0..2
      /\ p \in Nat /\ DOMAIN parsed = 1..p /\ (\A i \in DOMAIN parsed : parsed[i] \in Nat)
      /\ l \in Nat /\ pending + l = 2 /\ p + b1 + b2 = taken
    BY InvTypes
<1>1. Unread \in Nat /\ Unread > 0 /\ Unread = arrived - taken
    BY <1>0 DEF ReadCompletes, Unread
<1>2. n \in 1..BufferSize /\ n <= Unread /\ n \in Nat /\ n > 0
    <2>1. n \in 1..BufferSize /\ n <= Unread
        BY <1>1, ReceivedFacts
    <2> HIDE DEF n
    <2> QED
        BY <1>0, <2>1
<1>3. /\ readBuffer' = Filled(readBuffer, taken, n) /\ taken' = taken + n
      /\ pending' = pending - 1 /\ pending > 0 /\ completed' = Append(completed, n)
      /\ UNCHANGED <<paced, arrived, parsed>>
    BY DEF ReadCompletes
<1>b. /\ b1 \in 0..BufferSize /\ b2 \in 0..BufferSize
      /\ l = 0 => b1 = 0
      /\ l <= 1 => b2 = 0
    BY <1>0, BytesFacts
<1>m. /\ \A j \in 1..b1 : p + j <= readBuffer[j] /\ readBuffer[j] <= taken
      /\ \A i \in DOMAIN parsed : i <= parsed[i] /\ parsed[i] <= taken
    BY DEF IInv, NeverStale
<1>4. /\ readBuffer' \in [1..BufferSize -> Nat]
      /\ \A i \in 1..n : readBuffer'[i] = taken + i
      /\ \A i \in 1..BufferSize : i > n => readBuffer'[i] = readBuffer[i]
    <2> HIDE DEF n, p, l, b1, b2
    <2>1. readBuffer \in [1..BufferSize -> Nat] /\ taken \in Nat /\ n \in 1..BufferSize
        BY <1>0, <1>2
    <2>2. /\ Filled(readBuffer, taken, n) \in [1..BufferSize -> Nat]
          /\ \A i \in 1..n : Filled(readBuffer, taken, n)[i] = taken + i
          /\ \A i \in 1..BufferSize : i > n => Filled(readBuffer, taken, n)[i] = readBuffer[i]
        BY <2>1, FilledFacts
    <2> QED
        BY <1>3, <2>2
<1>5. l = 0 \/ l = 1
    <2> HIDE DEF l
    <2> QED
        BY <1>0, <1>3
<1>6. /\ completed' \in Seq(1..BufferSize) /\ l' = l + 1
      /\ l = 0 => b1' = n /\ b2' = 0
      /\ l = 1 => b1' = b1 /\ b2' = n
    <2>1. Len(completed) <= 1
        BY <1>5
    <2> HIDE DEF n
    <2> QED
        BY <1>0, <1>2, <1>3, <2>1, QueueGrows
<1>7. p' = p
    BY <1>3
<1> HIDE DEF n, p, l, b1, b2
<1>8. taken' \in Nat /\ taken' <= arrived' /\ taken <= taken' /\ pending' \in 0..2 /\ pending' + l' = 2
    BY <1>0, <1>1, <1>2, <1>3, <1>6
<1>9. TypeOK'
    BY <1>0, <1>3, <1>4, <1>6, <1>8 DEF TypeOK
<1>10. p' + b1' + b2' = taken'
    <2>1. p \in Nat /\ taken \in Nat /\ p + b1 + b2 = taken /\ b1 \in Nat /\ b2 \in Nat
        BY <1>0, <1>b
    <2>2. CASE l = 0
        BY <1>2, <1>3, <1>6, <1>7, <1>b, <2>1, <2>2
    <2>3. CASE l = 1
        BY <1>2, <1>3, <1>6, <1>7, <1>b, <2>1, <2>3
    <2> QED
        BY <1>5, <2>2, <2>3
<1>11. \A i \in DOMAIN parsed : i <= parsed[i] /\ parsed[i] <= taken'
    BY <1>0, <1>8, <1>m
<1>12. ASSUME NEW j \in 1..b1'
       PROVE  p' + j <= readBuffer'[j] /\ readBuffer'[j] <= taken'
    <2>1. CASE l = 0
        <3>1. j \in 1..n /\ j \in Nat /\ j <= n /\ taken = p
            BY <1>0, <1>2, <1>6, <1>b, <1>12, <2>1
        <3>2. readBuffer'[j] = taken + j
            BY <1>4, <3>1
        <3> QED
            BY <1>0, <1>2, <1>3, <1>7, <3>1, <3>2
    <2>2. CASE l = 1
        <3>1. j \in 1..b1 /\ j \in 1..BufferSize /\ j \in Nat
            BY <1>0, <1>6, <1>b, <1>12, <2>2
        <3>2. p + j <= readBuffer[j] /\ readBuffer[j] <= taken /\ readBuffer[j] \in Nat
            BY <1>0, <1>m, <3>1
        <3>3. CASE j <= n
            <4>1. readBuffer'[j] = taken + j
                BY <1>2, <1>4, <3>1, <3>3
            <4>2. p <= taken
                BY <1>0, <1>b
            <4> QED
                BY <1>0, <1>2, <1>3, <1>7, <3>1, <3>3, <4>1, <4>2
        <3>4. CASE ~(j <= n)
            <4>1. readBuffer'[j] = readBuffer[j]
                BY <1>2, <1>4, <3>1, <3>4
            <4> QED
                BY <1>0, <1>7, <1>8, <3>1, <3>2, <4>1
        <3> QED
            BY <3>3, <3>4
    <2> QED
        BY <1>5, <2>1, <2>2
<1>13. ASSUME NEW j \in 1..b2'
       PROVE  p' + b1' + j <= readBuffer'[j] /\ readBuffer'[j] <= taken'
    <2>1. l = 1 /\ j \in 1..n /\ j \in Nat /\ j <= n /\ b1' = b1 /\ b2 = 0
        BY <1>2, <1>5, <1>6, <1>b, <1>13
    <2>2. readBuffer'[j] = taken + j
        BY <1>4, <2>1
    <2> QED
        BY <1>0, <1>2, <1>3, <1>7, <1>b, <2>1, <2>2
<1>14. ReadsBalanced'
    <2>1. Len(parsed') + (BytesOf(1)' + BytesOf(2)') = taken'
        <3>1. p' + (b1' + b2') = taken'
            BY <1>0, <1>2, <1>5, <1>6, <1>7, <1>b, <1>10
        <3> QED
            BY <3>1 DEF p, b1, b2
    <2>2. pending' + Len(completed') = 2
        BY <1>8 DEF l
    <2> QED
        BY <2>1, <2>2 DEF ReadsBalanced, Queued
<1>15. NeverStale'
    BY <1>3, <1>11 DEF NeverStale
<1> QED
    BY <1>9, <1>12, <1>13, <1>14, <1>15 DEF IInv, p, b1, b2

LEMMA InvHandler ==
    ASSUME IInv, Handler
    PROVE  IInv'
<1> DEFINE p == Len(parsed)
           l == Len(completed)
           b1 == BytesOf(1)
           b2 == BytesOf(2)
<1>0. /\ TypeOK /\ BufferSize \in Nat /\ taken \in Nat
      /\ readBuffer \in [1..BufferSize -> Nat] /\ pending \in 0..2
      /\ p \in Nat /\ DOMAIN parsed = 1..p /\ (\A i \in DOMAIN parsed : parsed[i] \in Nat)
      /\ l \in Nat /\ pending + l = 2 /\ p + b1 + b2 = taken
    BY InvTypes
<1>1. /\ completed # <<>> /\ Parses(Head(completed)) /\ completed' = Tail(completed)
      /\ pending' = pending + 1 /\ UNCHANGED <<paced, arrived, taken, readBuffer>>
    BY DEF Handler
<1>b. /\ l # 0 /\ b2 \in 0..BufferSize
      /\ l > 0 => b1 \in 1..BufferSize
    BY <1>0, <1>1, BytesFacts
<1>m. /\ \A j \in 1..b1 : p + j <= readBuffer[j] /\ readBuffer[j] <= taken
      /\ \A j \in 1..b2 : p + b1 + j <= readBuffer[j] /\ readBuffer[j] <= taken
      /\ \A i \in DOMAIN parsed : i <= parsed[i] /\ parsed[i] <= taken
    BY DEF IInv, NeverStale
<1>2. (l = 1 \/ l = 2) /\ l <= 2 /\ b1 \in 1..BufferSize /\ b1 \in Nat
    <2> HIDE DEF l, b1, b2
    <2> QED
        BY <1>0, <1>b
<1>3. /\ completed' \in Seq(1..BufferSize) /\ l' = l - 1
      /\ Head(completed) = b1 /\ b1' = b2 /\ b2' = 0
    BY <1>0, <1>1, <1>2, QueueShrinks
<1>4. /\ parsed' \in Seq(Nat) /\ p' = p + b1
      /\ \A i \in 1..p : parsed'[i] = parsed[i]
      /\ \A i \in 1..b1 : parsed'[p + i] = readBuffer[i]
    <2>1. Parses(b1)
        BY <1>1, <1>3
    <2> HIDE DEF b1
    <2> QED
        BY <1>0, <1>2, <2>1, ParsesFacts
<1>5. DOMAIN parsed' = 1..p'
    BY <1>4
<1> HIDE DEF p, l, b1, b2
<1>6. pending' \in 0..2 /\ pending' + l' = 2
    BY <1>0, <1>1, <1>2, <1>3
<1>7. TypeOK'
    BY <1>0, <1>1, <1>3, <1>4, <1>6 DEF TypeOK
<1>8. ReadsBalanced'
    <2>1. p' + (b1' + b2') = taken'
        BY <1>0, <1>1, <1>2, <1>3, <1>4, <1>b
    <2> QED
        BY <1>6, <2>1 DEF ReadsBalanced, Queued, p, l, b1, b2
<1>9. ASSUME NEW i \in DOMAIN parsed'
      PROVE  i <= parsed'[i] /\ parsed'[i] <= taken'
    <2>1. i \in Nat /\ 1 <= i /\ i <= p + b1
        BY <1>0, <1>2, <1>4, <1>5, <1>9
    <2>2. CASE i <= p
        <3>1. i \in 1..p
            BY <1>0, <2>1, <2>2
        <3> QED
            BY <1>0, <1>1, <1>4, <1>m, <3>1
    <2>3. CASE i > p
        <3>1. PICK j \in 1..b1 : i = p + j
            <4>1. i - p \in 1..b1 /\ i = p + (i - p)
                BY <1>0, <1>2, <2>1, <2>3
            <4> QED
                BY <4>1
        <3> QED
            BY <1>1, <1>4, <1>m, <3>1
    <2> QED
        BY <1>0, <2>1, <2>2, <2>3
<1>10. \A j \in 1..b1' : p' + j <= readBuffer'[j] /\ readBuffer'[j] <= taken'
    BY <1>1, <1>3, <1>4, <1>m
<1>11. 1..b2' = {}
    BY <1>3
<1> QED
    BY <1>7, <1>8, <1>9, <1>10, <1>11 DEF IInv, NeverStale, p, b1, b2

LEMMA InvStep == IInv /\ [Next]_vars => IInv'
<1> SUFFICES ASSUME IInv, [Next]_vars PROVE IInv'
    OBVIOUS
<1>1. ASSUME NEW n \in 1..MaxBytes, BytesArrive(n)
      PROVE  IInv'
    <2>1. arrived' = arrived + n /\ n \in Nat /\ UNCHANGED <<paced, taken, readBuffer, pending, completed, parsed>>
        BY <1>1, ReadsAssumption DEF BytesArrive
    <2>2. TypeOK'
        BY <2>1, InvTypes DEF TypeOK
    <2> QED
        BY <2>1, <2>2 DEF IInv, ReadsBalanced, NeverStale, Queued, BytesOf
<1>2. CASE UNCHANGED vars
    BY <1>2 DEF vars, IInv, TypeOK, ReadsBalanced, NeverStale, Queued, BytesOf
<1> QED
    BY <1>1, <1>2, InvReadCompletes, InvHandler DEF Next

LEMMA InvAlways == Spec => []IInv
BY InvInit, InvStep, PTL DEF Spec

(* The variables keep their types, and the counts their bounds. *)
THEOREM TypeCorrect == Spec => []TypeOK
<1>1. IInv => TypeOK
    BY DEF IInv
<1> QED BY <1>1, InvAlways, PTL

(* However the bytes come, start() called twice keeps exactly two reads     *)
(* going, and parse is given as many bytes as were received, or will be by  *)
(* the handlers of the queue.                                               *)
THEOREM ReadsStayBalanced == Spec => []ReadsBalanced
<1>1. IInv => ReadsBalanced
    BY DEF IInv
<1> QED BY <1>1, InvAlways, PTL

(* However the bytes come, two reads that share readBuffer show parse no    *)
(* byte of the past and no memory that was never written.                   *)
THEOREM NothingStaleIsParsed == Spec => []NeverStale
<1>1. IInv => NeverStale
    BY DEF IInv
<1> QED BY <1>1, InvAlways, PTL

-------------------------------------------------------------------------------
(* One buffer at a time: what came is not taken, or completed by one read   *)
(* whose bytes are still in the buffer, or parsed.                          *)
PacedInv ==
    paced =>
        /\ Unread <= BufferSize
        /\ Unread = 0 \/ completed = <<>>
        /\ Len(completed) <= 1
        /\ \A j \in 1..BytesOf(1) : readBuffer[j] = Len(parsed) + j
        /\ \A i \in DOMAIN parsed : parsed[i] = i

LEMMA PacedInit == Init => PacedInv
<1> SUFFICES ASSUME Init PROVE PacedInv
    OBVIOUS
<1>1. Len(completed) = 0 /\ BytesOf(1) = 0 /\ DOMAIN parsed = {} /\ Unread = 0
    BY DEF Init, BytesOf, Unread
<1> QED
    BY <1>1, ReadsAssumption DEF PacedInv

LEMMA PacedStep == IInv /\ PacedInv /\ [Next]_vars => PacedInv'
<1> SUFFICES ASSUME IInv, PacedInv, [Next]_vars, paced, paced' = paced
             PROVE  PacedInv'
    <2>1. [Next]_vars => paced' = paced
        BY DEF Next, vars, BytesArrive, ReadCompletes, Handler
    <2> QED
        BY <2>1 DEF PacedInv
<1> DEFINE p == Len(parsed)
           l == Len(completed)
           b1 == BytesOf(1)
           b2 == BytesOf(2)
<1>0. /\ TypeOK /\ BufferSize \in Nat
      /\ arrived \in Nat /\ taken \in Nat /\ taken <= arrived
      /\ readBuffer \in [1..BufferSize -> Nat]
      /\ p \in Nat /\ DOMAIN parsed = 1..p
      /\ l \in Nat /\ p + b1 + b2 = taken
    BY InvTypes
<1>b. /\ b1 \in 0..BufferSize /\ b2 \in 0..BufferSize
      /\ l = 0 => completed = <<>>
      /\ completed = <<>> => l = 0
      /\ l > 0 => b1 \in 1..BufferSize
      /\ l = 0 => b1 = 0
      /\ l <= 1 => b2 = 0
    BY <1>0, BytesFacts
<1>m. /\ Unread <= BufferSize /\ (Unread = 0 \/ completed = <<>>) /\ l <= 1
      /\ \A j \in 1..b1 : readBuffer[j] = p + j
      /\ \A i \in DOMAIN parsed : parsed[i] = i
    BY DEF PacedInv
<1>u. Unread \in Nat /\ Unread = arrived - taken /\ Unread' = arrived' - taken'
    BY <1>0 DEF Unread
<1>1. ASSUME NEW n \in 1..MaxBytes, BytesArrive(n)
      PROVE  PacedInv'
    <2>1. /\ arrived' = arrived + n /\ n \in Nat /\ n <= BufferSize /\ p = arrived
          /\ UNCHANGED <<paced, taken, readBuffer, pending, completed, parsed>>
        BY <1>1, ReadsAssumption DEF BytesArrive
    <2>2. p' = p /\ l' = l /\ b1' = b1
        BY <2>1 DEF BytesOf
    <2> HIDE DEF p, l, b1, b2
    <2>3. taken = arrived /\ l = 0 /\ Unread' <= BufferSize
        BY <1>0, <1>b, <1>u, <2>1
    <2> QED
        BY <1>b, <1>m, <2>1, <2>2, <2>3 DEF PacedInv, p, l, b1
<1>2. CASE ReadCompletes
    <2> DEFINE n == Received(Unread)
    <2>1. Unread > 0 /\ completed = <<>> /\ l = 0
        BY <1>2, <1>b, <1>m DEF ReadCompletes
    <2>2. n = Unread /\ n \in 1..BufferSize
        BY <1>m, <1>u, <2>1, ReceivedFacts
    <2>3. /\ readBuffer' = Filled(readBuffer, taken, n) /\ taken' = taken + n
          /\ completed' = Append(completed, n) /\ arrived' = arrived /\ parsed' = parsed
        BY <1>2 DEF ReadCompletes
    <2> HIDE DEF n
    <2>4. l' = l + 1 /\ b1' = n
        <3>1. Len(completed) <= 1 /\ Len(completed) = 0
            BY <2>1
        <3> QED
            BY <1>0, <2>2, <2>3, <3>1, QueueGrows
    <2>5. p' = p
        BY <2>3
    <2> HIDE DEF p, l, b1, b2
    <2>6. \A j \in 1..n : readBuffer'[j] = taken + j
        <3>1. readBuffer \in [1..BufferSize -> Nat] /\ taken \in Nat
            BY <1>0
        <3>2. \A j \in 1..n : Filled(readBuffer, taken, n)[j] = taken + j
            BY <2>2, <3>1, FilledFacts
        <3> QED
            BY <2>3, <3>2
    <2>7. Unread' = 0 /\ p = taken
        BY <1>0, <1>b, <1>u, <2>1, <2>2, <2>3
    <2>8. /\ Unread' <= BufferSize /\ l' <= 1
          /\ \A j \in 1..b1' : readBuffer'[j] = p' + j
        BY <1>0, <2>1, <2>4, <2>5, <2>6, <2>7
    <2> QED
        BY <1>m, <2>3, <2>7, <2>8 DEF PacedInv, p, l, b1
<1>3. CASE Handler
    <2>1. /\ completed # <<>> /\ Parses(Head(completed)) /\ completed' = Tail(completed)
          /\ UNCHANGED <<arrived, taken, readBuffer>>
        BY <1>3 DEF Handler
    <2>2. l = 1 /\ l <= 2 /\ b1 \in 1..BufferSize /\ b1 \in Nat /\ b2 = 0 /\ Unread = 0
        <3> HIDE DEF l, b1, b2
        <3> QED
            BY <1>0, <1>b, <1>m, <2>1
    <2>3. l' = l - 1 /\ Head(completed) = b1 /\ b1' = b2 /\ completed' \in Seq(1..BufferSize)
        BY <1>0, <2>1, <2>2, QueueShrinks
    <2>4. /\ parsed' \in Seq(Nat) /\ p' = p + b1
          /\ \A i \in 1..p : parsed'[i] = parsed[i]
          /\ \A i \in 1..b1 : parsed'[p + i] = readBuffer[i]
        <3>1. Parses(b1)
            BY <2>1, <2>3
        <3> HIDE DEF b1
        <3> QED
            BY <1>0, <2>2, <3>1, ParsesFacts
    <2>5. DOMAIN parsed' = 1..p'
        BY <2>4
    <2> HIDE DEF p, l, b1, b2
    <2>6. ASSUME NEW i \in DOMAIN parsed'
          PROVE  parsed'[i] = i
        <3>1. i \in Nat /\ 1 <= i /\ i <= p + b1
            BY <1>0, <2>2, <2>4, <2>5, <2>6
        <3>2. CASE i <= p
            <4>1. i \in 1..p
                BY <1>0, <3>1, <3>2
            <4> QED
                BY <1>0, <1>m, <2>4, <4>1
        <3>3. CASE i > p
            <4>1. PICK j \in 1..b1 : i = p + j
                <5>1. i - p \in 1..b1 /\ i = p + (i - p)
                    BY <1>0, <2>2, <3>1, <3>3
                <5> QED
                    BY <5>1
            <4> QED
                BY <1>m, <2>4, <4>1
        <3> QED
            BY <1>0, <3>1, <3>2, <3>3
    <2>7. Unread' = Unread /\ Unread' <= BufferSize /\ l' <= 1 /\ 1..b1' = {}
        BY <1>0, <1>m, <1>u, <2>1, <2>2, <2>3
    <2> QED
        BY <2>2, <2>6, <2>7 DEF PacedInv, p, l, b1
<1>4. CASE UNCHANGED vars
    BY <1>4 DEF vars, PacedInv, Unread, BytesOf
<1> QED
    BY <1>1, <1>2, <1>3, <1>4 DEF Next

(* Two reads that share a buffer do no harm while the bytes come one buffer *)
(* at a time: the second read only ever completes after the handler of the  *)
(* first.                                                                   *)
THEOREM PacedBytesInOrder == Spec => []ParsedInOrder
<1>1. PacedInv => ParsedInOrder
    BY DEF PacedInv, ParsedInOrder
<1> QED BY InvInit, InvStep, PacedInit, PacedStep, <1>1, PTL DEF Spec
===============================================================================
