------------------------------ MODULE CodecsProofs ------------------------------
(***************************************************************************)
(* Theorems about FunctionCalls, for any calls and any size of the buffer;  *)
(* about Parameters, for any values and declared types; about StaticFile,    *)
(* for any sizes of files, buffers and integers; and                        *)
(* about Encodings, for texts of any size: that decoding a URI gives back   *)
(* what was encoded, that a digest is coded as in Base64's definition, and  *)
(* that SHA-1's last blocks are padded as in its definition.                *)
(*                                                                         *)
(* What a fold or a recursive function returns is proved by induction on    *)
(* the number of its steps (NatInd), as a fact about a set of numbers.      *)
(***************************************************************************)
EXTENDS FunctionCalls, Parameters, StaticFile, Encodings, Integers, SequencesExt, FiniteSetTheorems,
        WellFoundedInduction, TLAPS

-------------------------------------------------------------------------------
(* Numbers.                                                                 *)

(* Quotients and remainders. *)
LEMMA DivMod ==
    ASSUME NEW n \in Nat, NEW d \in Nat \ {0}
    PROVE  /\ n \div d \in Nat /\ n % d \in 0..d - 1
           /\ n = (n \div d) * d + (n % d)
OBVIOUS

(* There is one quotient and one remainder. *)
LEMMA DivUnique ==
    ASSUME NEW q \in Nat, NEW r \in Nat, NEW d \in Nat \ {0}, r < d
    PROVE  (q * d + r) \div d = q /\ (q * d + r) % d = r
OBVIOUS

(* Between two multiples the quotient stays. *)
LEMMA DivNext ==
    ASSUME NEW n \in Nat, NEW d \in Nat \ {0}, (n + 1) % d # 0
    PROVE  (n + 1) \div d = n \div d
OBVIOUS

(* The sum of two multiples is one. *)
LEMMA SumOfWhole ==
    ASSUME NEW a \in Nat, NEW b \in Nat, NEW d \in Nat \ {0}, a % d = 0, b % d = 0
    PROVE  (a + b) % d = 0
<1> DEFINE k == a \div d
           l == b \div d
<1>1. k \in Nat /\ a = k * d
    BY DivMod
<1>2. l \in Nat /\ b = l * d
    BY DivMod
<1> HIDE DEF k, l
<1>3. k + l \in Nat /\ 0 \in Nat /\ 0 < d
    BY <1>1, <1>2
<1>4. ((k + l) * d + 0) % d = 0
    BY <1>3, DivUnique
<1>5. a + b = (k + l) * d + 0
    BY <1>1, <1>2
<1> QED
    BY <1>4, <1>5

-------------------------------------------------------------------------------
(* Induction, and sequences.                                                *)

(* A set of numbers has a smallest one. *)
LEMMA NatMin ==
    ASSUME NEW T, T \subseteq Nat, T # {}
    PROVE  \E x \in T : \A y \in T : x <= y
<1> DEFINE R == OpToRel(<, Nat)
<1>1. \A x, y \in Nat : y < x => <<y, x>> \in R
    BY DEF OpToRel
<1>2. IsWellFoundedOn(R, Nat)
    BY NatLessThanWellFounded, Zenon
<1> HIDE DEF R
<1>3. PICK x \in T : \A y \in T : ~(<<y, x>> \in R)
    BY <1>2, WFMin
<1>4. \A y \in T : ~(y < x)
    BY <1>1, <1>3
<1> QED
    BY <1>4

(* Induction, on a set. *)
LEMMA NatInd ==
    ASSUME NEW T, 0 \in T, \A n \in Nat : n \in T => n + 1 \in T
    PROVE  Nat \subseteq T
<1> DEFINE F == Nat \ T
<1> SUFFICES ASSUME F # {}
             PROVE  FALSE
    BY Zenon
<1>1. PICK x \in F : \A y \in F : x <= y
    BY NatMin
<1>2. x \in Nat /\ x # 0 /\ x \notin T
    BY <1>1
<1>3. x - 1 \in Nat /\ (x - 1) + 1 = x /\ ~(x <= x - 1)
    BY <1>2
<1>4. x - 1 \in T
    BY <1>1, <1>3, Zenon
<1> QED
    BY <1>2, <1>3, <1>4, Zenon

(* What Append does, member by member. *)
LEMMA Appended ==
    ASSUME NEW S, NEW s \in Seq(S), NEW e \in S
    PROVE  /\ Append(s, e) \in Seq(S) /\ Len(Append(s, e)) = Len(s) + 1
           /\ Append(s, e)[Len(s) + 1] = e
           /\ \A i \in 1..Len(s) : Append(s, e)[i] = s[i]
OBVIOUS

(* What joining does, member by member. *)
LEMMA Joined ==
    ASSUME NEW S, NEW s \in Seq(S), NEW t \in Seq(S)
    PROVE  /\ s \o t \in Seq(S) /\ Len(s \o t) = Len(s) + Len(t)
           /\ \A i \in 1..Len(s) : (s \o t)[i] = s[i]
           /\ \A i \in 1..Len(t) : (s \o t)[Len(s) + i] = t[i]
OBVIOUS

(* Sequences with the same members are the same. *)
LEMMA SameSequence ==
    ASSUME NEW S, NEW s \in Seq(S), NEW t \in Seq(S), Len(s) = Len(t),
           \A i \in 1..Len(s) : s[i] = t[i]
    PROVE  s = t
OBVIOUS

-------------------------------------------------------------------------------
(* FlattenSeq.                                                              *)

(* FlattenSeq: the function it is defined by, and the i-th step of it.      *)
FlattenStep(s, i, before) == IF i = 1 THEN s[i] ELSE before \o s[i]

(* f holds what the first k parts of s make when they are joined.           *)
Partials(s, k, f) == f = [i \in 1..k |-> FlattenStep(s, i, f[i - 1])]

(* The lengths up to which s has such a function. *)
HavePartials(s) == {k \in Nat : \E f : Partials(s, k, f)}

(* There is such a function for every length. *)
LEMMA PartialsExist ==
    ASSUME NEW s
    PROVE  Nat \subseteq HavePartials(s)
<1>1. 0 \in HavePartials(s)
    <2> DEFINE f == [i \in 1..0 |-> 0]
    <2>1. f = [i \in 1..0 |-> FlattenStep(s, i, f[i - 1])]
        OBVIOUS
    <2> HIDE DEF f
    <2>2. Partials(s, 0, f)
        BY <2>1, Zenon DEF Partials
    <2>3. 0 \in Nat
        OBVIOUS
    <2> QED
        BY <2>2, <2>3, Zenon DEF HavePartials
<1>2. ASSUME NEW k \in Nat, k \in HavePartials(s)
      PROVE  k + 1 \in HavePartials(s)
    <2>1. PICK f : Partials(s, k, f)
        BY <1>2, Zenon DEF HavePartials
    <2> DEFINE last == FlattenStep(s, k + 1, f[k])
    <2>l. last = FlattenStep(s, k + 1, f[k])
        OBVIOUS
    <2> HIDE DEF last
    <2> DEFINE g == [i \in 1..(k + 1) |-> IF i = k + 1 THEN last ELSE f[i]]
    <2>2. k + 1 \in 1..(k + 1) /\ \A i \in 1..k : i \in 1..(k + 1) /\ i # k + 1
        BY <1>2
    <2>3. g[k + 1] = last /\ \A i \in 1..k : g[i] = f[i]
        BY <2>2, Zenon
    <2>4. g = [i \in 1..(k + 1) |-> g[i]]
        BY Zenon
    <2> HIDE DEF g
    <2>5. \A i \in 1..k : f[i] = FlattenStep(s, i, f[i - 1])
        BY <2>1, Zenon DEF Partials
    <2>6. ASSUME NEW i \in 1..k
          PROVE  g[i] = FlattenStep(s, i, g[i - 1])
        <3>1. i # 1 => i - 1 \in 1..k
            BY <1>2
        <3>2. FlattenStep(s, i, f[i - 1]) = FlattenStep(s, i, g[i - 1])
            BY <2>3, <3>1, Zenon DEF FlattenStep
        <3> QED
            BY <2>3, <2>5, <3>2, Zenon
    <2>7. g[k + 1] = FlattenStep(s, k + 1, g[k + 1 - 1])
        <3>1. k + 1 # 1 => k \in 1..k
            BY <1>2
        <3>2. FlattenStep(s, k + 1, f[k]) = FlattenStep(s, k + 1, g[k])
            BY <2>3, <3>1, Zenon DEF FlattenStep
        <3>3. k + 1 - 1 = k
            BY <1>2
        <3> QED
            BY <2>3, <2>l, <3>2, <3>3, Zenon
    <2>8. \A i \in 1..(k + 1) : i \in 1..k \/ i = k + 1
        BY <1>2
    <2>9. ASSUME NEW i \in 1..(k + 1)
          PROVE  g[i] = FlattenStep(s, i, g[i - 1])
        <3>1. CASE i \in 1..k
            BY <2>6, <3>1, Zenon
        <3>2. CASE i = k + 1
            BY <2>7, <3>2
        <3> QED
            BY <2>8, <3>1, <3>2, Zenon
    <2>10. [i \in 1..(k + 1) |-> g[i]] = [i \in 1..(k + 1) |-> FlattenStep(s, i, g[i - 1])]
        BY <2>9, Zenon
    <2>11. Partials(s, k + 1, g)
        BY <2>4, <2>10, Zenon DEF Partials
    <2>12. k + 1 \in Nat
        BY <1>2
    <2> QED
        BY <2>11, <2>12, Zenon DEF HavePartials
<1> QED
    BY <1>1, <1>2, NatInd

(* FlattenSeq is the last value of it. *)
LEMMA FlattenPartials ==
    ASSUME NEW s, Len(s) \in Nat, Len(s) # 0
    PROVE  \E f : Partials(s, Len(s), f) /\ FlattenSeq(s) = f[Len(s)]
<1> DEFINE f == CHOOSE g : g = [i \in 1..Len(s) |-> IF i = 1 THEN s[i] ELSE g[i - 1] \o s[i]]
<1>1. FlattenSeq(s) = f[Len(s)]
    BY Zenon DEF FlattenSeq
<1>2. \E g : g = [i \in 1..Len(s) |-> IF i = 1 THEN s[i] ELSE g[i - 1] \o s[i]]
    BY PartialsExist, Zenon DEF HavePartials, Partials, FlattenStep
<1>3. f = [i \in 1..Len(s) |-> IF i = 1 THEN s[i] ELSE f[i - 1] \o s[i]]
    BY <1>2, Zenon
<1> HIDE DEF f
<1> QED
    BY <1>1, <1>3, Zenon DEF Partials, FlattenStep

(* Nothing joined is nothing. *)
LEMMA FlattenEmpty == FlattenSeq(<<>>) = <<>>
    BY DEF FlattenSeq

(* A flattened sequence is reached from <<>> by joining part after part.    *)
LEMMA FlattenJoins ==
    ASSUME NEW S, NEW s \in Seq(Seq(S))
    PROVE  \E g : /\ g[0] = <<>> /\ g[Len(s)] = FlattenSeq(s)
                  /\ \A k \in 1..Len(s) : g[k] = g[k - 1] \o s[k]
<1> DEFINE n == Len(s)
<1>1. n \in Nat /\ \A k \in 1..n : s[k] \in Seq(S)
    OBVIOUS
<1>2. CASE n = 0
    <2>1. s = <<>>
        BY <1>2
    <2> DEFINE g == [k \in {0} |-> <<>>]
    <2>2. g[0] = <<>>
        OBVIOUS
    <2>3. \A k \in 1..n : FALSE
        BY <1>2
    <2>4. FlattenSeq(s) = <<>>
        BY <2>1, FlattenEmpty, Zenon
    <2> HIDE DEF g
    <2> QED
        BY <1>2, <2>2, <2>3, <2>4, Zenon
<1>3. CASE n # 0
    <2>1. PICK f : Partials(s, n, f) /\ FlattenSeq(s) = f[n]
        BY <1>1, <1>3, FlattenPartials
    <2> HIDE DEF n
    <2>2. \A i \in 1..n : f[i] = FlattenStep(s, i, f[i - 1])
        BY <2>1, Zenon DEF Partials
    <2> DEFINE g == [k \in 0..n |-> IF k = 0 THEN <<>> ELSE f[k]]
    <2>3. 0 \in 0..n /\ n \in 1..n /\ \A k \in 1..n : k \in 0..n /\ k # 0 /\ k - 1 \in 0..n
        BY <1>1, <1>3
    <2>4. g[0] = <<>> /\ \A k \in 1..n : g[k] = f[k]
        BY <2>3, Zenon
    <2> HIDE DEF g
    <2>5. ASSUME NEW k \in 1..n
          PROVE  g[k] = g[k - 1] \o s[k]
        <3>1. CASE k = 1
            <4>1. s[k] \in Seq(S)
                BY <1>1
            <4>2. <<>> \o s[k] = s[k]
                BY <4>1
            <4>3. f[k] = s[k]
                BY <2>2, <3>1, Zenon DEF FlattenStep
            <4>4. k - 1 = 0
                BY <3>1
            <4> QED
                BY <2>4, <4>2, <4>3, <4>4, Zenon
        <3>2. CASE k # 1
            <4>1. k - 1 \in 1..n
                BY <1>1, <3>2
            <4> QED
                BY <2>2, <2>4, <3>2, <4>1, Zenon DEF FlattenStep
        <3> QED
            BY <3>1, <3>2
    <2> QED
        BY <2>1, <2>3, <2>4, <2>5, Zenon DEF n
<1> QED
    BY <1>2, <1>3

(* The length of a sequence is a number: for terms the solver cannot type.  *)
LEMMA LengthNat ==
    ASSUME NEW S, NEW s \in Seq(S)
    PROVE  Len(s) \in Nat
OBVIOUS

(* Part k of s lies in p behind place at[k - 1].                            *)
Lies(s, p, at, k) ==
    /\ at[k - 1] \in Nat /\ at[k] \in Nat
    /\ at[k] = at[k - 1] + Len(s[k]) /\ at[k] <= Len(p)
    /\ \A j \in 1..Len(s[k]) : p[at[k - 1] + j] = s[k][j]

(* A part lies where it was when something is appended. *)
LEMMA LiesStill ==
    ASSUME NEW S, NEW p \in Seq(S), NEW q \in Seq(S), NEW s, NEW at, NEW k, Lies(s, p, at, k),
           s[k] \in Seq(S)
    PROVE  Lies(s, p \o q, at, k)
<1> DEFINE r == p \o q
           a == at[k - 1]
           l == Len(s[k])
           u == Len(p)
           v == Len(r)
           w == Len(q)
<1>1. /\ v = u + w
      /\ \A i \in 1..u : r[i] = p[i]
    BY Joined
<1>2. u \in Nat /\ w \in Nat /\ l \in Nat
    OBVIOUS
<1>3. /\ a \in Nat /\ at[k] \in Nat /\ at[k] = a + l /\ at[k] <= u
      /\ \A j \in 1..l : p[a + j] = s[k][j]
    BY Zenon DEF Lies
<1> HIDE DEF r, a, l, u, v, w
<1>4. at[k] <= v
    BY <1>1, <1>2, <1>3
<1>5. \A j \in 1..l : a + j \in 1..u
    BY <1>2, <1>3
<1>6. \A j \in 1..l : r[a + j] = s[k][j]
    BY <1>1, <1>3, <1>5, Zenon
<1> QED
    BY <1>3, <1>4, <1>6, Zenon DEF Lies, r, a, l, u, v, w

(* A part that is appended lies behind what was there. *)
LEMMA LiesBehind ==
    ASSUME NEW S, NEW p \in Seq(S), NEW q \in Seq(S), NEW s, NEW at, NEW k, s[k] = q,
           at[k - 1] = Len(p), at[k] = Len(p \o q)
    PROVE  Lies(s, p \o q, at, k)
<1> DEFINE r == p \o q
           l == Len(q)
           u == Len(p)
           v == Len(r)
<1>1. /\ r \in Seq(S) /\ v = u + l
      /\ \A i \in 1..u : r[i] = p[i]
      /\ \A i \in 1..l : r[u + i] = q[i]
    BY Joined
<1>2. u \in Nat /\ l \in Nat
    BY LengthNat, Zenon
<1>3. at[k - 1] = u /\ at[k] = v /\ s[k] = q
    OBVIOUS
<1> HIDE DEF r, l, u, v
<1>4. v \in Nat /\ v <= v
    BY <1>1, <1>2
<1> QED
    BY <1>1, <1>2, <1>3, <1>4, Zenon DEF Lies, r, l, u, v

(* The numbers n such that the first n parts lie where at says. *)
PlacedUpTo(S, s, g, at) ==
    {m \in Nat : m \in 0..Len(s) =>
        g[m] \in Seq(S) /\ at[m] = Len(g[m]) /\ \A k \in 1..m : Lies(s, g[m], at, k)}

(* Where the parts of a flattened sequence lie: part k from at[k - 1] on.   *)
LEMMA FlattenPlaces ==
    ASSUME NEW S, NEW s \in Seq(Seq(S))
    PROVE  /\ FlattenSeq(s) \in Seq(S)
           /\ \E at \in [0..Len(s) -> Nat] :
                 /\ at[0] = 0 /\ at[Len(s)] = Len(FlattenSeq(s))
                 /\ \A k \in 1..Len(s) : Lies(s, FlattenSeq(s), at, k)
<1> DEFINE n == Len(s)
<1>1. n \in Nat /\ \A k \in 1..n : s[k] \in Seq(S)
    OBVIOUS
<1>2. PICK g : /\ g[0] = <<>> /\ g[n] = FlattenSeq(s)
               /\ \A k \in 1..n : g[k] = g[k - 1] \o s[k]
    BY FlattenJoins
<1> HIDE DEF n
<1> DEFINE at == [k \in 0..n |-> Len(g[k])]
<1>3. \A k \in 0..n : at[k] = Len(g[k])
    BY Zenon
<1>f. at = [k \in 0..n |-> at[k]]
    BY Zenon
<1> HIDE DEF at
<1>4. 0 \in PlacedUpTo(S, s, g, at)
    <2>1. <<>> \in Seq(S) /\ 0 \in 0..n /\ 0 \in Nat
        BY <1>1
    <2>2. \A k \in 1..0 : FALSE
        OBVIOUS
    <2> QED
        BY <1>2, <1>3, <2>1, <2>2, Zenon DEF PlacedUpTo
<1>5. ASSUME NEW m \in Nat, m \in PlacedUpTo(S, s, g, at)
      PROVE  m + 1 \in PlacedUpTo(S, s, g, at)
    <2>1. m + 1 \in Nat
        OBVIOUS
    <2> SUFFICES ASSUME m + 1 \in 0..n
                 PROVE  /\ g[m + 1] \in Seq(S) /\ at[m + 1] = Len(g[m + 1])
                        /\ \A k \in 1..(m + 1) : Lies(s, g[m + 1], at, k)
        BY <2>1, Zenon DEF PlacedUpTo, n
    <2>2. m \in 0..n /\ m + 1 \in 1..n /\ m + 1 - 1 = m
        BY <1>1
    <2>3. g[m] \in Seq(S) /\ at[m] = Len(g[m]) /\ \A k \in 1..m : Lies(s, g[m], at, k)
        BY <1>5, <2>2, Zenon DEF PlacedUpTo, n
    <2>4. g[m + 1] = g[m] \o s[m + 1] /\ s[m + 1] \in Seq(S)
        <3> DEFINE c == m + 1
        <3>a. c \in 1..n /\ c - 1 = m
            BY <2>2
        <3> HIDE DEF c
        <3>b. g[c] = g[c - 1] \o s[c] /\ s[c] \in Seq(S)
            BY <1>1, <1>2, <3>a, Zenon
        <3>1. g[c] = g[m] \o s[c] /\ s[c] \in Seq(S)
            BY <3>a, <3>b, Zenon
        <3> QED
            BY <3>1, Zenon DEF c
    <2>5. g[m] \o s[m + 1] \in Seq(S)
        BY <2>3, <2>4, Joined
    <2>6. at[m + 1] = Len(g[m + 1])
        BY <1>3, Zenon
    <2>7. ASSUME NEW k \in 1..m
          PROVE  Lies(s, g[m + 1], at, k)
        <3>1. k \in 1..n
            BY <1>1, <2>2
        <3>2. s[k] \in Seq(S)
            BY <1>1, <3>1, Zenon
        <3>3. Lies(s, g[m] \o s[m + 1], at, k)
            BY <2>3, <2>4, <3>2, LiesStill
        <3> QED
            BY <2>4, <3>3, Zenon
    <2>8. Lies(s, g[m + 1], at, m + 1)
        <3>1. at[m + 1 - 1] = Len(g[m]) /\ at[m + 1] = Len(g[m] \o s[m + 1])
            BY <2>2, <2>3, <2>4, <2>6, Zenon
        <3> DEFINE c == m + 1
                   p == g[m]
        <3>2. at[c - 1] = Len(p) /\ at[c] = Len(p \o s[c])
            BY <3>1
        <3>3. p \in Seq(S) /\ s[c] \in Seq(S)
            BY <2>3, <2>4
        <3> HIDE DEF c, p
        <3>4. Lies(s, p \o s[c], at, c)
            BY <3>2, <3>3, LiesBehind
        <3>5. Lies(s, g[m] \o s[m + 1], at, m + 1)
            BY <3>4 DEF c, p
        <3> QED
            BY <2>4, <3>5, Zenon
    <2>9. \A k \in 1..(m + 1) : k \in 1..m \/ k = m + 1
        OBVIOUS
    <2> QED
        BY <2>4, <2>5, <2>6, <2>7, <2>8, <2>9, Zenon
<1>6. Nat \subseteq PlacedUpTo(S, s, g, at)
    BY <1>4, <1>5, NatInd
<1>7. n \in 0..n /\ 0 \in 0..n /\ (\A k \in 0..n : k \in Nat)
    BY <1>1
<1>8. /\ g[n] \in Seq(S) /\ at[n] = Len(g[n]) /\ \A k \in 1..n : Lies(s, g[n], at, k)
    BY <1>6, <1>7, Zenon DEF PlacedUpTo, n
<1>9. ASSUME NEW k \in 0..n
      PROVE  at[k] \in Nat
    <2>1. g[k] \in Seq(S) /\ at[k] = Len(g[k])
        BY <1>6, <1>7, Zenon DEF PlacedUpTo, n
    <2>2. Len(g[k]) \in Nat
        BY <2>1
    <2> QED
        BY <2>1, <2>2, Zenon
<1>10. at \in [0..n -> Nat]
    BY <1>f, <1>9, Zenon
<1>11. at[0] = 0
    <2>1. Len(<<>>) = 0
        OBVIOUS
    <2> QED
        BY <1>2, <1>3, <1>7, <2>1, Zenon
<1> QED
    BY <1>2, <1>8, <1>10, <1>11, Zenon DEF n

(* Nothing in front or behind. *)
LEMMA EmptyJoined ==
    ASSUME NEW S, NEW s \in Seq(S)
    PROVE  <<>> \o s = s /\ s \o <<>> = s
OBVIOUS

(* Joining three lists: the order does not matter. *)
LEMMA JoinedAgain ==
    ASSUME NEW S, NEW a \in Seq(S), NEW b \in Seq(S), NEW c \in Seq(S)
    PROVE  (a \o b) \o c = a \o (b \o c)
<1> DEFINE l == Len(a)
           m == Len(b)
           n == Len(c)
           x == (a \o b) \o c
           y == a \o (b \o c)
<1>1. l \in Nat /\ m \in Nat /\ n \in Nat
    BY LengthNat
<1>2. /\ a \o b \in Seq(S) /\ Len(a \o b) = l + m
      /\ \A i \in 1..l : (a \o b)[i] = a[i]
      /\ \A i \in 1..m : (a \o b)[l + i] = b[i]
    BY Joined
<1>3. /\ b \o c \in Seq(S) /\ Len(b \o c) = m + n
      /\ \A i \in 1..m : (b \o c)[i] = b[i]
      /\ \A i \in 1..n : (b \o c)[m + i] = c[i]
    BY Joined
<1> DEFINE p == a \o b
           q == b \o c
<1>4. p \in Seq(S) /\ q \in Seq(S)
    BY <1>2, <1>3
<1> HIDE DEF p, q
<1>5. /\ p \o c \in Seq(S) /\ Len(p \o c) = Len(p) + Len(c)
      /\ \A i \in 1..Len(p) : (p \o c)[i] = p[i]
      /\ \A i \in 1..Len(c) : (p \o c)[Len(p) + i] = c[i]
    BY <1>4, Joined
<1>6. /\ a \o q \in Seq(S) /\ Len(a \o q) = Len(a) + Len(q)
      /\ \A i \in 1..Len(a) : (a \o q)[i] = a[i]
      /\ \A i \in 1..Len(q) : (a \o q)[Len(a) + i] = q[i]
    BY <1>4, Joined
<1>7. p \o c = x /\ a \o q = y
    BY DEF p, q
<1> HIDE DEF l, m, n, x, y
<1>a. /\ Len(p) = l + m /\ Len(q) = m + n /\ Len(a) = l /\ Len(c) = n
      /\ \A i \in 1..l : p[i] = a[i]
      /\ \A i \in 1..m : p[l + i] = b[i]
      /\ \A i \in 1..m : q[i] = b[i]
      /\ \A i \in 1..n : q[m + i] = c[i]
    BY <1>2, <1>3, Zenon DEF p, q, l, n
<1>b. /\ x \in Seq(S) /\ Len(x) = (l + m) + n
      /\ \A i \in 1..(l + m) : x[i] = p[i]
      /\ \A i \in 1..n : x[(l + m) + i] = c[i]
    BY <1>5, <1>7, <1>a, Zenon
<1>c. /\ y \in Seq(S) /\ Len(y) = l + (m + n)
      /\ \A i \in 1..l : y[i] = a[i]
      /\ \A i \in 1..(m + n) : y[l + i] = q[i]
    BY <1>6, <1>7, <1>a, Zenon
<1>d. (l + m) + n = l + (m + n)
    BY <1>1
<1>8. ASSUME NEW i \in 1..((l + m) + n)
      PROVE  x[i] = y[i]
    <2>1. CASE i <= l
        <3>1. i \in 1..l /\ i \in 1..(l + m)
            BY <1>1, <2>1
        <3> QED
            BY <1>a, <1>b, <1>c, <3>1, Zenon
    <2>2. CASE i > l /\ i <= l + m
        <3> DEFINE j == i - l
        <3>1. j \in 1..m /\ l + j = i /\ i \in 1..(l + m) /\ j \in 1..(m + n)
            BY <1>1, <2>2
        <3> HIDE DEF j
        <3>2. x[i] = b[j]
            BY <1>a, <1>b, <3>1, Zenon
        <3>3. y[i] = b[j]
            BY <1>a, <1>c, <3>1, Zenon
        <3> QED
            BY <3>2, <3>3
    <2>3. CASE i > l + m
        <3> DEFINE j == i - (l + m)
        <3>1. j \in 1..n /\ (l + m) + j = i /\ l + (m + j) = i /\ m + j \in 1..(m + n)
            BY <1>1, <2>3
        <3> HIDE DEF j
        <3>2. x[i] = c[j]
            BY <1>b, <3>1, Zenon
        <3>3. y[i] = c[j]
            BY <1>a, <1>c, <3>1, Zenon
        <3> QED
            BY <3>2, <3>3
    <2> QED
        BY <1>1, <2>1, <2>2, <2>3
<1>9. x = y
    <2>1. \A i \in 1..Len(x) : x[i] = y[i]
        BY <1>8, <1>b, Zenon
    <2>2. x \in Seq(S) /\ y \in Seq(S) /\ Len(x) = Len(y)
        BY <1>b, <1>c, <1>d, Zenon
    <2> QED
        BY <2>1, <2>2, SameSequence
<1> QED
    BY <1>9 DEF x, y

(* The places up to n at which g and h are the same. *)
Agreeing(n, g, h) == {m \in Nat : m <= n => g[m] = h[m]}

(* Whoever joins the parts one after the other gets the flattened sequence. *)
LEMMA FlattenUnique ==
    ASSUME NEW S, NEW s \in Seq(Seq(S)), NEW h, h[0] = <<>>,
           \A k \in 1..Len(s) : h[k] = h[k - 1] \o s[k]
    PROVE  FlattenSeq(s) = h[Len(s)]
<1> DEFINE n == Len(s)
<1>1. n \in Nat
    BY LengthNat
<1>2. PICK g : /\ g[0] = <<>> /\ g[n] = FlattenSeq(s)
               /\ \A k \in 1..n : g[k] = g[k - 1] \o s[k]
    BY FlattenJoins
<1>3. \A k \in 1..n : h[k] = h[k - 1] \o s[k]
    OBVIOUS
<1> HIDE DEF n
<1>4. 0 \in Agreeing(n, g, h)
    <2>1. 0 \in Nat
        OBVIOUS
    <2> QED
        BY <1>2, <2>1, Zenon DEF Agreeing
<1>5. ASSUME NEW m \in Nat, m \in Agreeing(n, g, h)
      PROVE  m + 1 \in Agreeing(n, g, h)
    <2> DEFINE c == m + 1
    <2>1. c \in Nat /\ c - 1 = m /\ (c <= n => m <= n /\ c \in 1..n)
        BY <1>1
    <2> HIDE DEF c
    <2>2. ASSUME c <= n
          PROVE  g[c] = h[c]
        <3>1. g[m] = h[m]
            BY <1>5, <2>1, <2>2, Zenon DEF Agreeing
        <3>2. g[c] = g[c - 1] \o s[c] /\ h[c] = h[c - 1] \o s[c]
            BY <1>2, <1>3, <2>1, <2>2, Zenon
        <3> QED
            BY <2>1, <3>1, <3>2, Zenon
    <2>3. c \in Agreeing(n, g, h)
        BY <2>1, <2>2, Zenon DEF Agreeing
    <2> QED
        BY <2>3 DEF c
<1>6. Nat \subseteq Agreeing(n, g, h)
    BY <1>4, <1>5, NatInd
<1>7. n <= n
    BY <1>1
<1>8. FlattenSeq(s) = h[n]
    BY <1>1, <1>2, <1>6, <1>7, Zenon DEF Agreeing
<1> QED
    BY <1>8 DEF n

(* Parts of one kind make a list of that kind. *)
LEMMA FlattenType ==
    ASSUME NEW S, NEW s \in Seq(Seq(S))
    PROVE  FlattenSeq(s) \in Seq(S)
BY FlattenPlaces

(* One part joined is that part. *)
LEMMA FlattenOne ==
    ASSUME NEW S, NEW x \in Seq(S)
    PROVE  FlattenSeq(<<x>>) = x
<1> DEFINE h == [k \in 0..1 |-> IF k = 0 THEN <<>> ELSE x]
           E == Seq(S)
           s == <<x>>
<1>1. h[0] = <<>> /\ h[1] = x
    OBVIOUS
<1>2. x \in E
    OBVIOUS
<1> HIDE DEF h, E
<1>3. s \in Seq(E) /\ Len(s) = 1 /\ s[1] = x
    BY <1>2
<1>4. <<>> \o x = x
    BY EmptyJoined
<1> HIDE DEF s
<1>5. ASSUME NEW k \in 1..Len(s)
      PROVE  h[k] = h[k - 1] \o s[k]
    <2>1. k = 1 /\ k - 1 = 0
        BY <1>3
    <2> QED
        BY <1>1, <1>3, <1>4, <2>1, Zenon
<1>6. s \in Seq(Seq(S))
    BY <1>3 DEF E
<1>7. FlattenSeq(s) = h[Len(s)]
    BY <1>1, <1>5, <1>6, FlattenUnique
<1>8. FlattenSeq(s) = x
    BY <1>1, <1>3, <1>7, Zenon
<1> QED
    BY <1>8 DEF s

(* JoinedAgain as one fact, for leaves with terms the solver cannot type.   *)
Associates(S) == \A a, b, c \in Seq(S) : (a \o b) \o c = a \o (b \o c)

LEMMA Associative ==
    ASSUME NEW S
    PROVE  Associates(S)
BY JoinedAgain DEF Associates

(* What is joined on the way to a flattened sequence is one of the same kind *)
TypedUpTo(S, n, g) == {m \in Nat : m <= n => g[m] \in Seq(S)}

LEMMA JoinsTyped ==
    ASSUME NEW S, NEW s \in Seq(Seq(S)), NEW g, g[0] = <<>>,
           \A k \in 1..Len(s) : g[k] = g[k - 1] \o s[k]
    PROVE  \A k \in 0..Len(s) : g[k] \in Seq(S)
<1> DEFINE n == Len(s)
<1>1. n \in Nat /\ \A k \in 1..n : s[k] \in Seq(S)
    OBVIOUS
<1>2. \A k \in 1..n : g[k] = g[k - 1] \o s[k]
    OBVIOUS
<1> HIDE DEF n
<1>3. 0 \in TypedUpTo(S, n, g)
    <2>1. 0 \in Nat /\ g[0] \in Seq(S)
        OBVIOUS
    <2> QED
        BY <2>1, Zenon DEF TypedUpTo
<1>4. ASSUME NEW m \in Nat, m \in TypedUpTo(S, n, g)
      PROVE  m + 1 \in TypedUpTo(S, n, g)
    <2> DEFINE c == m + 1
    <2>1. c \in Nat /\ c - 1 = m /\ (c <= n => m <= n /\ c \in 1..n)
        BY <1>1
    <2> HIDE DEF c
    <2>2. ASSUME c <= n
          PROVE  g[c] \in Seq(S)
        <3>1. g[m] \in Seq(S)
            BY <1>4, <2>1, <2>2, Zenon DEF TypedUpTo
        <3>2. s[c] \in Seq(S)
            BY <1>1, <2>1, <2>2, Zenon
        <3>3. g[m] \o s[c] \in Seq(S)
            BY <3>1, <3>2
        <3> QED
            BY <1>2, <2>1, <2>2, <3>3, Zenon
    <2>3. c \in TypedUpTo(S, n, g)
        BY <2>1, <2>2, Zenon DEF TypedUpTo
    <2> QED
        BY <2>3 DEF c
<1>5. Nat \subseteq TypedUpTo(S, n, g)
    BY <1>3, <1>4, NatInd
<1>6. \A k \in 0..n : k \in Nat /\ k <= n
    BY <1>1
<1>7. \A k \in 0..n : g[k] \in Seq(S)
    BY <1>5, <1>6, Zenon DEF TypedUpTo
<1> QED
    BY <1>7 DEF n

(* Flattening two sequences one behind the other. *)
LEMMA FlattenJoined ==
    ASSUME NEW S, NEW s \in Seq(Seq(S)), NEW t \in Seq(Seq(S))
    PROVE  FlattenSeq(s \o t) = FlattenSeq(s) \o FlattenSeq(t)
<1> DEFINE n == Len(s)
           l == Len(t)
           u == s \o t
           E == Seq(S)
<1>1. n \in Nat /\ l \in Nat
    BY LengthNat
<1>2. PICK g : /\ g[0] = <<>> /\ g[n] = FlattenSeq(s)
               /\ \A k \in 1..n : g[k] = g[k - 1] \o s[k]
    BY FlattenJoins
<1>3. PICK f : /\ f[0] = <<>> /\ f[l] = FlattenSeq(t)
               /\ \A k \in 1..l : f[k] = f[k - 1] \o t[k]
    BY FlattenJoins
<1>4. \A k \in 0..n : g[k] \in E
    BY <1>2, JoinsTyped
<1>5. \A k \in 0..l : f[k] \in E
    BY <1>3, JoinsTyped
<1>6. \A k \in 1..l : t[k] \in E
    OBVIOUS
<1>7. s \in Seq(E) /\ t \in Seq(E)
    OBVIOUS
<1>8. \A x \in E : x \o <<>> = x
    BY EmptyJoined
<1>9. \A a, b, c \in E : (a \o b) \o c = a \o (b \o c)
    <2>1. Associates(S)
        BY Associative
    <2> QED
        BY <2>1, Zenon DEF Associates
<1> DEFINE h == [k \in 0..(n + l) |-> IF k <= n THEN g[k] ELSE g[n] \o f[k - n]]
<1>10. 0 \in 0..n /\ n \in 0..n /\ 0 \in 0..(n + l) /\ 0 <= n
    BY <1>1
<1>11. h[0] = <<>>
    BY <1>2, <1>10, Zenon
<1>12. \A k \in 0..n : h[k] = g[k]
    <2>1. \A k \in 0..n : k \in 0..(n + l) /\ k <= n
        BY <1>1
    <2> QED
        BY <2>1, Zenon
<1>13. \A j \in 0..l : h[n + j] = g[n] \o f[j]
    <2> SUFFICES ASSUME NEW j \in 0..l
                 PROVE  h[n + j] = g[n] \o f[j]
        OBVIOUS
    <2>1. CASE j = 0
        <3>1. n + j = n
            BY <1>1, <2>1
        <3>2. g[n] \o <<>> = g[n]
            BY <1>4, <1>8, <1>10, Zenon
        <3> QED
            BY <1>3, <1>10, <1>12, <2>1, <3>1, <3>2, Zenon
    <2>2. CASE j # 0
        <3> DEFINE k == n + j
        <3>1. k \in 0..(n + l) /\ ~(k <= n) /\ k - n = j
            BY <1>1, <2>2
        <3> HIDE DEF k
        <3>2. h[k] = g[n] \o f[k - n]
            BY <3>1, Zenon
        <3>3. h[k] = g[n] \o f[j]
            BY <3>1, <3>2, Zenon
        <3> QED
            BY <3>3 DEF k
    <2> QED
        BY <2>1, <2>2
<1>14. u \in Seq(E) /\ Len(u) = n + l /\ \A i \in 1..n : u[i] = s[i]
    BY <1>7, Joined
<1>15. \A i \in 1..l : u[n + i] = t[i]
    BY <1>7, Joined
<1> HIDE DEF h, n, l, u
<1>16. ASSUME NEW k \in 1..(n + l)
       PROVE  h[k] = h[k - 1] \o u[k]
    <2>1. CASE k <= n
        <3>1. k \in 1..n /\ k \in 0..n /\ k - 1 \in 0..n
            BY <1>1, <2>1
        <3> QED
            BY <1>2, <1>12, <1>14, <3>1, Zenon
    <2>2. CASE ~(k <= n)
        <3> DEFINE j == k - n
                   i == j - 1
        <3>1. j \in 1..l /\ j \in 0..l /\ i \in 0..l /\ n + j = k /\ n + i = k - 1 /\ j - 1 = i
            BY <1>1, <2>2
        <3> HIDE DEF j, i
        <3>2. h[k] = g[n] \o f[j] /\ h[k - 1] = g[n] \o f[i] /\ u[k] = t[j]
            BY <1>13, <1>15, <3>1, Zenon
        <3>3. f[j] = f[i] \o t[j]
            BY <1>3, <3>1, Zenon
        <3>4. g[n] \in E /\ f[i] \in E /\ t[j] \in E
            BY <1>4, <1>5, <1>6, <1>10, <3>1, Zenon
        <3>5. (g[n] \o f[i]) \o t[j] = g[n] \o (f[i] \o t[j])
            BY <1>9, <3>4, Zenon
        <3> QED
            BY <3>2, <3>3, <3>5, Zenon
    <2> QED
        BY <2>1, <2>2
<1>17. FlattenSeq(u) = h[Len(u)]
    <2>1. u \in Seq(Seq(S)) /\ \A k \in 1..Len(u) : h[k] = h[k - 1] \o u[k]
        BY <1>14, <1>16, Zenon
    <2> QED
        BY <1>11, <2>1, FlattenUnique
<1>18. l \in 0..l
    BY <1>1
<1>19. h[n + l] = FlattenSeq(s) \o FlattenSeq(t)
    BY <1>2, <1>3, <1>13, <1>18, Zenon
<1> QED
    BY <1>14, <1>17, <1>19, Zenon DEF u

(* The first part, and the others. *)
LEMMA FlattenFront ==
    ASSUME NEW S, NEW x \in Seq(S), NEW t \in Seq(Seq(S))
    PROVE  FlattenSeq(<<x>> \o t) = x \o FlattenSeq(t)
<1>1. FlattenSeq(<<x>>) = x
    BY FlattenOne
<1>2. <<x>> \in Seq(Seq(S))
    OBVIOUS
<1>3. FlattenSeq(<<x>> \o t) = FlattenSeq(<<x>>) \o FlattenSeq(t)
    BY <1>2, FlattenJoined
<1> QED
    BY <1>1, <1>3, Zenon

-------------------------------------------------------------------------------
(* FunctionCalls.                                                           *)

(* A call that was encoded: type of the records in calls. *)
Calls == [layout : Layouts, at : Nat, taken : {"nothing", "header", "all"},
          count : 0..255, size : Nat, own : BOOLEAN]

(* The frames lie one behind the other, below the index.                    *)
Laid == \A n \in DOMAIN calls : calls[n].at + calls[n].layout.buffered <= encodeBufferIndex

(* The header in the object is that of the last call, but for the size.     *)
LastTold ==
    /\ calls = <<>> => parametersDataSize = 0
    /\ calls # <<>> =>
         LET last == calls[Len(calls)].layout IN
         /\ parametersCount = last.count % 256
         /\ parametersDataSize >= Size(last)
         /\ Len(calls) = 1 => parametersDataSize = Size(last)

(* The inductive invariant. *)
CallsInv == CallsTypeOK /\ Laid /\ ParametersStayPut /\ LastTold /\ HeaderTellsCall

(* The layouts of calls have the types that CallsInv needs. *)
LEMMA LayoutType ==
    ASSUME NEW layout \in Layouts
    PROVE  /\ layout.count \in Nat /\ layout.buffered \in Nat /\ layout.pointed \in Nat
           /\ Size(layout) \in Nat
BY CallsAssumption DEF Size

LEMMA CallsInitInv == CallsInit => CallsInv
BY CallsAssumption DEF CallsInit, CallsInv, CallsTypeOK, Laid, ParametersStayPut, LastTold,
                       HeaderTellsCall

LEMMA CallInv ==
    ASSUME CallsInv, NEW layout \in Layouts, Call(layout)
    PROVE  CallsInv'
<1> DEFINE new == [layout |-> layout, at |-> encodeBufferIndex, taken |-> "nothing",
                   count |-> 0, size |-> 0, own |-> FALSE]
<1>1. /\ layout.count \in Nat /\ layout.buffered \in Nat /\ layout.pointed \in Nat
      /\ Size(layout) \in Nat
    BY LayoutType
<1>2. /\ parametersDataSize \in Nat /\ encodeBufferIndex \in Nat
      /\ calls \in Seq(Calls) /\ Len(calls) \in Nat /\ DOMAIN calls = 1..Len(calls)
      /\ BufferSize \in Nat
    BY CallsAssumption DEF CallsInv, CallsTypeOK, Calls
<1>3. /\ Len(calls) < MaxCalls /\ encodeBufferIndex + layout.buffered <= BufferSize
      /\ parametersCount' = layout.count % 256
      /\ parametersDataSize' = parametersDataSize + Size(layout)
      /\ encodeBufferIndex' = encodeBufferIndex + layout.buffered
      /\ buffer' = [b \in 0..BufferSize - 1 |->
                       IF b \in encodeBufferIndex .. encodeBufferIndex + layout.buffered - 1
                       THEN Len(calls) + 1 ELSE buffer[b]]
      /\ calls' = Append(calls, new)
    BY DEF Call, EncodeParameters
<1>4. new \in Calls /\ new.layout = layout /\ new.at = encodeBufferIndex /\ new.own = FALSE
    BY <1>2 DEF Calls
<1> HIDE DEF new
<1>5. /\ Len(calls') = Len(calls) + 1 /\ DOMAIN calls' = 1..Len(calls) + 1
      /\ calls'[Len(calls) + 1] = new
      /\ \A n \in 1..Len(calls) : calls'[n] = calls[n]
      /\ calls' \in Seq(Calls)
    BY <1>2, <1>3, <1>4
<1>6. CallsTypeOK'
    <2>1. parametersCount' \in 0..255 /\ parametersDataSize' \in Nat
        <3>1. layout.count % 256 \in 0..255
            BY <1>1
        <3>2. parametersDataSize + Size(layout) \in Nat
            BY <1>1, <1>2
        <3>3. /\ parametersCount' = layout.count % 256
              /\ parametersDataSize' = parametersDataSize + Size(layout)
            BY <1>3
        <3> QED
            BY <3>1, <3>2, <3>3
    <2>2. encodeBufferIndex' \in 0..BufferSize
        <3>1. /\ encodeBufferIndex + layout.buffered <= BufferSize
              /\ encodeBufferIndex' = encodeBufferIndex + layout.buffered
            BY <1>3
        <3> QED
            BY <1>1, <1>2, <3>1
    <2>3. buffer' \in [0..BufferSize - 1 -> 0..Len(calls')]
        BY <1>2, <1>3, <1>5 DEF CallsInv, CallsTypeOK
    <2>4. Len(calls') <= MaxCalls
        BY <1>2, <1>3, <1>5, CallsAssumption
    <2> QED
        BY <1>5, <2>1, <2>2, <2>3, <2>4 DEF CallsTypeOK, Calls
<1>7. ASSUME NEW n \in 1..Len(calls)
      PROVE  calls[n].layout.buffered \in Nat /\ calls[n].at \in Nat
    <2>1. calls[n] \in Calls
        BY <1>2
    <2>2. calls[n].layout \in Layouts /\ calls[n].at \in Nat
        BY <2>1 DEF Calls
    <2> QED
        BY <2>2, LayoutType
<1>8. Laid'
    <2>1. \A n \in 1..Len(calls) : calls[n].at + calls[n].layout.buffered <= encodeBufferIndex
        BY <1>2 DEF CallsInv, Laid
    <2>2. ASSUME NEW n \in 1..Len(calls)
          PROVE  calls'[n].at + calls'[n].layout.buffered <= encodeBufferIndex'
        <3>1. calls[n].at + calls[n].layout.buffered <= encodeBufferIndex
            BY <2>1
        <3>2. calls[n].at + calls[n].layout.buffered <= encodeBufferIndex + layout.buffered
            BY <1>1, <1>2, <1>7, <3>1
        <3> QED
            BY <1>3, <1>5, <3>2
    <2>3. calls'[Len(calls) + 1].at + calls'[Len(calls) + 1].layout.buffered <= encodeBufferIndex'
        <3>1. /\ calls'[Len(calls) + 1].at = encodeBufferIndex
              /\ calls'[Len(calls) + 1].layout = layout
            BY <1>4, <1>5, Zenon
        <3>2. encodeBufferIndex + layout.buffered <= encodeBufferIndex + layout.buffered
            BY <1>1, <1>2
        <3>3. encodeBufferIndex' = encodeBufferIndex + layout.buffered
            BY <1>3
        <3> QED
            BY <3>1, <3>2, <3>3, Zenon
    <2>4. \A n \in 1..Len(calls) + 1 : n \in 1..Len(calls) \/ n = Len(calls) + 1
        BY <1>2
    <2> QED
        BY <1>5, <2>2, <2>3, <2>4 DEF Laid
<1>9. ParametersStayPut'
    <2>1. ASSUME NEW n \in 1..Len(calls)
          PROVE  Span(n)' \subseteq DOMAIN buffer' /\ \A b \in Span(n)' : buffer'[b] = n
        <3>1. Span(n)' = Span(n)
            BY <1>5 DEF Span
        <3>2. \A b \in Span(n) : b < encodeBufferIndex
            <4>1. calls[n].at + calls[n].layout.buffered <= encodeBufferIndex
                BY <1>2 DEF CallsInv, Laid
            <4> QED
                BY <1>2, <1>7, <4>1 DEF Span
        <3>3. Span(n) \subseteq 0..BufferSize - 1 /\ \A b \in Span(n) : buffer[b] = n
            <4>1. DOMAIN buffer = 0..BufferSize - 1 /\ n \in DOMAIN calls
                BY <1>2 DEF CallsInv, CallsTypeOK
            <4> QED
                BY <4>1, Zenon DEF CallsInv, ParametersStayPut
        <3> QED
            BY <1>2, <1>3, <3>1, <3>2, <3>3
    <2>2. ASSUME NEW n, n = Len(calls) + 1
          PROVE  Span(n)' \subseteq DOMAIN buffer' /\ \A b \in Span(n)' : buffer'[b] = n
        <3>1. calls'[n].at = encodeBufferIndex /\ calls'[n].layout = layout
            BY <1>4, <1>5, <2>2
        <3>2. Span(n)' = encodeBufferIndex .. encodeBufferIndex + layout.buffered - 1
            BY <3>1 DEF Span
        <3>3. Span(n)' \subseteq 0..BufferSize - 1
            <4> DEFINE end == encodeBufferIndex + layout.buffered - 1
            <4>1. layout.buffered \in Nat /\ encodeBufferIndex \in Nat /\ BufferSize \in Nat
                BY <1>1, <1>2
            <4>2. encodeBufferIndex + layout.buffered <= BufferSize
                BY <1>3
            <4>3. end \in Int /\ end <= BufferSize - 1
                BY <4>1, <4>2
            <4>4. Span(n)' = encodeBufferIndex .. end
                BY <3>2
            <4> HIDE DEF end
            <4> QED
                BY <4>1, <4>3, <4>4
        <3>4. \A b \in Span(n)' : buffer'[b] = n
            BY <1>3, <2>2, <3>2, <3>3
        <3>5. DOMAIN buffer' = 0..BufferSize - 1
            BY <1>3
        <3> QED
            BY <3>3, <3>4, <3>5
    <2>3. \A n \in 1..Len(calls) + 1 : n \in 1..Len(calls) \/ n = Len(calls) + 1
        BY <1>2
    <2> QED
        BY <1>5, <2>1, <2>2, <2>3, Zenon DEF ParametersStayPut
<1>10. LastTold'
    <2>1. calls' # <<>> /\ calls'[Len(calls')].layout = layout
        BY <1>2, <1>3, <1>4, <1>5
    <2>2. parametersDataSize' >= Size(layout)
        BY <1>1, <1>2, <1>3
    <2>3. Len(calls') = 1 => parametersDataSize' = Size(layout)
        BY <1>1, <1>2, <1>3, <1>5 DEF CallsInv, LastTold
    <2> QED
        BY <1>3, <2>1, <2>2, <2>3 DEF LastTold, Size
<1>11. HeaderTellsCall'
    BY <1>2, <1>4, <1>5 DEF CallsInv, HeaderTellsCall, Size
<1> QED
    BY <1>6, <1>8, <1>9, <1>10, <1>11 DEF CallsInv

LEMMA TakeInv ==
    ASSUME CallsInv, NEW n \in DOMAIN calls, TakeHeader(n) \/ TakeParameters(n)
    PROVE  CallsInv'
<1>1. /\ parametersDataSize \in Nat /\ parametersCount \in 0..255
      /\ calls \in Seq(Calls) /\ Len(calls) \in Nat /\ DOMAIN calls = 1..Len(calls)
    BY DEF CallsInv, CallsTypeOK, Calls
<1>2. calls[n] \in Calls
    BY <1>1
<1>3. PICK call \in Calls :
        /\ calls' = [calls EXCEPT ![n] = call]
        /\ call.at = calls[n].at /\ call.layout = calls[n].layout
        /\ \/ call.own = calls[n].own /\ call.count = calls[n].count /\ call.size = calls[n].size
           \/ /\ call.own = (n = Len(calls)) /\ call.count = parametersCount
              /\ call.size = parametersDataSize
    <2>1. CASE TakeHeader(n)
        <3> DEFINE call == [calls[n] EXCEPT !.taken = "header", !.count = parametersCount,
                                            !.size = parametersDataSize, !.own = n = Len(calls)]
        <3>1. call \in Calls
            BY <1>1, <1>2 DEF Calls
        <3>2. calls' = [calls EXCEPT ![n] = call]
            BY <1>1, <2>1 DEF TakeHeader
        <3>3. /\ call.at = calls[n].at /\ call.layout = calls[n].layout
              /\ call.own = (n = Len(calls)) /\ call.count = parametersCount
              /\ call.size = parametersDataSize
            BY <1>2 DEF Calls
        <3> QED
            BY <3>1, <3>2, <3>3
    <2>2. CASE TakeParameters(n)
        <3> DEFINE call == [calls[n] EXCEPT !.taken = "all"]
        <3>1. call \in Calls
            BY <1>2 DEF Calls
        <3>2. calls' = [calls EXCEPT ![n] = call]
            BY <1>1, <2>2 DEF TakeParameters
        <3>3. /\ call.at = calls[n].at /\ call.layout = calls[n].layout
              /\ call.own = calls[n].own /\ call.count = calls[n].count
              /\ call.size = calls[n].size
            BY <1>2 DEF Calls
        <3> QED
            BY <3>1, <3>2, <3>3
    <2> QED
        BY <2>1, <2>2
<1>4. UNCHANGED <<parametersCount, parametersDataSize, encodeBufferIndex, buffer>>
    BY DEF TakeHeader, TakeParameters
<1>5. /\ DOMAIN calls' = DOMAIN calls /\ Len(calls') = Len(calls) /\ calls' \in Seq(Calls)
      /\ calls'[n] = call
      /\ \A m \in DOMAIN calls : calls'[m].at = calls[m].at /\ calls'[m].layout = calls[m].layout
      /\ \A m \in DOMAIN calls : m # n => calls'[m] = calls[m]
    BY <1>1, <1>3
<1>6. CallsTypeOK'
    BY <1>1, <1>4, <1>5 DEF CallsInv, CallsTypeOK, Calls
<1>7. Laid' /\ ParametersStayPut'
    BY <1>4, <1>5 DEF CallsInv, Laid, ParametersStayPut, Span
<1>8. LastTold'
    <2>1. calls = <<>> <=> Len(calls) = 0
        BY <1>1
    <2>2. calls' = <<>> <=> Len(calls) = 0
        BY <1>1, <1>5
    <2>3. calls # <<>> => Len(calls) \in DOMAIN calls
        BY <1>1
    <2>4. calls # <<>> => calls'[Len(calls')].layout = calls[Len(calls)].layout
        BY <1>5, <2>3
    <2> QED
        BY <1>4, <1>5, <2>1, <2>2, <2>4 DEF CallsInv, LastTold, Size
<1>9. HeaderTellsCall'
    <2>1. ASSUME NEW m \in DOMAIN calls, m # n, calls'[m].own
          PROVE  /\ calls'[m].count = calls'[m].layout.count % 256
                 /\ calls'[m].size >= Size(calls'[m].layout)
                 /\ m = 1 => calls'[m].size = Size(calls'[m].layout)
        BY <1>5, <2>1 DEF CallsInv, HeaderTellsCall
    <2>2. ASSUME call.own
          PROVE  /\ call.count = call.layout.count % 256
                 /\ call.size >= Size(call.layout)
                 /\ n = 1 => call.size = Size(call.layout)
        <3>1. CASE call.own = calls[n].own /\ call.count = calls[n].count /\ call.size = calls[n].size
            BY <1>3, <2>2, <3>1 DEF CallsInv, HeaderTellsCall
        <3>2. CASE /\ call.own = (n = Len(calls)) /\ call.count = parametersCount
                   /\ call.size = parametersDataSize
            <4>1. n = Len(calls)
                BY <2>2, <3>2
            <4>2. calls # <<>>
                BY <1>1, <4>1
            <4>3. call.layout = calls[Len(calls)].layout
                BY <1>3, <4>1
            <4> QED
                BY <3>2, <4>1, <4>2, <4>3 DEF CallsInv, LastTold
        <3> QED
            BY <1>3, <3>1, <3>2
    <2> QED
        BY <1>5, <2>1, <2>2 DEF HeaderTellsCall, Size
<1> QED
    BY <1>6, <1>7, <1>8, <1>9 DEF CallsInv

LEMMA CallsNextInv == CallsInv /\ [CallsNext]_callVars => CallsInv'
<1>1. CASE UNCHANGED callVars
    BY <1>1 DEF callVars, CallsInv, CallsTypeOK, Laid, ParametersStayPut, Span, LastTold,
                HeaderTellsCall
<1> QED
    BY <1>1, CallInv, TakeInv DEF CallsNext

LEMMA CallsAlways == CallsSpec => []CallsInv
BY CallsInitInv, CallsNextInv, PTL DEF CallsSpec

(* The types; the index never passes the end of the buffer in the model.    *)
THEOREM CallsTypeCorrect == CallsSpec => []CallsTypeOK
<1>1. CallsInv => CallsTypeOK
    BY DEF CallsInv
<1> QED
    BY <1>1, CallsAlways, PTL

(* A later call never overwrites the parameters of one that still waits.    *)
THEOREM ParametersUndisturbed == CallsSpec => []ParametersStayPut
<1>1. CallsInv => ParametersStayPut
    BY DEF CallsInv
<1> QED
    BY <1>1, CallsAlways, PTL

(* What headers say of their calls, the first one and the later ones.       *)
THEOREM HeadersTell == CallsSpec => []HeaderTellsCall
<1>1. CallsInv => HeaderTellsCall
    BY DEF CallsInv
<1> QED
    BY <1>1, CallsAlways, PTL

-------------------------------------------------------------------------------
(* StaticFile.                                                              *)

(* The types. *)
FileTypeOK ==
    /\ fileSize \in Nat /\ blockSize \in Nat /\ readIndex \in Nat
    /\ eofBit \in BOOLEAN /\ chunk \in Int
    /\ block \in Seq(Int) /\ content \in Seq(Int)
    /\ reading \in {"request", "readData", "handleRequest", "sent"}

(* Where the reader is: the end of the file, and that of a block. *)
PlaceInv ==
    /\ readIndex = Len(content) + Len(block)
    /\ reading = "request" => fileSize = 0 /\ readIndex = 0
    /\ reading # "request" =>
         /\ blockSize > 0 /\ Len(block) <= blockSize
         /\ readIndex <= fileSize /\ eofBit = (readIndex = fileSize)
    /\ reading = "handleRequest" => Len(block) = blockSize \/ eofBit
    /\ reading = "sent" => Len(content) = fileSize

(* What was read is the file, and between the borders of integers the one   *)
(* that is read is loaded.  Blocks, but for the last, begin at a border.    *)
BytesInv ==
    blockSize % BytesPerInt = 0 =>
        /\ \A i \in 1..Len(content) : content[i] = i - 1
        /\ \A i \in 1..Len(block) : block[i] = Len(content) + i - 1
        /\ reading # "request" => eofBit \/ Len(content) % BytesPerInt = 0
        /\ readIndex % BytesPerInt # 0 =>
             eofBit \/ reading = "handleRequest" \/ chunk = readIndex \div BytesPerInt

(* The inductive invariant. *)
FileInv == FileTypeOK /\ PlaceInv /\ BytesInv

LEMMA FileInitInv == FileInit => FileInv
<1> SUFFICES ASSUME FileInit
             PROVE  FileInv
    OBVIOUS
<1>1. FileTypeOK /\ Len(block) = 0 /\ Len(content) = 0
    <2>1. block = <<>> /\ content = <<>>
        BY DEF FileInit
    <2>2. /\ fileSize \in Nat /\ blockSize \in Nat /\ readIndex \in Nat
          /\ eofBit \in BOOLEAN /\ chunk \in Int
          /\ reading \in {"request", "readData", "handleRequest", "sent"}
        <3>1. /\ fileSize = 0 /\ blockSize = 0 /\ readIndex = 0 /\ eofBit = FALSE
              /\ chunk = NotLoaded /\ reading = "request"
            BY DEF FileInit
        <3>2. NotLoaded \in Int
            BY DEF NotLoaded
        <3> QED
            BY <3>1, <3>2
    <2>3. block \in Seq(Int) /\ content \in Seq(Int) /\ Len(block) = 0 /\ Len(content) = 0
        BY <2>1
    <2> QED
        BY <2>2, <2>3 DEF FileTypeOK
<1>2. 0 % BytesPerInt = 0
    BY FileAssumption
<1>3. readIndex = 0 /\ fileSize = 0 /\ reading = "request"
    BY DEF FileInit
<1> QED
    BY <1>1, <1>2, <1>3 DEF FileInv, PlaceInv, BytesInv

LEMMA OpenFileInv == FileInv /\ OpenFile => FileInv'
<1> SUFFICES ASSUME FileInv, OpenFile
             PROVE  FileInv'
    OBVIOUS
<1>1. /\ Len(block) \in Nat /\ Len(content) \in Nat /\ readIndex = 0
      /\ Len(content) + Len(block) = 0
    BY DEF FileInv, FileTypeOK, PlaceInv, OpenFile
<1>2. Len(block) = 0 /\ Len(content) = 0
    BY <1>1
<1>3. fileSize' \in Nat /\ blockSize' \in Nat /\ blockSize' > 0 /\ eofBit' = (fileSize' = 0)
    BY FileAssumption DEF OpenFile
<1>4. reading' = "readData" /\ UNCHANGED <<readIndex, chunk, block, content>>
    BY DEF OpenFile
<1>5. FileTypeOK'
    BY <1>3, <1>4 DEF FileInv, FileTypeOK
<1>6. PlaceInv'
    BY <1>1, <1>2, <1>3, <1>4 DEF PlaceInv
<1>7. 0 % BytesPerInt = 0
    BY FileAssumption
<1>8. BytesInv'
    BY <1>1, <1>2, <1>4, <1>7 DEF BytesInv
<1> QED
    BY <1>5, <1>6, <1>8 DEF FileInv

LEMMA ReadByteInv == FileInv /\ ReadByte => FileInv'
<1> SUFFICES ASSUME FileInv, ReadByte
             PROVE  FileInv'
    OBVIOUS
<1> DEFINE c == Len(content)
           b == Len(block)
<1>1. readIndex \in Nat /\ fileSize \in Nat /\ blockSize \in Nat /\ chunk \in Int
    BY DEF FileInv, FileTypeOK
<1>2. block \in Seq(Int) /\ content \in Seq(Int) /\ c \in Nat /\ b \in Nat
    BY DEF FileInv, FileTypeOK
<1>3. BytesPerInt \in Nat \ {0}
    BY FileAssumption
<1>4. /\ reading = "readData" /\ b < blockSize /\ ~eofBit
      /\ readIndex' = readIndex + 1 /\ eofBit' = (readIndex' = fileSize)
      /\ fileSize' = fileSize /\ blockSize' = blockSize /\ reading' = reading
    BY DEF ReadByte
<1>5. chunk' = Loaded /\ block' = Append(block, Byte(chunk')) /\ content' = content
    BY DEF ReadByte
<1>6. /\ readIndex \div BytesPerInt \in Nat /\ readIndex % BytesPerInt \in Nat
      /\ readIndex = (readIndex \div BytesPerInt) * BytesPerInt + (readIndex % BytesPerInt)
    BY <1>1, <1>3, DivMod
<1>7. chunk' \in Int /\ Byte(chunk') \in Int
    <2>1. chunk' \in Int
        BY <1>1, <1>5, <1>6 DEF Loaded
    <2> QED
        BY <1>3, <1>6, <2>1 DEF Byte, Padding
<1>8. /\ block' \in Seq(Int) /\ Len(block') = b + 1 /\ block'[b + 1] = Byte(chunk')
      /\ \A i \in 1..b : block'[i] = block[i]
    <2> DEFINE e == Byte(chunk')
    <2>1. e \in Int
        BY <1>7
    <2> HIDE DEF e
    <2>2. /\ Append(block, e) \in Seq(Int) /\ Len(Append(block, e)) = Len(block) + 1
          /\ Append(block, e)[Len(block) + 1] = e
          /\ \A i \in 1..Len(block) : Append(block, e)[i] = block[i]
        BY <1>2, <2>1, Appended
    <2> QED
        BY <1>5, <2>2, Zenon DEF e
<1>9. FileTypeOK'
    BY <1>1, <1>2, <1>4, <1>5, <1>7, <1>8 DEF FileTypeOK
<1>10. c + b = readIndex /\ readIndex <= fileSize /\ (eofBit <=> readIndex = fileSize)
    BY <1>4 DEF FileInv, PlaceInv
<1>11. Len(content') = c
    BY <1>5
<1> HIDE DEF c, b
<1>12. PlaceInv'
    <2>1. readIndex' = c + (b + 1) /\ b + 1 <= blockSize /\ blockSize > 0 /\ readIndex' <= fileSize
        BY <1>1, <1>2, <1>4, <1>10
    <2> QED
        BY <1>4, <1>8, <1>11, <2>1 DEF PlaceInv
<1>13. ASSUME blockSize % BytesPerInt = 0
       PROVE  BytesInv'
    <2>1. /\ \A i \in 1..c : content[i] = i - 1
          /\ \A i \in 1..b : block[i] = c + i - 1
          /\ c % BytesPerInt = 0
          /\ readIndex % BytesPerInt # 0 => chunk = readIndex \div BytesPerInt
        BY <1>4, <1>13 DEF FileInv, BytesInv, c, b
    <2>2. chunk' = readIndex \div BytesPerInt
        BY <1>5, <2>1 DEF Loaded
    <2>3. Byte(chunk') = readIndex
        <3>1. chunk' # NotLoaded
            BY <1>6, <2>2 DEF NotLoaded
        <3>2. Byte(chunk') = chunk' * BytesPerInt + (readIndex % BytesPerInt)
            BY <3>1 DEF Byte
        <3> QED
            BY <1>6, <2>2, <3>2
    <2>4. readIndex' % BytesPerInt # 0 => chunk' = readIndex' \div BytesPerInt
        BY <1>1, <1>3, <1>4, <2>2, DivNext
    <2>5. ASSUME NEW i \in 1..(b + 1)
          PROVE  block'[i] = c + i - 1
        <3>1. CASE i \in 1..b
            BY <1>8, <2>1, <3>1
        <3>2. CASE i = b + 1
            <4>1. block'[i] = readIndex
                BY <1>8, <2>3, <3>2, Zenon
            <4>2. c + (b + 1) - 1 = readIndex
                BY <1>1, <1>2, <1>10
            <4> QED
                BY <3>2, <4>1, <4>2
        <3> QED
            BY <1>2, <3>1, <3>2
    <2> QED
        BY <1>4, <1>5, <1>8, <1>11, <2>1, <2>4, <2>5, Zenon DEF BytesInv
<1>14. BytesInv'
    BY <1>4, <1>13 DEF BytesInv
<1> QED
    BY <1>9, <1>12, <1>14 DEF FileInv

LEMMA ReadReturnsInv == FileInv /\ ReadReturns => FileInv'
<1> SUFFICES ASSUME FileInv, ReadReturns
             PROVE  FileInv'
    OBVIOUS
<1>1. /\ reading = "readData" /\ (Len(block) = blockSize \/ eofBit) /\ reading' = "handleRequest"
      /\ UNCHANGED <<fileSize, blockSize, readIndex, eofBit, chunk, block, content>>
    BY DEF ReadReturns
<1>2. FileTypeOK'
    BY <1>1 DEF FileInv, FileTypeOK
<1>3. PlaceInv'
    BY <1>1 DEF FileInv, PlaceInv
<1>4. BytesInv'
    BY <1>1 DEF FileInv, BytesInv
<1> QED
    BY <1>2, <1>3, <1>4 DEF FileInv

LEMMA BlockReadInv == FileInv /\ BlockRead => FileInv'
<1> SUFFICES ASSUME FileInv, BlockRead
             PROVE  FileInv'
    OBVIOUS
<1> DEFINE c == Len(content)
           b == Len(block)
<1>1. readIndex \in Nat /\ fileSize \in Nat /\ blockSize \in Nat /\ BytesPerInt \in Nat \ {0}
    BY FileAssumption DEF FileInv, FileTypeOK
<1>2. block \in Seq(Int) /\ content \in Seq(Int) /\ c \in Nat /\ b \in Nat
    BY DEF FileInv, FileTypeOK
<1>3. /\ reading = "handleRequest" /\ reading' = (IF block = <<>> THEN "sent" ELSE "readData")
      /\ fileSize' = fileSize /\ blockSize' = blockSize /\ readIndex' = readIndex
      /\ eofBit' = eofBit /\ chunk' = NotLoaded
    BY DEF BlockRead
<1>4. content' = content \o block /\ block' = <<>>
    BY DEF BlockRead
<1>5. /\ content' \in Seq(Int) /\ Len(content') = c + b
      /\ \A i \in 1..c : content'[i] = content[i]
      /\ \A i \in 1..b : content'[c + i] = block[i]
    <2>1. /\ content \o block \in Seq(Int) /\ Len(content \o block) = Len(content) + Len(block)
          /\ \A i \in 1..Len(content) : (content \o block)[i] = content[i]
          /\ \A i \in 1..Len(block) : (content \o block)[Len(content) + i] = block[i]
        BY <1>2, Joined
    <2> QED
        BY <1>4, <2>1, Zenon
<1>6. block' \in Seq(Int) /\ Len(block') = 0
    BY <1>4
<1>7. block = <<>> => b = 0
    BY <1>2
<1>8. FileTypeOK'
    <2>1. eofBit \in BOOLEAN
        BY DEF FileInv, FileTypeOK
    <2>2. chunk' \in Int
        BY <1>3 DEF NotLoaded
    <2> QED
        BY <1>1, <1>3, <1>5, <1>6, <2>1, <2>2 DEF FileTypeOK
<1>9. /\ c + b = readIndex /\ blockSize > 0
      /\ readIndex <= fileSize /\ eofBit = (readIndex = fileSize)
      /\ b = blockSize \/ eofBit
    BY <1>3 DEF FileInv, PlaceInv
<1> HIDE DEF c, b
<1>10. PlaceInv'
    <2>1. readIndex' = Len(content') + Len(block')
        BY <1>1, <1>2, <1>3, <1>5, <1>6, <1>9
    <2>2. 0 <= blockSize
        BY <1>1
    <2>3. reading' = "sent" => c + b = fileSize
        <3>1. reading' = "sent" => b = 0
            BY <1>3, <1>7
        <3>2. b = blockSize /\ b = 0 => blockSize = 0
            OBVIOUS
        <3>3. b = 0 => eofBit
            BY <1>1, <1>9, <3>2
        <3>4. eofBit => c + b = fileSize
            BY <1>9
        <3> QED
            BY <3>1, <3>3, <3>4
    <2>4. reading' # "request" /\ reading' # "handleRequest"
        BY <1>3
    <2> QED
        BY <1>3, <1>5, <1>6, <1>9, <2>1, <2>2, <2>3, <2>4, Zenon DEF PlaceInv
<1>11. ASSUME blockSize % BytesPerInt = 0
       PROVE  BytesInv'
    <2>1. /\ \A i \in 1..c : content[i] = i - 1
          /\ \A i \in 1..b : block[i] = c + i - 1
          /\ eofBit \/ c % BytesPerInt = 0
        BY <1>3, <1>11 DEF FileInv, BytesInv, c, b
    <2>2. eofBit \/ (c + b) % BytesPerInt = 0
        <3>1. ASSUME c % BytesPerInt = 0, b = blockSize
              PROVE  (c + b) % BytesPerInt = 0
            BY <1>1, <1>2, <1>11, <3>1, SumOfWhole
        <3> QED
            BY <1>9, <2>1, <3>1
    <2>3. ASSUME NEW i \in 1..(c + b)
          PROVE  content'[i] = i - 1
        <3>1. CASE i \in 1..c
            BY <1>5, <2>1, <3>1
        <3>2. CASE i \in c + 1 .. c + b
            <4> DEFINE j == i - c
            <4>1. j \in 1..b /\ c + j = i /\ c + j - 1 = i - 1
                BY <1>2, <3>2
            <4>2. content'[c + j] = block[j] /\ block[j] = c + j - 1
                BY <1>5, <2>1, <4>1
            <4> QED
                BY <4>1, <4>2
        <3> QED
            BY <1>2, <3>1, <3>2
    <2>4. \A i \in 1..0 : FALSE
        OBVIOUS
    <2>5. readIndex' % BytesPerInt # 0 => eofBit'
        BY <1>3, <1>9, <2>2
    <2> QED
        BY <1>3, <1>5, <1>6, <2>2, <2>3, <2>4, <2>5, Zenon DEF BytesInv
<1>12. BytesInv'
    BY <1>3, <1>11 DEF BytesInv
<1> QED
    BY <1>8, <1>10, <1>12 DEF FileInv

LEMMA FileAlways == FileSpec => []FileInv
<1>1. ASSUME FileInv, UNCHANGED fileVars
      PROVE  FileInv'
    <2>1. /\ fileSize' = fileSize /\ blockSize' = blockSize /\ readIndex' = readIndex
          /\ eofBit' = eofBit /\ chunk' = chunk /\ block' = block /\ content' = content
          /\ reading' = reading
        BY <1>1 DEF fileVars
    <2>2. FileTypeOK' /\ PlaceInv'
        BY <1>1, <2>1 DEF FileInv, FileTypeOK, PlaceInv
    <2>3. BytesInv'
        BY <1>1, <2>1 DEF FileInv, BytesInv
    <2> QED
        BY <2>2, <2>3 DEF FileInv
<1>2. FileInv /\ [FileNext]_fileVars => FileInv'
    BY <1>1, OpenFileInv, ReadByteInv, ReadReturnsInv, BlockReadInv DEF FileNext
<1> QED
    BY FileInitInv, <1>2, PTL DEF FileSpec

(* At its end, the content is the file. *)
LEMMA WholeFile == FileInv => ContentIsFile
<1> SUFFICES ASSUME FileInv
             PROVE  ContentIsFile
    OBVIOUS
<1>1. /\ content \in Seq(Int) /\ Len(content) \in Nat /\ Len(block) \in Nat /\ fileSize \in Nat
      /\ DOMAIN content = 1..Len(content)
    BY DEF FileInv, FileTypeOK
<1>2. Len(content) <= fileSize /\ (reading = "sent" => Len(content) = fileSize)
    <2> DEFINE c == Len(content)
               b == Len(block)
    <2>1. /\ readIndex = c + b /\ (reading = "request" => readIndex = 0)
          /\ (reading # "request" => readIndex <= fileSize)
          /\ (reading = "sent" => c = fileSize)
        BY DEF FileInv, PlaceInv
    <2>2. c \in Nat /\ b \in Nat /\ fileSize \in Nat
        BY <1>1
    <2> HIDE DEF c, b
    <2>3. c <= fileSize
        BY <2>1, <2>2
    <2> QED
        BY <2>1, <2>3 DEF c
<1> QED
    BY <1>1, <1>2 DEF FileInv, BytesInv, ContentIsFile

(* What is sent of an embedded file is the file, whatever its size, that of *)
(* the reader's buffer and that of an integer, as long as the buffer holds  *)
(* whole integers.                                                          *)
THEOREM FileServed == FileSpec => []ContentIsFile
BY WholeFile, FileAlways, PTL

-------------------------------------------------------------------------------
(* Encodings: URIs.                                                         *)

(* The members of a sequence, by their places. *)
LEMMA Members ==
    ASSUME NEW S, NEW s \in Seq(S)
    PROVE  /\ Len(s) \in Nat /\ DOMAIN s = 1..Len(s)
           /\ \A i \in 1..Len(s) : s[i] \in S
OBVIOUS

(* A sequence whose members are in another set, too. *)
LEMMA MembersIn ==
    ASSUME NEW S, NEW T, NEW s \in Seq(S), \A i \in DOMAIN s : s[i] \in T
    PROVE  s \in Seq(T)
OBVIOUS

(* One turn of decode's loop, with what the following ones return in from.  *)
DecodeAt(uri, from, i) ==
    IF i > Len(uri) THEN <<>>
    ELSE IF EscapeAt(uri, i)
    THEN <<HexToValue(uri[i + 1]) * 16 + HexToValue(uri[i + 2])>> \o from[i + 3]
    ELSE <<IF uri[i] = 43 THEN 32 ELSE uri[i]>> \o from[i + 1]

(* from is the function that decode is, from place first on. *)
DecodesFrom(uri, first, from) ==
    from = [i \in first..(Len(uri) + 3) |-> DecodeAt(uri, from, i)]

(* The numbers of last places from which there is such a function.          *)
HaveDecoders(uri) ==
    {m \in Nat : m <= Len(uri) => \E from : DecodesFrom(uri, Len(uri) + 1 - m, from)}

(* There is one from the first place on. *)
LEMMA DecoderExists ==
    ASSUME NEW uri, Len(uri) \in Nat
    PROVE  \E from : DecodesFrom(uri, 1, from)
<1> DEFINE n == Len(uri)
<1>n. n \in Nat
    OBVIOUS
<1>1. 0 \in HaveDecoders(uri)
    <2> DEFINE f == [i \in (n + 1)..(n + 3) |-> <<>>]
    <2>f. f = [i \in (n + 1)..(n + 3) |-> <<>>]
        OBVIOUS
    <2> HIDE DEF f
    <2>1. \A i \in (n + 1)..(n + 3) : i > n
        BY <1>n
    <2>2. \A i \in (n + 1)..(n + 3) : DecodeAt(uri, f, i) = <<>>
        BY <2>1, Zenon DEF DecodeAt
    <2>3. f = [i \in (n + 1)..(n + 3) |-> DecodeAt(uri, f, i)]
        BY <2>2, <2>f, Zenon
    <2>4. 0 \in Nat /\ n + 1 - 0 = n + 1
        BY <1>n
    <2>5. DecodesFrom(uri, n + 1, f)
        BY <2>3, Zenon DEF DecodesFrom
    <2>6. DecodesFrom(uri, n + 1 - 0, f)
        BY <2>4, <2>5, Zenon
    <2> QED
        BY <2>4, <2>6, Zenon DEF HaveDecoders
<1>2. ASSUME NEW m \in Nat, m \in HaveDecoders(uri)
      PROVE  m + 1 \in HaveDecoders(uri)
    <2>0. m + 1 \in Nat
        OBVIOUS
    <2> SUFFICES ASSUME m + 1 <= n
                 PROVE  \E g : DecodesFrom(uri, n + 1 - (m + 1), g)
        BY <2>0, Zenon DEF HaveDecoders
    <2> DEFINE first == n + 1 - (m + 1)
               next == n + 1 - m
               end == n + 3
    <2>1. m <= n /\ first \in Nat /\ next = first + 1 /\ first <= n /\ end \in Nat
        BY <1>n
    <2>2. PICK f : DecodesFrom(uri, next, f)
        BY <1>2, <2>1, Zenon DEF HaveDecoders
    <2>3. \A i \in next..end : f[i] = DecodeAt(uri, f, i)
        BY <2>2, Zenon DEF DecodesFrom
    <2>e. end = n + 3
        OBVIOUS
    <2> HIDE DEF first, next, end
    <2> DEFINE g == [i \in first..end |-> IF i = first THEN DecodeAt(uri, f, first) ELSE f[i]]
    <2>4. first \in first..end /\ \A i \in next..end : i \in first..end /\ i # first
        BY <1>n, <2>1, <2>e
    <2>5. g[first] = DecodeAt(uri, f, first) /\ \A i \in next..end : g[i] = f[i]
        BY <2>4, Zenon
    <2>6. g = [i \in first..end |-> g[i]]
        BY Zenon
    <2> HIDE DEF g
    <2>7. ASSUME NEW i \in first..end
          PROVE  DecodeAt(uri, f, i) = DecodeAt(uri, g, i)
        <3>1. i > n \/ (i + 1 \in next..end /\ i + 3 \in next..end)
            BY <1>n, <2>1, <2>e
        <3>2. CASE i > n
            BY <3>2, Zenon DEF DecodeAt
        <3>3. CASE i + 1 \in next..end /\ i + 3 \in next..end
            <4>1. g[i + 1] = f[i + 1] /\ g[i + 3] = f[i + 3]
                BY <2>5, <3>3, Zenon
            <4> QED
                BY <4>1, Zenon DEF DecodeAt
        <3> QED
            BY <3>1, <3>2, <3>3, Zenon
    <2>8. ASSUME NEW i \in first..end
          PROVE  g[i] = DecodeAt(uri, g, i)
        <3>1. i = first \/ i \in next..end
            BY <1>n, <2>1, <2>e
        <3>2. CASE i = first
            BY <2>5, <2>7, <3>2, Zenon
        <3>3. CASE i \in next..end
            BY <2>3, <2>5, <2>7, <3>3, Zenon
        <3> QED
            BY <3>1, <3>2, <3>3, Zenon
    <2>9. [i \in first..end |-> g[i]] = [i \in first..end |-> DecodeAt(uri, g, i)]
        BY <2>8, Zenon
    <2>10. DecodesFrom(uri, first, g)
        BY <2>6, <2>9, Zenon DEF DecodesFrom, end
    <2> QED
        BY <2>10, Zenon DEF first
<1>3. Nat \subseteq HaveDecoders(uri)
    BY <1>1, <1>2, NatInd
<1>4. n <= n /\ n + 1 - n = 1
    BY <1>n
<1> QED
    BY <1>n, <1>3, <1>4, Zenon DEF HaveDecoders

(* UriDecode is that function, at place 1. *)
LEMMA Decoder ==
    ASSUME NEW uri, Len(uri) \in Nat
    PROVE  \E from : /\ UriDecode(uri) = from[1]
                     /\ \A i \in 1..(Len(uri) + 3) : from[i] = DecodeAt(uri, from, i)
<1> DEFINE from == CHOOSE f : f = [i \in 1..(Len(uri) + 3) |->
                IF i > Len(uri) THEN <<>>
                ELSE IF EscapeAt(uri, i)
                THEN <<HexToValue(uri[i + 1]) * 16 + HexToValue(uri[i + 2])>> \o f[i + 3]
                ELSE <<IF uri[i] = 43 THEN 32 ELSE uri[i]>> \o f[i + 1]]
<1>1. UriDecode(uri) = from[1]
    BY Zenon DEF UriDecode
<1>2. \E f : f = [i \in 1..(Len(uri) + 3) |->
                IF i > Len(uri) THEN <<>>
                ELSE IF EscapeAt(uri, i)
                THEN <<HexToValue(uri[i + 1]) * 16 + HexToValue(uri[i + 2])>> \o f[i + 3]
                ELSE <<IF uri[i] = 43 THEN 32 ELSE uri[i]>> \o f[i + 1]]
    BY DecoderExists, Zenon DEF DecodesFrom, DecodeAt
<1>3. from = [i \in 1..(Len(uri) + 3) |->
                IF i > Len(uri) THEN <<>>
                ELSE IF EscapeAt(uri, i)
                THEN <<HexToValue(uri[i + 1]) * 16 + HexToValue(uri[i + 2])>> \o from[i + 3]
                ELSE <<IF uri[i] = 43 THEN 32 ELSE uri[i]>> \o from[i + 1]]
    BY <1>2, Zenon
<1> HIDE DEF from
<1>4. from = [i \in 1..(Len(uri) + 3) |-> DecodeAt(uri, from, i)]
    BY <1>3, Zenon DEF DecodeAt
<1>5. \A i \in 1..(Len(uri) + 3) : from[i] = DecodeAt(uri, from, i)
    BY <1>4, Zenon
<1> QED
    BY <1>1, <1>5, Zenon

(* HexDigit and HexToValue undo each other. *)
LEMMA HexBack ==
    ASSUME NEW v \in 0..15
    PROVE  HexDigit(v) \in Nat /\ IsXDigit(HexDigit(v)) /\ HexToValue(HexDigit(v)) = v
BY DEF HexDigit, IsXDigit, HexToValue, Between

(* The two hexadecimal digits of a byte. *)
LEMMA HexParts ==
    ASSUME NEW c \in 0..127
    PROVE  c \div 16 \in 0..15 /\ c % 16 \in 0..15 /\ c = (c \div 16) * 16 + (c % 16)
OBVIOUS

(* What encode makes of a byte: itself, or an escape with its two digits.   *)
LEMMA EscapedTwoWays ==
    ASSUME NEW c \in 0..127
    PROVE  \/ Escaped(c) = <<c>> /\ c # 37 /\ c # 43
           \/ Escaped(c) = <<37, HexDigit(c \div 16), HexDigit(c % 16)>>
<1>1. CASE IsAlnum(c) \/ c \in {45, 95, 46, 126}
    <2>1. c # 37 /\ c # 43
        BY <1>1 DEF IsAlnum, Between
    <2> QED
        BY <1>1, <2>1, Zenon DEF Escaped
<1>2. CASE ~(IsAlnum(c) \/ c \in {45, 95, 46, 126})
    BY <1>2, Zenon DEF Escaped
<1> QED
    BY <1>1, <1>2, Zenon

(* What a byte is encoded as is a text. *)
LEMMA EscapedType ==
    ASSUME NEW c \in 0..127
    PROVE  Escaped(c) \in Seq(Nat)
<1>1. c \div 16 \in 0..15 /\ c % 16 \in 0..15
    OBVIOUS
<1>2. HexDigit(c \div 16) \in Nat /\ HexDigit(c % 16) \in Nat
    BY <1>1, HexBack
<1>3. CASE Escaped(c) = <<c>>
    <2>1. <<c>> \in Seq(Nat)
        OBVIOUS
    <2> QED
        BY <1>3, <2>1, Zenon
<1>4. CASE Escaped(c) = <<37, HexDigit(c \div 16), HexDigit(c % 16)>>
    <2> DEFINE h == HexDigit(c \div 16)
               l == HexDigit(c % 16)
    <2>1. h \in Nat /\ l \in Nat
        BY <1>2
    <2> HIDE DEF h, l
    <2>2. <<37, h, l>> \in Seq(Nat)
        BY <2>1
    <2> QED
        BY <1>4, <2>2, Zenon DEF h, l
<1> QED
    BY <1>3, <1>4, EscapedTwoWays, Zenon

(* The bytes that uri::encode is given. *)
Ascii == 0..127

(* What encode makes of c lies in uri between a and b. *)
EscapeLies(c, uri, a, b) ==
    /\ b = a + Len(Escaped(c)) /\ b <= Len(uri)
    /\ \A j \in 1..Len(Escaped(c)) : uri[a + j] = Escaped(c)[j]

(* decode takes what encode made of a byte, between a and b, for that byte. *)
LEMMA DecodesEscaped ==
    ASSUME NEW c \in Ascii, NEW uri \in Seq(Nat), NEW a \in Nat, NEW b \in Nat, NEW from,
           EscapeLies(c, uri, a, b)
    PROVE  DecodeAt(uri, from, a + 1) = <<c>> \o from[b + 1]
<1> DEFINE n == Len(uri)
<1>l. /\ b = a + Len(Escaped(c)) /\ b <= n
      /\ \A j \in 1..Len(Escaped(c)) : uri[a + j] = Escaped(c)[j]
    BY Zenon DEF EscapeLies
<1>n. n \in Nat /\ b <= n
    BY <1>l, LengthNat
<1>1. CASE Escaped(c) = <<c>> /\ c # 37 /\ c # 43
    <2>1. Len(<<c>>) = 1 /\ <<c>>[1] = c /\ 1 \in 1..1
        OBVIOUS
    <2>2. b = a + 1 /\ uri[a + 1] = c
        BY <1>1, <1>l, <2>1, Zenon
    <2> HIDE DEF n
    <2>3. ~(a + 1 > n) /\ a + 1 + 1 = b + 1
        BY <1>n, <2>2
    <2>4. ~EscapeAt(uri, a + 1)
        BY <1>1, <2>2, Zenon DEF EscapeAt
    <2>5. DecodeAt(uri, from, a + 1) = <<c>> \o from[a + 1 + 1]
        BY <1>1, <2>2, <2>3, <2>4, Zenon DEF DecodeAt, n
    <2> QED
        BY <2>3, <2>5, Zenon
<1>2. CASE Escaped(c) = <<37, HexDigit(c \div 16), HexDigit(c % 16)>>
    <2> DEFINE h == HexDigit(c \div 16)
               l == HexDigit(c % 16)
               e == <<37, h, l>>
    <2>1. Len(e) = 3 /\ e[1] = 37 /\ e[2] = h /\ e[3] = l
        OBVIOUS
    <2>2. c \div 16 \in 0..15 /\ c % 16 \in 0..15 /\ c = (c \div 16) * 16 + (c % 16)
        BY HexParts, Zenon DEF Ascii
    <2>3. IsXDigit(h) /\ IsXDigit(l) /\ HexToValue(h) = c \div 16 /\ HexToValue(l) = c % 16
        BY <2>2, HexBack
    <2>4. Escaped(c) = e
        BY <1>2
    <2> HIDE DEF n, h, l, e
    <2>5. 1 \in 1..3 /\ 2 \in 1..3 /\ 3 \in 1..3
        OBVIOUS
    <2>6. b = a + 3 /\ uri[a + 1] = 37 /\ uri[a + 2] = h /\ uri[a + 3] = l
        BY <1>l, <2>1, <2>4, <2>5, Zenon
    <2>7. /\ ~(a + 1 > n) /\ a + 1 + 1 = a + 2 /\ a + 1 + 2 = a + 3 /\ a + 1 + 2 <= n
          /\ a + 1 + 3 = b + 1
        BY <1>n, <2>6
    <2>8. EscapeAt(uri, a + 1)
        BY <2>3, <2>6, <2>7, Zenon DEF EscapeAt, n
    <2>9. HexToValue(h) * 16 + HexToValue(l) = c
        BY <2>2, <2>3, Zenon
    <2>10. DecodeAt(uri, from, a + 1)
             = <<HexToValue(uri[a + 1 + 1]) * 16 + HexToValue(uri[a + 1 + 2])>> \o from[a + 1 + 3]
        BY <2>7, <2>8, Zenon DEF DecodeAt, n
    <2> QED
        BY <2>6, <2>7, <2>9, <2>10, Zenon
<1> QED
    BY <1>1, <1>2, EscapedTwoWays, Zenon DEF Ascii

(* What follows the first k members of a sequence. *)
Rest(s, k) == [i \in 1..(Len(s) - k) |-> s[k + i]]

(* The rest behind nothing. *)
LEMMA RestWhole ==
    ASSUME NEW S, NEW s \in Seq(S)
    PROVE  Rest(s, 0) = s
BY DEF Rest

(* The rest behind everything. *)
LEMMA RestNone ==
    ASSUME NEW S, NEW s \in Seq(S)
    PROVE  Rest(s, Len(s)) = <<>>
BY DEF Rest

(* The rest is a list of what is missing. *)
LEMMA RestType ==
    ASSUME NEW S, NEW s \in Seq(S), NEW k \in 0..Len(s)
    PROVE  /\ Rest(s, k) \in Seq(S) /\ Len(Rest(s, k)) = Len(s) - k
           /\ \A i \in 1..(Len(s) - k) : Rest(s, k)[i] = s[k + i]
BY DEF Rest

(* One more member in front. *)
LEMMA RestStep ==
    ASSUME NEW S, NEW s \in Seq(S), NEW k \in 1..Len(s)
    PROVE  <<s[k]>> \o Rest(s, k) = Rest(s, k - 1)
<1> DEFINE n == Len(s)
           h == <<s[k]>>
           r == Rest(s, k)
           q == Rest(s, k - 1)
<1>1. n \in Nat /\ k \in 0..n /\ k - 1 \in 0..n /\ s[k] \in S
    OBVIOUS
<1>2. r \in Seq(S) /\ Len(r) = n - k /\ \A i \in 1..(n - k) : r[i] = s[k + i]
    BY <1>1, RestType
<1>3. /\ q \in Seq(S) /\ Len(q) = n - (k - 1)
      /\ \A i \in 1..(n - (k - 1)) : q[i] = s[k - 1 + i]
    BY <1>1, RestType
<1>4. h \in Seq(S) /\ Len(h) = 1 /\ h[1] = s[k]
    BY <1>1
<1>5. h \in Seq(S) /\ r \in Seq(S)
    BY <1>2, <1>4
<1> HIDE DEF n, h, r, q
<1>6. /\ h \o r \in Seq(S) /\ Len(h \o r) = Len(h) + Len(r)
      /\ \A i \in 1..Len(h) : (h \o r)[i] = h[i]
      /\ \A i \in 1..Len(r) : (h \o r)[Len(h) + i] = r[i]
    BY <1>5, Joined
<1>7. 1 + (n - k) = n - (k - 1)
    BY <1>1
<1>8. Len(h \o r) = Len(q)
    BY <1>2, <1>3, <1>4, <1>6, <1>7, Zenon
<1>9. ASSUME NEW i \in 1..(n - (k - 1))
      PROVE  (h \o r)[i] = q[i]
    <2>1. CASE i = 1
        <3>1. k - 1 + i = k /\ 1 \in 1..1
            BY <1>1, <2>1
        <3>2. (h \o r)[i] = s[k]
            BY <1>4, <1>6, <2>1, <3>1, Zenon
        <3> QED
            BY <1>3, <3>1, <3>2, Zenon
    <2>2. CASE i # 1
        <3> DEFINE j == i - 1
        <3>1. j \in 1..(n - k) /\ 1 + j = i /\ k + j = k - 1 + i
            BY <1>1, <2>2
        <3> HIDE DEF j
        <3>2. (h \o r)[1 + j] = r[j] /\ r[j] = s[k + j]
            BY <1>2, <1>4, <1>6, <3>1, Zenon
        <3> QED
            BY <1>3, <3>1, <3>2, Zenon
    <2> QED
        BY <2>1, <2>2
<1>10. \A i \in 1..Len(h \o r) : (h \o r)[i] = q[i]
    BY <1>3, <1>8, <1>9, Zenon
<1>11. h \o r = q
    <2>1. h \o r \in Seq(S) /\ q \in Seq(S)
        BY <1>3, <1>6
    <2> QED
        BY <1>8, <1>10, <2>1, SameSequence
<1> QED
    BY <1>11 DEF h, r, q

(* Decoding behind place at[i] gives the text behind its i-th byte.         *)
DecodedBehind(t, at, from) ==
    {m \in Nat : m <= Len(t) => from[at[Len(t) - m] + 1] = Rest(t, Len(t) - m)}

(* Decoding gives back what encoding was given. *)
LEMMA EscapesUndone ==
    ASSUME NEW t \in Seq(Ascii)
    PROVE  UriDecode(UriEncode(t)) = t
<1> DEFINE n == Len(t)
           parts == [i \in DOMAIN t |-> Escaped(t[i])]
           uri == UriEncode(t)
<1>1. n \in Nat /\ DOMAIN t = 1..n /\ \A i \in 1..n : t[i] \in Ascii
    BY Members
<1>2. /\ parts \in Seq(Seq(Nat)) /\ Len(parts) = n
      /\ \A i \in 1..n : parts[i] = Escaped(t[i])
    <2>1. \A i \in 1..n : Escaped(t[i]) \in Seq(Nat)
        BY <1>1, EscapedType, Zenon DEF Ascii
    <2> DEFINE E == Seq(Nat)
    <2>2. parts = [i \in 1..n |-> Escaped(t[i])]
        BY <1>1, Zenon
    <2>3. \A i \in 1..n : Escaped(t[i]) \in E
        BY <2>1
    <2> HIDE DEF n, parts, E
    <2>4. /\ parts \in Seq(E) /\ Len(parts) = n
          /\ \A i \in 1..n : parts[i] = Escaped(t[i])
        BY <1>1, <2>2, <2>3
    <2> QED
        BY <2>4 DEF E
<1>3. uri = FlattenSeq(parts)
    BY DEF UriEncode
<1> HIDE DEF parts, uri
<1>4. /\ FlattenSeq(parts) \in Seq(Nat)
      /\ \E at \in [0..Len(parts) -> Nat] :
            /\ at[0] = 0 /\ at[Len(parts)] = Len(FlattenSeq(parts))
            /\ \A k \in 1..Len(parts) : Lies(parts, FlattenSeq(parts), at, k)
    BY <1>2, FlattenPlaces
<1>5. uri \in Seq(Nat) /\ Len(uri) \in Nat
    <2>1. uri \in Seq(Nat)
        BY <1>3, <1>4, Zenon
    <2> QED
        BY <2>1
<1>6. PICK at \in [0..n -> Nat] : /\ at[0] = 0 /\ at[n] = Len(uri)
                                  /\ \A k \in 1..n : Lies(parts, uri, at, k)
    BY <1>2, <1>3, <1>4, Zenon
<1>7. PICK from : /\ UriDecode(uri) = from[1]
                  /\ \A i \in 1..(Len(uri) + 3) : from[i] = DecodeAt(uri, from, i)
    BY <1>5, Decoder
<1> HIDE DEF n
<1>8. 0 \in DecodedBehind(t, at, from)
    <2>1. 0 \in Nat /\ n - 0 = n /\ Len(uri) + 1 > Len(uri) /\ Len(uri) + 1 \in 1..(Len(uri) + 3)
        BY <1>1, <1>5
    <2>2. from[at[n] + 1] = <<>>
        <3>1. from[Len(uri) + 1] = DecodeAt(uri, from, Len(uri) + 1)
            BY <1>7, <2>1, Zenon
        <3>2. DecodeAt(uri, from, Len(uri) + 1) = <<>>
            BY <2>1, Zenon DEF DecodeAt
        <3> QED
            BY <1>6, <3>1, <3>2, Zenon
    <2>3. Rest(t, n) = <<>>
        BY RestNone DEF n
    <2> QED
        BY <2>1, <2>2, <2>3, Zenon DEF DecodedBehind, n
<1>9. ASSUME NEW m \in Nat, m \in DecodedBehind(t, at, from)
      PROVE  m + 1 \in DecodedBehind(t, at, from)
    <2>0. m + 1 \in Nat
        OBVIOUS
    <2> SUFFICES ASSUME m + 1 <= n
                 PROVE  from[at[n - (m + 1)] + 1] = Rest(t, n - (m + 1))
        BY <2>0, Zenon DEF DecodedBehind, n
    <2> DEFINE k == n - m
    <2>1. m <= n /\ k \in 1..n /\ k - 1 = n - (m + 1) /\ k - 1 \in 0..n /\ k \in 0..n
        BY <1>1
    <2>2. from[at[k] + 1] = Rest(t, k)
        BY <1>9, <2>1, Zenon DEF DecodedBehind, n
    <2> HIDE DEF k
    <2>3. /\ at[k - 1] \in Nat /\ at[k] \in Nat /\ at[k] = at[k - 1] + Len(Escaped(t[k]))
          /\ at[k] <= Len(uri)
          /\ \A j \in 1..Len(Escaped(t[k])) : uri[at[k - 1] + j] = Escaped(t[k])[j]
        <3>1. Lies(parts, uri, at, k) /\ parts[k] = Escaped(t[k])
            BY <1>2, <1>6, <2>1, Zenon
        <3>2. /\ at[k - 1] \in Nat /\ at[k] \in Nat /\ at[k] = at[k - 1] + Len(parts[k])
              /\ at[k] <= Len(uri)
              /\ \A j \in 1..Len(parts[k]) : uri[at[k - 1] + j] = parts[k][j]
            BY <3>1, Zenon DEF Lies
        <3> QED
            BY <3>1, <3>2, Zenon
    <2>4. t[k] \in Ascii
        BY <1>1, <2>1, Zenon
    <2>5. DecodeAt(uri, from, at[k - 1] + 1) = <<t[k]>> \o from[at[k] + 1]
        <3> DEFINE a == at[k - 1]
                   b == at[k]
                   c == t[k]
        <3>1. a \in Nat /\ b \in Nat /\ EscapeLies(c, uri, a, b)
            BY <2>3, Zenon DEF EscapeLies
        <3>2. c \in Ascii /\ uri \in Seq(Nat)
            BY <1>5, <2>4
        <3> HIDE DEF a, b, c
        <3>3. DecodeAt(uri, from, a + 1) = <<c>> \o from[b + 1]
            <4>1. a \in Nat /\ b \in Nat
                BY <3>1
            <4>2. EscapeLies(c, uri, a, b)
                BY <3>1
            <4>3. c \in Ascii
                BY <3>2
            <4> QED
                BY <3>2, <4>1, <4>2, <4>3, DecodesEscaped
        <3> QED
            BY <3>3, Zenon DEF a, b, c
    <2>6. at[k - 1] + 1 \in 1..(Len(uri) + 3)
        <3>1. at[k - 1] <= Len(uri)
            <4>1. Len(Escaped(t[k])) \in Nat
                <5>1. Escaped(t[k]) \in Seq(Nat)
                    BY <2>4, EscapedType DEF Ascii
                <5> QED
                    BY <5>1, LengthNat
            <4> DEFINE l == Len(Escaped(t[k]))
                       u == Len(uri)
            <4>2. at[k] = at[k - 1] + l /\ at[k] <= u /\ u \in Nat /\ l \in Nat
                BY <1>5, <2>3, <4>1
            <4> HIDE DEF l, u
            <4>3. at[k - 1] <= u
                BY <2>3, <4>2
            <4> QED
                BY <4>3 DEF u
        <3> QED
            BY <1>5, <2>3, <3>1
    <2>7. from[at[k - 1] + 1] = <<t[k]>> \o Rest(t, k)
        BY <1>7, <2>2, <2>5, <2>6, Zenon
    <2>8. <<t[k]>> \o Rest(t, k) = Rest(t, k - 1)
        <3>1. k \in 1..Len(t)
            BY <2>1 DEF n
        <3> QED
            BY <3>1, RestStep
    <2> QED
        BY <2>1, <2>7, <2>8, Zenon
<1>10. Nat \subseteq DecodedBehind(t, at, from)
    BY <1>8, <1>9, NatInd
<1>11. n \in Nat /\ n <= n /\ n - n = 0 /\ 0 + 1 = 1
    BY <1>1
<1>12. from[1] = Rest(t, 0)
    BY <1>6, <1>10, <1>11, Zenon DEF DecodedBehind, n
<1>13. Rest(t, 0) = t
    BY RestWhole
<1> QED
    BY <1>7, <1>12, <1>13, Zenon DEF uri

(* The text is made of the bytes that are written. *)
TextOK == text \in Seq(Bytes)

LEMMA TextAlways == EncodingsSpec => []TextOK
<1>1. EncodingsInit => TextOK
    BY DEF EncodingsInit, TextOK
<1>2. TextOK /\ [EncodingsNext]_encodingVars => TextOK'
    <2> SUFFICES ASSUME TextOK, [EncodingsNext]_encodingVars
                 PROVE  TextOK'
        OBVIOUS
    <2>1. ASSUME NEW byte \in Bytes, Write(byte)
          PROVE  TextOK'
        BY <2>1 DEF TextOK, Write
    <2>2. CASE text' = text
        BY <2>2 DEF TextOK
    <2>3. (\E byte \in Bytes : Write(byte)) \/ text' = text
        BY Zenon DEF EncodingsNext, encodingVars, Hash, FeedInput, FeedEnd, FillBlock, FeedZeros,
                     FeedLength
    <2> QED
        BY <2>1, <2>2, <2>3
<1> QED
    BY <1>1, <1>2, PTL DEF EncodingsSpec

(* Decoding gives back what was encoded, for every text of bytes that       *)
(* uri::encode takes: also if it is full of escapes, blanks and plus signs. *)
THEOREM UriRestored == EncodingsSpec => []UriRoundTrip
<1>1. TextOK => UriRoundTrip
    <2> SUFFICES ASSUME TextOK, \A i \in DOMAIN text : text[i] < 128
                 PROVE  UriDecode(UriEncode(text)) = text
        BY DEF UriRoundTrip
    <2>1. text \in Seq(Bytes)
        BY DEF TextOK
    <2>a. \A i \in DOMAIN text : text[i] \in 0..255
        <3>1. DOMAIN text = 1..Len(text) /\ \A i \in 1..Len(text) : text[i] \in Bytes
            BY <2>1, Members
        <3> QED
            BY <3>1, EncodingsAssumption
    <2>b. \A i \in DOMAIN text : text[i] \in Ascii
        BY <2>a DEF Ascii
    <2>2. text \in Seq(Ascii)
        BY <2>1, <2>b, MembersIn
    <2> QED
        BY <2>2, EscapesUndone
<1> QED
    BY <1>1, TextAlways, PTL

-------------------------------------------------------------------------------
(* Parameters.                                                              *)

(* The first k members of a sequence. *)
First(s, k) == [i \in 1..k |-> s[i]]

(* One more member. *)
LEMMA FirstNext ==
    ASSUME NEW S, NEW s \in Seq(S), NEW k \in 1..Len(s)
    PROVE  First(s, k) = First(s, k - 1) \o <<s[k]>>
<1> DEFINE x == First(s, k)
           y == First(s, k - 1)
           z == <<s[k]>>
           u == y \o z
<1>1. Len(s) \in Nat /\ k \in Nat /\ k - 1 \in Nat /\ k - 1 + 1 = k /\ s[k] \in S
    OBVIOUS
<1>2. x \in Seq(S) /\ Len(x) = k /\ \A i \in 1..k : x[i] = s[i]
    BY <1>1 DEF First
<1>3. y \in Seq(S) /\ Len(y) = k - 1 /\ \A i \in 1..(k - 1) : y[i] = s[i]
    BY <1>1 DEF First
<1>4. z \in Seq(S) /\ Len(z) = 1 /\ z[1] = s[k]
    BY <1>1
<1>5. y \in Seq(S) /\ z \in Seq(S)
    BY <1>3, <1>4
<1> HIDE DEF x, y, z
<1>6. /\ u \in Seq(S) /\ Len(u) = Len(y) + Len(z)
      /\ \A i \in 1..Len(y) : u[i] = y[i]
      /\ \A i \in 1..Len(z) : u[Len(y) + i] = z[i]
    BY <1>5, Joined
<1> HIDE DEF u
<1>7. Len(u) = k
    BY <1>1, <1>3, <1>4, <1>6
<1>8. ASSUME NEW i \in 1..k
      PROVE  u[i] = x[i]
    <2>1. CASE i = k
        <3>1. 1 \in 1..1 /\ Len(y) + 1 = k
            BY <1>1, <1>3
        <3>2. u[Len(y) + 1] = s[k]
            BY <1>4, <1>6, <3>1, Zenon
        <3> QED
            BY <1>2, <2>1, <3>1, <3>2, Zenon
    <2>2. CASE i # k
        <3>1. i \in 1..(k - 1)
            BY <1>1, <2>2
        <3> QED
            BY <1>2, <1>3, <1>6, <3>1, Zenon
    <2> QED
        BY <2>1, <2>2
<1>9. u \in Seq(S) /\ x \in Seq(S)
    BY <1>2, <1>6
<1>10. Len(u) = Len(x) /\ \A i \in 1..Len(u) : u[i] = x[i]
    BY <1>2, <1>7, <1>8, Zenon
<1>11. u = x
    BY <1>9, <1>10, SameSequence
<1> QED
    BY <1>11 DEF u, x, y, z

(* Parts of one member each. *)
Singles(s) == [i \in DOMAIN s |-> <<s[i]>>]

(* They make the sequence they were taken from. *)
LEMMA FlattenSingles ==
    ASSUME NEW S, NEW s \in Seq(S)
    PROVE  FlattenSeq(Singles(s)) = s
<1> DEFINE n == Len(s)
           E == Seq(S)
           p == Singles(s)
           h == [k \in 0..n |-> First(s, k)]
<1>1. n \in Nat /\ \A i \in 1..n : s[i] \in S
    BY Members
<1>2. \A i \in 1..n : <<s[i]>> \in E
    BY <1>1
<1>3. DOMAIN s = 1..n
    BY Members
<1> HIDE DEF E
<1>4. p \in Seq(E) /\ Len(p) = n /\ \A i \in 1..n : p[i] = <<s[i]>>
    BY <1>1, <1>2, <1>3 DEF Singles
<1>5. p \in Seq(Seq(S))
    BY <1>4 DEF E
<1>6. \A k \in 1..n : First(s, k) = First(s, k - 1) \o <<s[k]>>
    BY FirstNext
<1>7. First(s, 0) = <<>> /\ First(s, n) = s
    BY DEF First
<1>8. 0 \in 0..n /\ n \in 0..n /\ \A k \in 1..n : k \in 0..n /\ k - 1 \in 0..n
    BY <1>1
<1> HIDE DEF n, p
<1>9. h[0] = <<>> /\ h[n] = s
    BY <1>7, <1>8, Zenon
<1>10. \A k \in 1..n : h[k] = h[k - 1] \o p[k]
    BY <1>4, <1>6, <1>8, Zenon
<1> HIDE DEF h
<1>11. FlattenSeq(p) = h[Len(p)]
    <2>1. \A k \in 1..Len(p) : h[k] = h[k - 1] \o p[k]
        BY <1>4, <1>10, Zenon
    <2> QED
        BY <1>5, <1>9, <2>1, FlattenUnique
<1> QED
    BY <1>4, <1>9, <1>11, Zenon DEF p

(* A function over the members of a sequence. *)
Maps(f, V, S) == \A v \in V : f[v] \in S

(* The values of f for the members of s. *)
Mapped(f, s) == [i \in DOMAIN s |-> f[s[i]]]

(* They are as many, in the same places. *)
LEMMA MapType ==
    ASSUME NEW V, NEW S, NEW f, Maps(f, V, S), NEW s \in Seq(V)
    PROVE  /\ Mapped(f, s) \in Seq(S) /\ Len(Mapped(f, s)) = Len(s)
           /\ \A i \in 1..Len(s) : Mapped(f, s)[i] = f[s[i]]
BY DEF Mapped, Maps

(* Mapping two lists is joining the mapped ones. *)
LEMMA MapJoined ==
    ASSUME NEW V, NEW S, NEW f, Maps(f, V, S), NEW s \in Seq(V), NEW t \in Seq(V)
    PROVE  Mapped(f, s \o t) = Mapped(f, s) \o Mapped(f, t)
<1> DEFINE n == Len(s)
           l == Len(t)
           u == s \o t
           a == Mapped(f, s)
           b == Mapped(f, t)
           x == Mapped(f, u)
           y == a \o b
<1>1. n \in Nat /\ l \in Nat
    BY LengthNat
<1>2. /\ u \in Seq(V) /\ Len(u) = n + l
      /\ \A i \in 1..n : u[i] = s[i]
      /\ \A i \in 1..l : u[n + i] = t[i]
    BY Joined
<1>3. a \in Seq(S) /\ Len(a) = n /\ \A i \in 1..n : a[i] = f[s[i]]
    BY MapType
<1>4. b \in Seq(S) /\ Len(b) = l /\ \A i \in 1..l : b[i] = f[t[i]]
    BY MapType
<1> HIDE DEF u
<1>5. x \in Seq(S) /\ Len(x) = Len(u) /\ \A i \in 1..Len(u) : x[i] = f[u[i]]
    <2>1. u \in Seq(V)
        BY <1>2
    <2> QED
        BY <2>1, MapType
<1>6. a \in Seq(S) /\ b \in Seq(S)
    BY <1>3, <1>4
<1> HIDE DEF n, l, a, b, x
<1>7. /\ y \in Seq(S) /\ Len(y) = Len(a) + Len(b)
      /\ \A i \in 1..Len(a) : y[i] = a[i]
      /\ \A i \in 1..Len(b) : y[Len(a) + i] = b[i]
    BY <1>6, Joined
<1> HIDE DEF y
<1>8. ASSUME NEW i \in 1..(n + l)
      PROVE  x[i] = y[i]
    <2>1. x[i] = f[u[i]]
        BY <1>2, <1>5, Zenon
    <2>2. CASE i <= n
        <3>1. i \in 1..n
            BY <1>1, <2>2
        <3> QED
            BY <1>2, <1>3, <1>7, <2>1, <3>1, Zenon
    <2>3. CASE ~(i <= n)
        <3> DEFINE j == i - n
        <3>1. j \in 1..l /\ n + j = i
            BY <1>1, <2>3
        <3> HIDE DEF j
        <3> QED
            BY <1>2, <1>3, <1>4, <1>7, <2>1, <3>1, Zenon
    <2> QED
        BY <2>2, <2>3
<1>9. Len(x) = Len(y) /\ \A i \in 1..Len(x) : x[i] = y[i]
    <2>1. Len(x) = n + l
        BY <1>2, <1>5, Zenon
    <2>2. Len(y) = n + l
        BY <1>3, <1>4, <1>7, Zenon
    <2> QED
        BY <1>8, <2>1, <2>2, Zenon
<1>10. x \in Seq(S) /\ y \in Seq(S)
    BY <1>5, <1>7
<1>11. x = y
    BY <1>9, <1>10, SameSequence
<1> QED
    BY <1>11 DEF x, y, u, a, b

(* A sequence and its first member. *)
LEMMA Fronted ==
    ASSUME NEW S, NEW s \in Seq(S), s # <<>>
    PROVE  s[1] \in S /\ Tail(s) \in Seq(S) /\ s = <<s[1]>> \o Tail(s)
OBVIOUS

(* Head and tail of a list with a member in front. *)
LEMMA FrontOf ==
    ASSUME NEW S, NEW x \in S, NEW t \in Seq(S)
    PROVE  /\ <<x>> \o t # <<>> /\ (<<x>> \o t)[1] = x
           /\ Head(<<x>> \o t) = x /\ Tail(<<x>> \o t) = t
OBVIOUS

(* What a value's parts are.                                                *)
AnyItem == {Item(v) : v \in Simple} \cup [code : {"tuple"}, count : Nat]

(* Of a value that is no tuple, and its item. *)
LEMMA SimpleFacts ==
    ASSUME NEW v \in Simple
    PROVE  /\ v.is \in {"text", "number", "bool"} /\ v.is # "tuple" /\ v.of \in Contents
           /\ Item(v).code # "tuple" /\ Item(v).of = v.of /\ Item(v) \in AnyItem
           /\ v \in Values
BY DEF Simple, Values, Item, AnyItem

(* An item fits its own type, unless it is a boolean, which fits none.      *)
LEMMA SimpleFits ==
    ASSUME NEW v \in Simple, NEW type
    PROVE  /\ v.is = "bool" => ~TypeFits(Item(v).code, type)
           /\ v.is # "bool" => TypeFits(Item(v).code, [is |-> v.is])
BY DEF Simple, Item, TypeFits

(* A value is a tuple or none. *)
LEMMA ValueFacts ==
    ASSUME NEW v \in Values
    PROVE  v \in Simple \/ (v.is = "tuple" /\ v.elems \in Seq(Simple))
BY DEF Values

(* A value that is no tuple has one element, item and type. *)
LEMMA SimpleParts ==
    ASSUME NEW v \in Simple
    PROVE  /\ ElemsOf(v) = <<v>> /\ ItemsOf(v) = <<Item(v)>> /\ TypeOf(v) = [is |-> v.is]
BY SimpleFacts DEF ElemsOf, ItemsOf, TypeOf

(* The types of values, and what is said of them. *)
ElemsFcn == [v \in Values |-> ElemsOf(v)]
ItemsFcn == [v \in Values |-> ItemsOf(v)]
TypeFcn == [v \in Values |-> TypeOf(v)]
ItemFcn == [v \in Simple |-> Item(v)]

(* The types that values have. *)
ValueTypes == {TypeOf(v) : v \in Values}

LEMMA ElemsMaps == Maps(ElemsFcn, Values, Seq(Simple))
<1> SUFFICES ASSUME NEW v \in Values
             PROVE  ElemsOf(v) \in Seq(Simple)
    BY DEF Maps, ElemsFcn
<1>1. CASE v \in Simple
    <2>1. ElemsOf(v) = <<v>>
        BY <1>1, SimpleParts
    <2>2. <<v>> \in Seq(Simple)
        BY <1>1
    <2> QED
        BY <2>1, <2>2, Zenon
<1>2. CASE v.is = "tuple" /\ v.elems \in Seq(Simple)
    BY <1>2 DEF ElemsOf
<1> QED
    BY <1>1, <1>2, ValueFacts

LEMMA ItemMaps == Maps(ItemFcn, Simple, AnyItem)
BY SimpleFacts DEF Maps, ItemFcn

LEMMA TypeMaps == Maps(TypeFcn, Values, ValueTypes)
BY Zenon DEF Maps, TypeFcn, ValueTypes

(* The item that announces a tuple.                                         *)
Announced(elems) == [code |-> "tuple", count |-> Len(elems)]

(* A tuple is its announcement, and the items of its elements. *)
LEMMA TupleItems ==
    ASSUME NEW v, v.is = "tuple", v.elems \in Seq(Simple)
    PROVE  /\ ItemsOf(v) = <<Announced(v.elems)>> \o Mapped(ItemFcn, v.elems)
           /\ Mapped(ItemFcn, v.elems) \in Seq(AnyItem)
           /\ Announced(v.elems) \in AnyItem
<1>1. \A j \in DOMAIN v.elems : v.elems[j] \in Simple
    BY Members
<1>2. [j \in DOMAIN v.elems |-> Item(v.elems[j])] = Mapped(ItemFcn, v.elems)
    BY <1>1 DEF Mapped, ItemFcn
<1>3. ItemsOf(v) = <<Announced(v.elems)>> \o Mapped(ItemFcn, v.elems)
    BY <1>2, Zenon DEF ItemsOf, Announced
<1>4. Mapped(ItemFcn, v.elems) \in Seq(AnyItem)
    BY ItemMaps, MapType
<1>5. Announced(v.elems) \in AnyItem
    BY LengthNat DEF Announced, AnyItem
<1> QED
    BY <1>3, <1>4, <1>5

LEMMA ItemsMaps == Maps(ItemsFcn, Values, Seq(AnyItem))
<1> SUFFICES ASSUME NEW v \in Values
             PROVE  ItemsOf(v) \in Seq(AnyItem)
    BY DEF Maps, ItemsFcn
<1>1. CASE v \in Simple
    <2>1. ItemsOf(v) = <<Item(v)>> /\ Item(v) \in AnyItem
        BY <1>1, SimpleParts, SimpleFacts
    <2> QED
        BY <2>1
<1>2. CASE v.is = "tuple" /\ v.elems \in Seq(Simple)
    <2> DEFINE a == Announced(v.elems)
               m == Mapped(ItemFcn, v.elems)
    <2>1. ItemsOf(v) = <<a>> \o m /\ m \in Seq(AnyItem) /\ a \in AnyItem
        BY <1>2, TupleItems
    <2> HIDE DEF a, m
    <2>2. <<a>> \o m \in Seq(AnyItem)
        BY <2>1
    <2> QED
        BY <2>1, <2>2
<1> QED
    BY <1>1, <1>2, ValueFacts

(* Values one behind the other. *)
LEMMA AsMapped ==
    ASSUME NEW w \in Seq(Values)
    PROVE  /\ Flattened(w) = FlattenSeq(Mapped(ElemsFcn, w))
           /\ Items(w) = FlattenSeq(Mapped(ItemsFcn, w))
           /\ TypesOf(w) = Mapped(TypeFcn, w)
<1>1. \A i \in DOMAIN w : w[i] \in Values
    BY Members
<1>2. [i \in DOMAIN w |-> ElemsOf(w[i])] = Mapped(ElemsFcn, w)
    BY <1>1 DEF Mapped, ElemsFcn
<1>3. [i \in DOMAIN w |-> ItemsOf(w[i])] = Mapped(ItemsFcn, w)
    BY <1>1 DEF Mapped, ItemsFcn
<1>4. [i \in DOMAIN w |-> TypeOf(w[i])] = Mapped(TypeFcn, w)
    BY <1>1 DEF Mapped, TypeFcn
<1> QED
    BY <1>2, <1>3, <1>4, Zenon DEF Flattened, Items, TypesOf

(* A list of one. *)
LEMMA MapOne ==
    ASSUME NEW V, NEW S, NEW f, Maps(f, V, S), NEW v \in V
    PROVE  <<v>> \in Seq(V) /\ Mapped(f, <<v>>) = <<f[v]>> /\ f[v] \in S
BY DEF Mapped, Maps

(* What values are made of, as lists. *)
LEMMA PartsTyped ==
    ASSUME NEW w \in Seq(Values)
    PROVE  /\ Flattened(w) \in Seq(Simple) /\ Items(w) \in Seq(AnyItem)
           /\ TypesOf(w) \in Seq(ValueTypes)
<1>1. Mapped(ElemsFcn, w) \in Seq(Seq(Simple))
    BY ElemsMaps, MapType
<1>2. Mapped(ItemsFcn, w) \in Seq(Seq(AnyItem))
    BY ItemsMaps, MapType
<1>3. Mapped(TypeFcn, w) \in Seq(ValueTypes)
    BY TypeMaps, MapType
<1>4. FlattenSeq(Mapped(ElemsFcn, w)) \in Seq(Simple)
    BY <1>1, FlattenType
<1>5. FlattenSeq(Mapped(ItemsFcn, w)) \in Seq(AnyItem)
    BY <1>2, FlattenType
<1> QED
    BY <1>3, <1>4, <1>5, AsMapped, Zenon

(* Flattening and encoding values one after the other. *)
LEMMA FlattenedJoined ==
    ASSUME NEW s \in Seq(Values), NEW t \in Seq(Values)
    PROVE  Flattened(s \o t) = Flattened(s) \o Flattened(t)
<1>1. s \o t \in Seq(Values)
    BY Joined
<1>2. Mapped(ElemsFcn, s \o t) = Mapped(ElemsFcn, s) \o Mapped(ElemsFcn, t)
    BY ElemsMaps, MapJoined
<1>3. Mapped(ElemsFcn, s) \in Seq(Seq(Simple))
    BY ElemsMaps, MapType
<1>4. Mapped(ElemsFcn, t) \in Seq(Seq(Simple))
    BY ElemsMaps, MapType
<1> DEFINE a == Mapped(ElemsFcn, s)
           b == Mapped(ElemsFcn, t)
<1>5. FlattenSeq(a \o b) = FlattenSeq(a) \o FlattenSeq(b)
    <2> HIDE DEF a, b
    <2>1. a \in Seq(Seq(Simple)) /\ b \in Seq(Seq(Simple))
        BY <1>3, <1>4 DEF a, b
    <2> QED
        BY <2>1, FlattenJoined
<1>6. Flattened(s \o t) = FlattenSeq(a \o b)
    BY <1>1, <1>2, AsMapped, Zenon
<1>7. Flattened(s) = FlattenSeq(a) /\ Flattened(t) = FlattenSeq(b)
    BY AsMapped, Zenon
<1> QED
    BY <1>5, <1>6, <1>7, Zenon

LEMMA ItemsJoined ==
    ASSUME NEW s \in Seq(Values), NEW t \in Seq(Values)
    PROVE  Items(s \o t) = Items(s) \o Items(t)
<1>1. s \o t \in Seq(Values)
    BY Joined
<1>2. Mapped(ItemsFcn, s \o t) = Mapped(ItemsFcn, s) \o Mapped(ItemsFcn, t)
    BY ItemsMaps, MapJoined
<1>3. Mapped(ItemsFcn, s) \in Seq(Seq(AnyItem))
    BY ItemsMaps, MapType
<1>4. Mapped(ItemsFcn, t) \in Seq(Seq(AnyItem))
    BY ItemsMaps, MapType
<1> DEFINE a == Mapped(ItemsFcn, s)
           b == Mapped(ItemsFcn, t)
<1>5. FlattenSeq(a \o b) = FlattenSeq(a) \o FlattenSeq(b)
    <2> HIDE DEF a, b
    <2>1. a \in Seq(Seq(AnyItem)) /\ b \in Seq(Seq(AnyItem))
        BY <1>3, <1>4 DEF a, b
    <2> QED
        BY <2>1, FlattenJoined
<1>6. Items(s \o t) = FlattenSeq(a \o b)
    BY <1>1, <1>2, AsMapped, Zenon
<1>7. Items(s) = FlattenSeq(a) /\ Items(t) = FlattenSeq(b)
    BY AsMapped, Zenon
<1> QED
    BY <1>5, <1>6, <1>7, Zenon

LEMMA TypesJoined ==
    ASSUME NEW s \in Seq(Values), NEW t \in Seq(Values)
    PROVE  TypesOf(s \o t) = TypesOf(s) \o TypesOf(t)
<1>1. s \o t \in Seq(Values)
    BY Joined
<1>2. Mapped(TypeFcn, s \o t) = Mapped(TypeFcn, s) \o Mapped(TypeFcn, t)
    BY TypeMaps, MapJoined
<1> QED
    BY <1>1, <1>2, AsMapped, Zenon

(* The parts of one value. *)
LEMMA PartsOfOne ==
    ASSUME NEW v \in Values
    PROVE  /\ <<v>> \in Seq(Values)
           /\ Flattened(<<v>>) = ElemsOf(v) /\ Items(<<v>>) = ItemsOf(v)
           /\ TypesOf(<<v>>) = <<TypeOf(v)>>
<1>1. Mapped(ElemsFcn, <<v>>) = <<ElemsFcn[v]>> /\ ElemsFcn[v] \in Seq(Simple)
    BY ElemsMaps, MapOne
<1>2. Mapped(ItemsFcn, <<v>>) = <<ItemsFcn[v]>> /\ ItemsFcn[v] \in Seq(AnyItem)
    BY ItemsMaps, MapOne
<1>3. Mapped(TypeFcn, <<v>>) = <<TypeFcn[v]>>
    BY TypeMaps, MapOne
<1>4. FlattenSeq(<<ElemsFcn[v]>>) = ElemsFcn[v]
    BY <1>1, FlattenOne
<1>5. FlattenSeq(<<ItemsFcn[v]>>) = ItemsFcn[v]
    BY <1>2, FlattenOne
<1>6. ElemsFcn[v] = ElemsOf(v) /\ ItemsFcn[v] = ItemsOf(v) /\ TypeFcn[v] = TypeOf(v)
    BY Zenon DEF ElemsFcn, ItemsFcn, TypeFcn
<1>7. <<v>> \in Seq(Values)
    OBVIOUS
<1> QED
    BY <1>1, <1>2, <1>3, <1>4, <1>5, <1>6, <1>7, AsMapped, Zenon

(* The parts of none. *)
LEMMA PartsOfNone ==
    Flattened(<<>>) = <<>> /\ Items(<<>>) = <<>> /\ TypesOf(<<>>) = <<>> /\ <<>> \in Seq(Values)
<1>1. Mapped(ElemsFcn, <<>>) = <<>> /\ Mapped(ItemsFcn, <<>>) = <<>>
      /\ Mapped(TypeFcn, <<>>) = <<>> /\ <<>> \in Seq(Values)
    BY DEF Mapped
<1> QED
    BY <1>1, AsMapped, FlattenEmpty, Zenon

(* A list of values that are no tuples is flat already.                     *)
LEMMA PartsOfSimple ==
    ASSUME NEW w \in Seq(Simple)
    PROVE  /\ w \in Seq(Values) /\ Flattened(w) = w /\ Items(w) = Mapped(ItemFcn, w)
           /\ TypesOf(w) = [j \in DOMAIN w |-> [is |-> w[j].is]]
<1>1. \A i \in DOMAIN w : w[i] \in Simple
    BY Members
<1>2. \A i \in DOMAIN w : w[i] \in Values
    BY <1>1, SimpleFacts
<1>3. w \in Seq(Values)
    BY <1>2, MembersIn
<1>4. \A i \in DOMAIN w : /\ ElemsOf(w[i]) = <<w[i]>> /\ ItemsOf(w[i]) = <<Item(w[i])>>
                          /\ TypeOf(w[i]) = [is |-> w[i].is]
    BY <1>1, SimpleParts
<1>5. [i \in DOMAIN w |-> ElemsOf(w[i])] = Singles(w)
    BY <1>4 DEF Singles
<1>6. Flattened(w) = w
    BY <1>5, FlattenSingles, Zenon DEF Flattened
<1>7. TypesOf(w) = [j \in DOMAIN w |-> [is |-> w[j].is]]
    BY <1>4 DEF TypesOf
<1> DEFINE m == Mapped(ItemFcn, w)
<1>8. DOMAIN m = DOMAIN w /\ \A i \in DOMAIN w : m[i] = Item(w[i])
    BY <1>1 DEF Mapped, ItemFcn
<1>9. m \in Seq(AnyItem)
    BY ItemMaps, MapType
<1> HIDE DEF m
<1>10. [i \in DOMAIN w |-> ItemsOf(w[i])] = Singles(m)
    BY <1>4, <1>8 DEF Singles
<1>11. Items(w) = m
    BY <1>9, <1>10, FlattenSingles, Zenon DEF Items
<1> QED
    BY <1>3, <1>6, <1>7, <1>11, Zenon DEF m

(* What is decoded first. *)
LEMMA FrontSimple ==
    ASSUME NEW w \in Seq(Values), w # <<>>, w[1] \in Simple
    PROVE  /\ Tail(w) \in Seq(Values)
           /\ Items(w) = <<Item(w[1])>> \o Items(Tail(w))
           /\ Flattened(w) = <<w[1]>> \o Flattened(Tail(w))
           /\ TypesOf(w) = <<[is |-> w[1].is]>> \o TypesOf(Tail(w))
<1> DEFINE v == w[1]
           r == Tail(w)
<1>1. v \in Values /\ r \in Seq(Values) /\ w = <<v>> \o r
    BY Fronted
<1>2. v \in Simple
    OBVIOUS
<1> HIDE DEF v, r
<1>3. /\ <<v>> \in Seq(Values)
      /\ Flattened(<<v>>) = <<v>> /\ Items(<<v>>) = <<Item(v)>> /\ TypesOf(<<v>>) = <<[is |-> v.is]>>
    <2>1. /\ <<v>> \in Seq(Values)
          /\ Flattened(<<v>>) = ElemsOf(v) /\ Items(<<v>>) = ItemsOf(v)
          /\ TypesOf(<<v>>) = <<TypeOf(v)>>
        BY <1>1, PartsOfOne
    <2>2. ElemsOf(v) = <<v>> /\ ItemsOf(v) = <<Item(v)>> /\ TypeOf(v) = [is |-> v.is]
        BY <1>2, SimpleParts
    <2> QED
        BY <2>1, <2>2, Zenon
<1> DEFINE o == <<v>>
<1> HIDE DEF o
<1>4. o \in Seq(Values)
    BY <1>3 DEF o
<1>5. Items(o \o r) = Items(o) \o Items(r)
    BY <1>1, <1>4, ItemsJoined
<1>6. Flattened(o \o r) = Flattened(o) \o Flattened(r)
    BY <1>1, <1>4, FlattenedJoined
<1>7. TypesOf(o \o r) = TypesOf(o) \o TypesOf(r)
    BY <1>1, <1>4, TypesJoined
<1>8. /\ r \in Seq(Values)
      /\ Items(w) = <<Item(v)>> \o Items(r)
      /\ Flattened(w) = <<v>> \o Flattened(r)
      /\ TypesOf(w) = <<[is |-> v.is]>> \o TypesOf(r)
    BY <1>1, <1>3, <1>5, <1>6, <1>7, Zenon DEF o
<1> QED
    BY <1>8 DEF v, r

(* A tuple in front: its elements can be taken for values of their own.     *)
LEMMA FrontTuple ==
    ASSUME NEW w \in Seq(Values), w # <<>>, w[1].is = "tuple", w[1].elems \in Seq(Simple)
    PROVE  LET within == w[1].elems \o Tail(w) IN
           /\ within \in Seq(Values)
           /\ Items(w) = <<Announced(w[1].elems)>> \o Items(within)
           /\ Flattened(w) = Flattened(within)
           /\ TypesOf(w) = <<TypeOf(w[1])>> \o TypesOf(Tail(w))
           /\ TypesOf(within) = TypeOf(w[1]).elems \o TypesOf(Tail(w))
           /\ TypeOf(w[1]).is = "tuple" /\ Len(TypeOf(w[1]).elems) = Len(w[1].elems)
<1> DEFINE v == w[1]
           e == w[1].elems
           r == Tail(w)
           o == <<v>>
<1>1. v \in Values /\ r \in Seq(Values) /\ w = <<v>> \o r
    BY Fronted
<1>2. v.is = "tuple" /\ e \in Seq(Simple) /\ v.elems = e
    OBVIOUS
<1> HIDE DEF v, e, r, o
<1>3. /\ o \in Seq(Values)
      /\ Flattened(o) = e /\ Items(o) = ItemsOf(v) /\ TypesOf(o) = <<TypeOf(v)>>
    <2>1. /\ <<v>> \in Seq(Values)
          /\ Flattened(<<v>>) = ElemsOf(v) /\ Items(<<v>>) = ItemsOf(v)
          /\ TypesOf(<<v>>) = <<TypeOf(v)>>
        BY <1>1, PartsOfOne
    <2>2. ElemsOf(v) = e
        BY <1>2, Zenon DEF ElemsOf
    <2> QED
        BY <2>1, <2>2, Zenon DEF o
<1>4. /\ e \in Seq(Values) /\ Flattened(e) = e /\ Items(e) = Mapped(ItemFcn, e)
      /\ TypesOf(e) = [j \in DOMAIN e |-> [is |-> e[j].is]]
    BY <1>2, PartsOfSimple
<1>5. /\ ItemsOf(v) = <<Announced(e)>> \o Mapped(ItemFcn, e)
      /\ Mapped(ItemFcn, e) \in Seq(AnyItem) /\ Announced(e) \in AnyItem
    <2>1. v.elems \in Seq(Simple)
        BY <1>2
    <2> QED
        BY <1>2, <2>1, TupleItems, Zenon
<1>6. TypeOf(v).is = "tuple" /\ TypeOf(v).elems = TypesOf(e)
    BY <1>2, <1>4 DEF TypeOf
<1>7. Len(TypesOf(e)) = Len(e)
    BY <1>2, <1>4
<1>8. Items(o \o r) = Items(o) \o Items(r) /\ Items(e \o r) = Items(e) \o Items(r)
    <2>1. Items(o \o r) = Items(o) \o Items(r)
        BY <1>1, <1>3, ItemsJoined
    <2>2. Items(e \o r) = Items(e) \o Items(r)
        BY <1>1, <1>4, ItemsJoined
    <2> QED
        BY <2>1, <2>2
<1>9. Flattened(o \o r) = Flattened(o) \o Flattened(r)
    BY <1>1, <1>3, FlattenedJoined
<1>10. Flattened(e \o r) = Flattened(e) \o Flattened(r)
    BY <1>1, <1>4, FlattenedJoined
<1>11. TypesOf(o \o r) = TypesOf(o) \o TypesOf(r)
    BY <1>1, <1>3, TypesJoined
<1>12. TypesOf(e \o r) = TypesOf(e) \o TypesOf(r)
    BY <1>1, <1>4, TypesJoined
<1>13. e \o r \in Seq(Values)
    BY <1>1, <1>4, Joined
<1>14. w = o \o r
    BY <1>1 DEF o
<1>15. Items(w) = <<Announced(e)>> \o Items(e \o r)
    <2> DEFINE a == <<Announced(e)>>
               b == Items(e)
               c == Items(r)
    <2>1. a \in Seq(AnyItem)
        BY <1>5
    <2>2. b \in Seq(AnyItem) /\ c \in Seq(AnyItem)
        BY <1>1, <1>4, PartsTyped
    <2>3. Items(w) = (a \o b) \o c /\ Items(e \o r) = b \o c
        BY <1>3, <1>4, <1>5, <1>8, <1>14, Zenon
    <2> HIDE DEF a, b, c
    <2>4. Associates(AnyItem)
        BY Associative
    <2>5. (a \o b) \o c = a \o (b \o c)
        BY <2>1, <2>2, <2>4, Zenon DEF Associates
    <2> QED
        BY <2>3, <2>5, Zenon DEF a
<1>16. Flattened(w) = Flattened(e \o r)
    BY <1>3, <1>4, <1>9, <1>10, <1>14, Zenon
<1>17. TypesOf(w) = <<TypeOf(v)>> \o TypesOf(r) /\ TypesOf(e \o r) = TypeOf(v).elems \o TypesOf(r)
    BY <1>3, <1>6, <1>11, <1>12, <1>14, Zenon
<1>18. TypeOf(v).is = "tuple" /\ Len(TypeOf(v).elems) = Len(e)
    BY <1>6, <1>7, Zenon
<1> QED
    BY <1>13, <1>15, <1>16, <1>17, <1>18, Zenon DEF v, e, r

(* Counting what was decoded. *)
Among(s, n) == {i \in 1..n : s[i] # Default}

(* They can be counted. *)
LEMMA AmongFinite ==
    ASSUME NEW s, NEW n \in Nat
    PROVE  IsFiniteSet(Among(s, n)) /\ Cardinality(Among(s, n)) \in Nat
<1>1. IsFiniteSet(1..n)
    BY FS_Interval
<1>2. Among(s, n) \subseteq 1..n
    BY DEF Among
<1>3. IsFiniteSet(Among(s, n))
    BY <1>1, <1>2, FS_Subset
<1> QED
    BY <1>3, FS_CardinalityType

(* There are none at first. *)
LEMMA AmongNone ==
    ASSUME NEW s
    PROVE  Cardinality(Among(s, 0)) = 0
<1>1. Among(s, 0) = {}
    BY DEF Among
<1> QED
    BY <1>1, FS_EmptySet

(* One more parameter. *)
LEMMA AmongAppended ==
    ASSUME NEW S, NEW s \in Seq(S), NEW x \in S
    PROVE  /\ \A n \in 0..Len(s) : Among(Append(s, x), n) = Among(s, n)
           /\ x = Default => Cardinality(Among(Append(s, x), Len(s) + 1))
                                = Cardinality(Among(s, Len(s)))
           /\ x # Default => Cardinality(Among(Append(s, x), Len(s) + 1))
                                = Cardinality(Among(s, Len(s))) + 1
<1> DEFINE l == Len(s)
           u == Append(s, x)
<1>1. l \in Nat
    BY LengthNat
<1>2. u[l + 1] = x /\ \A i \in 1..l : u[i] = s[i]
    BY Appended
<1> HIDE DEF l, u
<1>3. ASSUME NEW n \in 0..l
      PROVE  Among(u, n) = Among(s, n)
    <2>1. \A i \in 1..n : i \in 1..l
        BY <1>1
    <2> QED
        BY <1>2, <2>1, Zenon DEF Among
<1>4. Among(u, l + 1) = Among(s, l) \cup {i \in {l + 1} : x # Default}
    <2>1. 1..(l + 1) = 1..l \cup {l + 1}
        BY <1>1
    <2> QED
        BY <1>2, <2>1, Zenon DEF Among
<1>5. ASSUME x = Default
      PROVE  Cardinality(Among(u, l + 1)) = Cardinality(Among(s, l))
    <2>1. Among(u, l + 1) = Among(s, l)
        BY <1>4, <1>5, Zenon
    <2> QED
        BY <2>1, Zenon
<1>6. ASSUME x # Default
      PROVE  Cardinality(Among(u, l + 1)) = Cardinality(Among(s, l)) + 1
    <2>1. Among(u, l + 1) = Among(s, l) \cup {l + 1}
        BY <1>4, <1>6, Zenon
    <2>2. l + 1 \notin Among(s, l)
        BY <1>1 DEF Among
    <2>3. IsFiniteSet(Among(s, l))
        BY <1>1, AmongFinite
    <2> QED
        BY <2>1, <2>2, <2>3, FS_AddElement
<1> QED
    BY <1>3, <1>5, <1>6, Zenon DEF l, u

(* The first k members of f are followed by x, and that by d.               *)
Follows(f, k, x, d) == Rest(f, k) = <<x>> \o d

(* Then x is the next member of f. *)
LEMMA RestFront ==
    ASSUME NEW S, NEW f \in Seq(S), NEW k \in 0..Len(f), NEW x \in S, NEW d \in Seq(S),
           Follows(f, k, x, d)
    PROVE  k + 1 \in 1..Len(f) /\ f[k + 1] = x /\ d = Rest(f, k + 1)
<1> DEFINE o == <<x>>
           c == k + 1
           q == Rest(f, k)
<1>1. Len(f) \in Nat
    BY LengthNat
<1>2. o \in Seq(S) /\ Len(o) = 1
    OBVIOUS
<1>3. Len(q) = Len(f) - k
    BY RestType
<1>4. Len(d) \in Nat
    BY LengthNat
<1>5. q = o \o d
    BY Zenon DEF Follows
<1> HIDE DEF o, q
<1>6. Len(o \o d) = Len(o) + Len(d)
    BY <1>2, Joined
<1>7. Len(f) - k = 1 + Len(d)
    BY <1>2, <1>3, <1>5, <1>6, Zenon
<1>8. c \in 1..Len(f) /\ c - 1 = k /\ c \in 0..Len(f)
    BY <1>1, <1>4, <1>7
<1> HIDE DEF c
<1>9. <<f[c]>> \o Rest(f, c) = Rest(f, c - 1)
    BY <1>8, RestStep
<1>10. Rest(f, c) \in Seq(S) /\ f[c] \in S
    <2>1. Rest(f, c) \in Seq(S)
        BY <1>8, RestType
    <2>2. f[c] \in S
        BY <1>8, Members
    <2> QED
        BY <2>1, <2>2
<1>11. (<<f[c]>> \o Rest(f, c))[1] = f[c] /\ Tail(<<f[c]>> \o Rest(f, c)) = Rest(f, c)
    BY <1>10, FrontOf
<1>12. (o \o d)[1] = x /\ Tail(o \o d) = d
    BY FrontOf DEF o
<1>13. f[c] = x /\ d = Rest(f, c)
    BY <1>5, <1>8, <1>9, <1>11, <1>12, Zenon DEF q
<1> QED
    BY <1>8, <1>13 DEF c

(* The next item, and the next type, of the values that are left.           *)
LEMMA NextItem ==
    ASSUME NEW w \in Seq(Values), Items(w) # <<>>
    PROVE  /\ w # <<>>
           /\ \/ /\ w[1] \in Simple /\ Tail(w) \in Seq(Values)
                 /\ Head(Items(w)) = Item(w[1]) /\ Tail(Items(w)) = Items(Tail(w))
              \/ /\ w[1].is = "tuple" /\ w[1].elems \in Seq(Simple)
                 /\ w[1].elems \o Tail(w) \in Seq(Values)
                 /\ Head(Items(w)) = Announced(w[1].elems)
                 /\ Tail(Items(w)) = Items(w[1].elems \o Tail(w))
<1>1. w # <<>>
    BY PartsOfNone, Zenon
<1>2. w[1] \in Values
    BY <1>1, Fronted
<1>3. CASE w[1] \in Simple
    <2> DEFINE d == Items(Tail(w))
               x == Item(w[1])
    <2>1. Tail(w) \in Seq(Values) /\ Items(w) = <<x>> \o d
        BY <1>1, <1>3, FrontSimple
    <2>2. d \in Seq(AnyItem)
        BY <2>1, PartsTyped
    <2>3. x \in AnyItem
        BY <1>3, SimpleFacts
    <2> HIDE DEF d, x
    <2>4. Head(<<x>> \o d) = x /\ Tail(<<x>> \o d) = d
        BY <2>2, <2>3, FrontOf
    <2> QED
        BY <1>1, <1>3, <2>1, <2>4, Zenon DEF d, x
<1>4. CASE w[1].is = "tuple" /\ w[1].elems \in Seq(Simple)
    <2> DEFINE u == w[1].elems \o Tail(w)
               d == Items(u)
               x == Announced(w[1].elems)
    <2>1. u \in Seq(Values) /\ Items(w) = <<x>> \o d
        BY <1>1, <1>4, FrontTuple
    <2> HIDE DEF u
    <2>2. d \in Seq(AnyItem)
        BY <2>1, PartsTyped
    <2>3. x \in AnyItem
        BY <1>4, TupleItems
    <2> HIDE DEF d, x
    <2>4. Head(<<x>> \o d) = x /\ Tail(<<x>> \o d) = d
        BY <2>2, <2>3, FrontOf
    <2> QED
        BY <1>1, <1>4, <2>1, <2>4, Zenon DEF d, x, u
<1> QED
    BY <1>2, <1>3, <1>4, ValueFacts

(* A list whose types are not empty has a first value and an item.          *)
LEMMA NextType ==
    ASSUME NEW w \in Seq(Values), TypesOf(w) # <<>>
    PROVE  /\ w # <<>> /\ Items(w) # <<>>
           /\ Head(TypesOf(w)) = TypeOf(w[1]) /\ Tail(TypesOf(w)) = TypesOf(Tail(w))
<1>1. w # <<>>
    BY PartsOfNone, Zenon
<1>2. w[1] \in Values /\ Tail(w) \in Seq(Values) /\ w = <<w[1]>> \o Tail(w)
    BY <1>1, Fronted
<1> DEFINE t == TypesOf(Tail(w))
           x == TypeOf(w[1])
<1>3. t \in Seq(ValueTypes)
    BY <1>2, PartsTyped
<1>4. x \in ValueTypes
    BY <1>2, Zenon DEF ValueTypes
<1>5. TypesOf(w) = <<x>> \o t /\ Items(w) # <<>>
    <2>1. CASE w[1] \in Simple
        <3>1. TypesOf(w) = <<[is |-> w[1].is]>> \o t
            BY <1>1, <2>1, FrontSimple
        <3>2. x = [is |-> w[1].is]
            BY <2>1, SimpleParts
        <3>3. Items(w) = <<Item(w[1])>> \o Items(Tail(w))
            BY <1>1, <2>1, FrontSimple
        <3>4. Item(w[1]) \in AnyItem
            BY <2>1, SimpleFacts
        <3>5. Items(Tail(w)) \in Seq(AnyItem)
            BY <1>2, PartsTyped
        <3>6. <<Item(w[1])>> \o Items(Tail(w)) # <<>>
            BY <3>4, <3>5, FrontOf
        <3> QED
            BY <3>1, <3>2, <3>3, <3>6, Zenon
    <2>2. CASE w[1].is = "tuple" /\ w[1].elems \in Seq(Simple)
        <3> DEFINE u == w[1].elems \o Tail(w)
                   a == Announced(w[1].elems)
        <3>1. /\ u \in Seq(Values) /\ Items(w) = <<a>> \o Items(u)
              /\ TypesOf(w) = <<x>> \o t
            BY <1>1, <2>2, FrontTuple
        <3>2. a \in AnyItem
            BY <2>2, TupleItems
        <3> HIDE DEF a, u
        <3>3. Items(u) \in Seq(AnyItem)
            BY <3>1, PartsTyped
        <3>4. <<a>> \o Items(u) # <<>>
            BY <3>2, <3>3, FrontOf
        <3> QED
            BY <3>1, <3>4, Zenon
    <2> QED
        BY <1>2, <2>1, <2>2, ValueFacts
<1> HIDE DEF t, x
<1>6. Head(<<x>> \o t) = x /\ Tail(<<x>> \o t) = t
    BY <1>3, <1>4, FrontOf
<1> QED
    BY <1>1, <1>5, <1>6, Zenon DEF t, x

(* The values of a call, and how many of them were decoded into s. *)
Passed(call) == Flattened(call.values)
Gone(s) == Cardinality(Among(s, Len(s)))

(* The function declares the types of the values that are passed.           *)
Matching(call) == call.types = TypesOf(call.values)

(* No boolean yet: the types t that are left are those of the values w.     *)
Aligned(w, call, t, s) ==
    /\ t = TypesOf(w) /\ Gone(s) = Len(s)
    /\ \A i \in 1..Len(s) : s[i] # Default /\ Passed(call)[i].is # "bool"

(* The first one of w is a boolean: it stays.                               *)
Stuck(w, call, s) ==
    /\ w # <<>> /\ w[1].is = "bool" /\ Gone(s) < Len(s)
    /\ \A i \in 1..Gone(s) : Passed(call)[i].is # "bool"
    /\ \A i \in 1..Len(s) : s[i] # Default <=> i <= Gone(s)

(* The values w are what has not been decoded.                              *)
Remaining(w, call, d, s) ==
    /\ d = Items(w)
    /\ Gone(s) <= Len(Passed(call)) /\ Flattened(w) = Rest(Passed(call), Gone(s))

(* What parameters can be. *)
Args == Seq(Contents \cup {Default})

(* What was decoded are the first ones of the passed values, in their order. *)
FromTheFirst(call, s) ==
    \A i \in 1..Len(s) :
        s[i] # Default => s[i] = Passed(call)[Cardinality(Among(s, i))].of

(* The inductive invariant: what is left in data are the items of a list w. *)
DecodeInv ==
    /\ pageCall.values \in Seq(Values) /\ args \in Args
    /\ callState = "idle" => args = <<>>
    /\ callState = "called" => types = <<>>
    /\ Matching(pageCall) => callState # "threw"
    /\ FromTheFirst(pageCall, args)
    /\ \E w \in Seq(Values) :
         /\ Remaining(w, pageCall, data, args)
         /\ Matching(pageCall) => Aligned(w, pageCall, types, args) \/ Stuck(w, pageCall, args)

(* The passed values are a list, when tuples are taken apart. *)
LEMMA PassedType ==
    ASSUME NEW call, call.values \in Seq(Values)
    PROVE  Passed(call) \in Seq(Simple) /\ Len(Passed(call)) \in Nat
<1>1. Passed(call) \in Seq(Simple)
    BY PartsTyped DEF Passed
<1> QED
    BY <1>1, LengthNat

(* The number of those that are decoded. *)
LEMMA GoneType ==
    ASSUME NEW s \in Args
    PROVE  Gone(s) \in Nat /\ Len(s) \in Nat
<1>1. Len(s) \in Nat
    BY LengthNat DEF Args
<1> QED
    BY <1>1, AmongFinite DEF Gone

(* Nothing has been decoded of a list of values.                            *)
LEMMA NothingGone ==
    ASSUME NEW call, call.values \in Seq(Values)
    PROVE  /\ <<>> \in Args /\ FromTheFirst(call, <<>>)
           /\ Remaining(call.values, call, Items(call.values), <<>>)
           /\ Matching(call) => Aligned(call.values, call, call.types, <<>>)
<1> DEFINE s == <<>>
           w == call.values
<1>1. Len(s) = 0 /\ s \in Args
    BY DEF Args
<1> HIDE DEF s
<1>2. Gone(s) = 0
    BY <1>1, AmongNone, Zenon DEF Gone
<1>3. Passed(call) \in Seq(Simple) /\ Len(Passed(call)) \in Nat
    BY PassedType
<1>4. Rest(Passed(call), 0) = Passed(call) /\ 0 <= Len(Passed(call))
    BY <1>3, RestWhole
<1>5. \A i \in 1..Len(s) : FALSE
    BY <1>1
<1>6. Remaining(w, call, Items(w), s)
    BY <1>2, <1>4, Zenon DEF Remaining, Passed
<1>7. FromTheFirst(call, s)
    BY <1>5, Zenon DEF FromTheFirst
<1>8. Matching(call) => Aligned(w, call, call.types, s)
    BY <1>1, <1>2, <1>5, Zenon DEF Aligned, Matching
<1> QED
    BY <1>1, <1>6, <1>7, <1>8, Zenon DEF s

LEMMA DecodeInitInv == DecodeInit => DecodeInv
<1> SUFFICES ASSUME DecodeInit
             PROVE  DecodeInv
    OBVIOUS
<1>1. /\ pageCall = NoCall /\ data = <<>> /\ types = <<>> /\ args = <<>> /\ callState = "idle"
      /\ NoCall.values = <<>> /\ NoCall.types = <<>>
    BY DEF DecodeInit, NoCall
<1>2. <<>> \in Seq(Values) /\ Items(<<>>) = <<>> /\ TypesOf(<<>>) = <<>>
    BY PartsOfNone, Zenon
<1>3. NoCall.values \in Seq(Values)
    BY <1>1, <1>2, Zenon
<1>4. /\ <<>> \in Args /\ FromTheFirst(NoCall, <<>>)
      /\ Remaining(NoCall.values, NoCall, Items(NoCall.values), <<>>)
      /\ Matching(NoCall) => Aligned(NoCall.values, NoCall, NoCall.types, <<>>)
    BY <1>3, NothingGone
<1>5. callState # "threw" /\ callState # "called"
    BY <1>1
<1> QED
    BY <1>1, <1>2, <1>3, <1>4, <1>5, Zenon DEF DecodeInv

LEMMA ReceiveInv ==
    ASSUME DecodeInv, NEW call \in PageCalls, Receive(call)
    PROVE  DecodeInv'
<1>1. /\ args' = <<>> /\ pageCall' = call /\ data' = Items(call.values) /\ types' = call.types
      /\ callState' = "decoding"
    BY DEF Receive, DecodeInv
<1>2. call.values \in Seq(Values)
    BY ParametersAssumption
<1>4. /\ <<>> \in Args /\ FromTheFirst(call, <<>>)
      /\ Remaining(call.values, call, Items(call.values), <<>>)
      /\ Matching(call) => Aligned(call.values, call, call.types, <<>>)
    BY <1>2, NothingGone
<1>5. callState' # "threw" /\ callState' # "called" /\ callState' # "idle"
    BY <1>1
<1> QED
    BY <1>1, <1>2, <1>4, <1>5, Zenon DEF DecodeInv

(* One more argument: the counts, and what is said of the first ones.       *)
LEMMA OneMore ==
    ASSUME NEW s \in Args, NEW x \in Contents \cup {Default}
    PROVE  LET u == Append(s, x) IN
           /\ u \in Args /\ Len(u) = Len(s) + 1 /\ u[Len(s) + 1] = x
           /\ \A i \in 1..Len(s) : u[i] = s[i] /\ Among(u, i) = Among(s, i)
           /\ x = Default => Gone(u) = Gone(s)
           /\ x # Default => Gone(u) = Gone(s) + 1
<1> DEFINE u == Append(s, x)
           l == Len(s)
           C == Contents \cup {Default}
<1>1. s \in Seq(C) /\ x \in C
    BY DEF Args
<1> HIDE DEF C
<1>2. /\ u \in Seq(C) /\ Len(u) = l + 1 /\ u[l + 1] = x
      /\ \A i \in 1..l : u[i] = s[i]
    BY <1>1, Appended
<1>3. /\ \A n \in 0..l : Among(u, n) = Among(s, n)
      /\ x = Default => Cardinality(Among(u, l + 1)) = Cardinality(Among(s, l))
      /\ x # Default => Cardinality(Among(u, l + 1)) = Cardinality(Among(s, l)) + 1
    BY <1>1, AmongAppended
<1>4. l \in Nat
    BY <1>1, LengthNat
<1> HIDE DEF u, l
<1>5. \A i \in 1..l : i \in 0..l
    BY <1>4
<1>6. \A i \in 1..l : u[i] = s[i] /\ Among(u, i) = Among(s, i)
    BY <1>2, <1>3, <1>5, Zenon
<1>7. /\ x = Default => Gone(u) = Gone(s)
      /\ x # Default => Gone(u) = Gone(s) + 1
    BY <1>2, <1>3, Zenon DEF Gone, l
<1>8. u \in Args
    BY <1>2 DEF Args, C
<1> QED
    BY <1>2, <1>6, <1>7, <1>8, Zenon DEF u, l

(* The next value is decoded. *)
LEMMA ValueTaken ==
    ASSUME NEW call, call.values \in Seq(Values), NEW s \in Args, FromTheFirst(call, s),
           NEW w \in Seq(Values), w # <<>>, w[1] \in Simple, Remaining(w, call, Items(w), s)
    PROVE  LET u == Append(s, w[1].of) IN
           /\ u \in Args /\ FromTheFirst(call, u)
           /\ Remaining(Tail(w), call, Items(Tail(w)), u)
           /\ \A t : Aligned(w, call, t, s) /\ w[1].is # "bool" /\ t # <<>>
                     => Aligned(Tail(w), call, Tail(t), u)
<1> DEFINE f == Passed(call)
           k == Gone(s)
           l == Len(s)
           v == w[1]
           x == w[1].of
           u == Append(s, x)
           r == Tail(w)
<1>1. f \in Seq(Simple) /\ Len(f) \in Nat /\ k \in Nat /\ l \in Nat
    BY PassedType, GoneType
<1>2. r \in Seq(Values) /\ Flattened(w) = <<v>> \o Flattened(r)
    BY FrontSimple
<1>3. x \in Contents /\ x # Default /\ x \in Contents \cup {Default}
    BY SimpleFacts, ParametersAssumption
<1>4. /\ u \in Args /\ Len(u) = l + 1 /\ u[l + 1] = x
      /\ \A i \in 1..l : u[i] = s[i] /\ Among(u, i) = Among(s, i)
      /\ x # Default => Gone(u) = k + 1
    BY <1>3, OneMore
<1>5. Flattened(r) \in Seq(Simple) /\ v \in Simple
    BY <1>2, PartsTyped
<1>6. k <= Len(f) /\ Flattened(w) = Rest(f, k)
    BY Zenon DEF Remaining
<1>7. k \in 0..Len(f) /\ Rest(f, k) = <<v>> \o Flattened(r)
    BY <1>1, <1>2, <1>6
<1>t. \A t : Aligned(w, call, t, s) => t = TypesOf(w) /\ k = l
    BY Zenon DEF Aligned
<1>a. \A t : Aligned(w, call, t, s) => \A i \in 1..l : s[i] # Default /\ f[i].is # "bool"
    BY Zenon DEF Aligned
<1>f. \A i \in 1..l : s[i] # Default => s[i] = f[Cardinality(Among(s, i))].of
    BY Zenon DEF FromTheFirst
<1>g. Gone(u) = Cardinality(Among(u, l + 1))
    BY <1>4, Zenon DEF Gone
<1>n. TypesOf(w) # <<>> => Tail(TypesOf(w)) = TypesOf(r)
    BY NextType
<1> HIDE DEF f, k, l, u, r
<1>8. k + 1 \in 1..Len(f) /\ f[k + 1] = v /\ Flattened(r) = Rest(f, k + 1)
    <2> DEFINE d == Flattened(r)
    <2> HIDE DEF v, d
    <2>1. f \in Seq(Simple) /\ k \in 0..Len(f) /\ v \in Simple /\ d \in Seq(Simple)
        BY <1>1, <1>5, <1>7, Zenon DEF d
    <2>2. Follows(f, k, v, d)
        BY <1>7, Zenon DEF d, Follows
    <2>3. k + 1 \in 1..Len(f) /\ f[k + 1] = v /\ d = Rest(f, k + 1)
        BY <2>1, <2>2, RestFront
    <2> QED
        BY <2>3, Zenon DEF d
<1>9. Gone(u) = k + 1 /\ k + 1 <= Len(f)
    BY <1>3, <1>4, <1>8
<1>10. Remaining(r, call, Items(r), u)
    BY <1>8, <1>9, Zenon DEF Remaining, f
<1>11. \A i \in 1..(l + 1) : i \in 1..l \/ i = l + 1
    BY <1>1
<1>12. ASSUME NEW i \in 1..(l + 1), u[i] # Default
       PROVE  u[i] = f[Cardinality(Among(u, i))].of
    <2>1. CASE i \in 1..l
        BY <1>4, <1>f, <1>12, <2>1, Zenon
    <2>2. CASE i = l + 1
        BY <1>4, <1>8, <1>9, <1>g, <2>2, Zenon
    <2> QED
        BY <1>11, <2>1, <2>2
<1>13. FromTheFirst(call, u)
    BY <1>4, <1>12, Zenon DEF FromTheFirst, f
<1>14. ASSUME NEW t, Aligned(w, call, t, s), v.is # "bool", t # <<>>
       PROVE  Aligned(r, call, Tail(t), u)
    <2>1. Tail(t) = TypesOf(r)
        BY <1>n, <1>t, <1>14, Zenon
    <2>2. Gone(u) = Len(u) /\ k = l
        BY <1>4, <1>9, <1>t, <1>14, Zenon
    <2>3. ASSUME NEW i \in 1..(l + 1)
          PROVE  u[i] # Default /\ f[i].is # "bool"
        <3>1. CASE i \in 1..l
            BY <1>4, <1>a, <1>14, <3>1, Zenon
        <3>2. CASE i = l + 1
            BY <1>3, <1>4, <1>8, <1>14, <2>2, <3>2, Zenon
        <3> QED
            BY <1>11, <3>1, <3>2
    <2> QED
        BY <1>4, <2>1, <2>2, <2>3, Zenon DEF Aligned, f
<1> QED
    BY <1>4, <1>10, <1>13, <1>14, Zenon DEF u, r

(* No value is decoded. *)
LEMMA NothingTaken ==
    ASSUME NEW call, call.values \in Seq(Values), NEW s \in Args, FromTheFirst(call, s),
           NEW w \in Seq(Values), w # <<>>, Remaining(w, call, Items(w), s)
    PROVE  LET u == Append(s, Default) IN
           /\ u \in Args /\ FromTheFirst(call, u) /\ Remaining(w, call, Items(w), u)
           /\ \A t : Aligned(w, call, t, s) /\ w[1].is = "bool" => Stuck(w, call, u)
           /\ Stuck(w, call, s) => Stuck(w, call, u)
<1> DEFINE f == Passed(call)
           k == Gone(s)
           l == Len(s)
           u == Append(s, Default)
<1>1. k \in Nat /\ l \in Nat
    BY GoneType
<1>2. /\ u \in Args /\ Len(u) = l + 1 /\ u[l + 1] = Default
      /\ \A i \in 1..l : u[i] = s[i] /\ Among(u, i) = Among(s, i)
      /\ Gone(u) = k
    BY OneMore
<1>f. \A i \in 1..l : s[i] # Default => s[i] = f[Cardinality(Among(s, i))].of
    BY Zenon DEF FromTheFirst
<1> HIDE DEF u
<1>3. Remaining(w, call, Items(w), u)
    BY <1>2, Zenon DEF Remaining
<1>t. \A t : Aligned(w, call, t, s) => k = l
    BY Zenon DEF Aligned
<1>a. \A t : Aligned(w, call, t, s) => \A i \in 1..l : s[i] # Default /\ f[i].is # "bool"
    BY Zenon DEF Aligned
<1>s. Stuck(w, call, s) =>
         /\ w[1].is = "bool" /\ k < l
         /\ \A i \in 1..k : f[i].is # "bool"
         /\ \A i \in 1..l : s[i] # Default <=> i <= k
    BY Zenon DEF Stuck
<1> HIDE DEF f, k, l
<1>4. \A i \in 1..(l + 1) : i \in 1..l \/ i = l + 1
    BY <1>1
<1>5. FromTheFirst(call, u)
    <2>1. \A i \in 1..(l + 1) : u[i] # Default => u[i] = f[Cardinality(Among(u, i))].of
        BY <1>2, <1>4, <1>f, Zenon
    <2> QED
        BY <1>2, <2>1, Zenon DEF FromTheFirst, f
<1>6. ASSUME w[1].is = "bool", k <= l, \A i \in 1..k : f[i].is # "bool",
             \A i \in 1..l : s[i] # Default <=> i <= k
      PROVE  Stuck(w, call, u)
    <2>1. k < l + 1 /\ ~(l + 1 <= k)
        BY <1>1, <1>6
    <2>2. \A i \in 1..(l + 1) : u[i] # Default <=> i <= k
        BY <1>2, <1>4, <1>6, <2>1, Zenon
    <2> QED
        BY <1>2, <1>6, <2>1, <2>2, Zenon DEF Stuck, f
<1>7. ASSUME NEW t, Aligned(w, call, t, s), w[1].is = "bool"
      PROVE  Stuck(w, call, u)
    <2>1. k = l
        BY <1>t, <1>7, Zenon
    <2>2. k <= l /\ \A i \in 1..l : i <= k
        BY <1>1, <2>1
    <2>3. \A i \in 1..l : s[i] # Default /\ f[i].is # "bool"
        BY <1>a, <1>7, Zenon
    <2> QED
        BY <1>6, <1>7, <2>1, <2>2, <2>3, Zenon
<1>8. ASSUME Stuck(w, call, s)
      PROVE  Stuck(w, call, u)
    <2>1. k <= l
        BY <1>1, <1>s, <1>8
    <2> QED
        BY <1>6, <1>s, <1>8, <2>1, Zenon
<1> QED
    BY <1>2, <1>3, <1>5, <1>7, <1>8, Zenon DEF u

(* The steps of the decoder. *)
LEMMA HeldBack ==
    ASSUME NEW d, NEW type, NEW v \in Simple, d = Item(v)
    PROVE  /\ d.code # "tuple" /\ d.of = v.of
           /\ v.is = "bool" => ~TypeFits(d.code, type)
           /\ v.is # "bool" /\ type = TypeOf(v) => TypeFits(d.code, type)
<1>1. Item(v).code # "tuple" /\ Item(v).of = v.of
    BY SimpleFacts
<1>2. /\ v.is = "bool" => ~TypeFits(Item(v).code, type)
      /\ v.is # "bool" => TypeFits(Item(v).code, [is |-> v.is])
    BY SimpleFits
<1>3. TypeOf(v) = [is |-> v.is]
    BY SimpleParts
<1> QED
    BY <1>1, <1>2, <1>3, Zenon

LEMMA DecodeValueInv == DecodeInv /\ DecodeValue => DecodeInv'
<1> SUFFICES ASSUME DecodeInv, DecodeValue
             PROVE  DecodeInv'
    OBVIOUS
<1>1. /\ callState = "decoding" /\ types # <<>> /\ data # <<>>
      /\ TypeFits(Head(data).code, Head(types))
      /\ args' = Append(args, Head(data).of) /\ data' = Tail(data) /\ types' = Tail(types)
      /\ pageCall' = pageCall /\ callState' = callState
    BY Zenon DEF DecodeValue, Decoding, decodeVars
<1>2. PICK w \in Seq(Values) :
        /\ Remaining(w, pageCall, data, args)
        /\ Matching(pageCall) => Aligned(w, pageCall, types, args) \/ Stuck(w, pageCall, args)
    BY Zenon DEF DecodeInv
<1>3. data = Items(w)
    BY <1>2, Zenon DEF Remaining
<1>4. Items(w) # <<>>
    BY <1>1, <1>3, Zenon
<1>5. ~(Head(data).code = "tuple")
    BY <1>1 DEF TypeFits
<1>6. /\ w # <<>> /\ w[1] \in Simple /\ Tail(w) \in Seq(Values)
      /\ Head(data) = Item(w[1]) /\ Tail(data) = Items(Tail(w))
    <2>1. \A elems : Announced(elems).code = "tuple"
        BY DEF Announced
    <2>2. /\ w # <<>>
          /\ \/ /\ w[1] \in Simple /\ Tail(w) \in Seq(Values)
                /\ Head(Items(w)) = Item(w[1]) /\ Tail(Items(w)) = Items(Tail(w))
             \/ Head(Items(w)) = Announced(w[1].elems)
        BY <1>4, NextItem
    <2> QED
        BY <1>3, <1>5, <2>1, <2>2, Zenon
<1>7. Head(data).of = w[1].of /\ w[1].is # "bool"
    BY <1>1, <1>6, HeldBack
<1>8. /\ pageCall.values \in Seq(Values) /\ args \in Args /\ FromTheFirst(pageCall, args)
      /\ Remaining(w, pageCall, Items(w), args)
    BY <1>2, <1>3, Zenon DEF DecodeInv
<1>9. /\ args' \in Args /\ FromTheFirst(pageCall, args')
      /\ Remaining(Tail(w), pageCall, data', args')
      /\ \A t : Aligned(w, pageCall, t, args) /\ t # <<>>
                => Aligned(Tail(w), pageCall, Tail(t), args')
    <2> DEFINE u == Append(args, w[1].of)
    <2>1. /\ u \in Args /\ FromTheFirst(pageCall, u)
          /\ Remaining(Tail(w), pageCall, Items(Tail(w)), u)
          /\ \A t : Aligned(w, pageCall, t, args) /\ w[1].is # "bool" /\ t # <<>>
                    => Aligned(Tail(w), pageCall, Tail(t), u)
        BY <1>6, <1>8, ValueTaken
    <2> QED
        BY <1>1, <1>6, <1>7, <2>1, Zenon
<1>10. ~Stuck(w, pageCall, args)
    BY <1>7, Zenon DEF Stuck
<1>11. Matching(pageCall) => Aligned(Tail(w), pageCall, types', args')
    BY <1>1, <1>2, <1>9, <1>10, Zenon
<1>12. callState' # "threw" /\ callState' # "called" /\ callState' # "idle"
    BY <1>1
<1> QED
    BY <1>1, <1>6, <1>8, <1>9, <1>11, <1>12, Zenon DEF DecodeInv

LEMMA DecodeTupleInv == DecodeInv /\ DecodeTuple => DecodeInv'
<1> SUFFICES ASSUME DecodeInv, DecodeTuple
             PROVE  DecodeInv'
    OBVIOUS
<1>1. /\ callState = "decoding" /\ types # <<>> /\ data # <<>>
      /\ Head(data).code = "tuple"
      /\ args' = args /\ data' = Tail(data) /\ types' = Head(types).elems \o Tail(types)
      /\ pageCall' = pageCall /\ callState' = callState
    BY Zenon DEF DecodeTuple, Decoding
<1>2. PICK w \in Seq(Values) :
        /\ Remaining(w, pageCall, data, args)
        /\ Matching(pageCall) => Aligned(w, pageCall, types, args) \/ Stuck(w, pageCall, args)
    BY Zenon DEF DecodeInv
<1>3. data = Items(w)
    BY <1>2, Zenon DEF Remaining
<1>4. Items(w) # <<>>
    BY <1>1, <1>3, Zenon
<1> DEFINE u == w[1].elems \o Tail(w)
<1>5. \A v \in Simple : Item(v).code # "tuple"
    BY SimpleFacts
<1>6. /\ w # <<>> /\ w[1].is = "tuple" /\ w[1].elems \in Seq(Simple) /\ u \in Seq(Values)
      /\ Tail(data) = Items(u)
    BY <1>1, <1>3, <1>4, <1>5, NextItem, Zenon
<1>7. /\ Flattened(w) = Flattened(u)
      /\ TypesOf(w) = <<TypeOf(w[1])>> \o TypesOf(Tail(w))
      /\ TypesOf(u) = TypeOf(w[1]).elems \o TypesOf(Tail(w))
    BY <1>6, FrontTuple
<1> HIDE DEF u
<1>8. Remaining(u, pageCall, data', args')
    BY <1>1, <1>2, <1>6, <1>7, Zenon DEF Remaining
<1>9. ~Stuck(w, pageCall, args)
    <2>1. "tuple" # "bool"
        OBVIOUS
    <2> QED
        BY <1>6, <2>1, Zenon DEF Stuck
<1>10. Matching(pageCall) => Aligned(u, pageCall, types', args')
    <2> SUFFICES ASSUME Matching(pageCall)
                 PROVE  Aligned(u, pageCall, types', args')
        OBVIOUS
    <2>1. Aligned(w, pageCall, types, args)
        BY <1>2, <1>9
    <2>2. types = TypesOf(w)
        BY <2>1, Zenon DEF Aligned
    <2>3. TypesOf(w) # <<>>
        BY <1>1, <2>2, Zenon
    <2>4. Head(types) = TypeOf(w[1]) /\ Tail(types) = TypesOf(Tail(w))
        BY <2>2, <2>3, NextType, Zenon
    <2>5. types' = TypesOf(u)
        BY <1>1, <1>7, <2>4, Zenon
    <2> QED
        BY <1>1, <2>1, <2>5, Zenon DEF Aligned
<1>11. callState' # "threw" /\ callState' # "called" /\ callState' # "idle"
    BY <1>1
<1>12. pageCall.values \in Seq(Values) /\ args \in Args /\ FromTheFirst(pageCall, args)
    BY Zenon DEF DecodeInv
<1> QED
    BY <1>1, <1>6, <1>8, <1>10, <1>11, <1>12, Zenon DEF DecodeInv

LEMMA DecodeNothingInv == DecodeInv /\ DecodeNothing => DecodeInv'
<1> SUFFICES ASSUME DecodeInv, DecodeNothing
             PROVE  DecodeInv'
    OBVIOUS
<1>1. /\ callState = "decoding" /\ types # <<>> /\ data # <<>>
      /\ Head(data).code # "tuple" /\ ~TypeFits(Head(data).code, Head(types))
      /\ args' = Append(args, Default) /\ data' = data /\ types' = Tail(types)
      /\ pageCall' = pageCall /\ callState' = callState
    BY Zenon DEF DecodeNothing, Decoding
<1>2. PICK w \in Seq(Values) :
        /\ Remaining(w, pageCall, data, args)
        /\ Matching(pageCall) => Aligned(w, pageCall, types, args) \/ Stuck(w, pageCall, args)
    BY Zenon DEF DecodeInv
<1>3. data = Items(w)
    BY <1>2, Zenon DEF Remaining
<1>4. Items(w) # <<>>
    BY <1>1, <1>3, Zenon
<1>5. \A elems : Announced(elems).code = "tuple"
    BY DEF Announced
<1>6. w # <<>> /\ w[1] \in Simple /\ Head(data) = Item(w[1])
    BY <1>1, <1>3, <1>4, <1>5, NextItem, Zenon
<1>7. /\ pageCall.values \in Seq(Values) /\ args \in Args /\ FromTheFirst(pageCall, args)
      /\ Remaining(w, pageCall, Items(w), args)
    BY <1>2, <1>3, Zenon DEF DecodeInv
<1>8. /\ args' \in Args /\ FromTheFirst(pageCall, args') /\ Remaining(w, pageCall, data', args')
      /\ \A t : Aligned(w, pageCall, t, args) /\ w[1].is = "bool" => Stuck(w, pageCall, args')
      /\ Stuck(w, pageCall, args) => Stuck(w, pageCall, args')
    <2> DEFINE u == Append(args, Default)
    <2>1. /\ u \in Args /\ FromTheFirst(pageCall, u) /\ Remaining(w, pageCall, Items(w), u)
          /\ \A t : Aligned(w, pageCall, t, args) /\ w[1].is = "bool" => Stuck(w, pageCall, u)
          /\ Stuck(w, pageCall, args) => Stuck(w, pageCall, u)
        BY <1>6, <1>7, NothingTaken
    <2> QED
        BY <1>1, <1>3, <2>1, Zenon
<1>9. Aligned(w, pageCall, types, args) => w[1].is = "bool"
    <2> SUFFICES ASSUME Aligned(w, pageCall, types, args)
                 PROVE  w[1].is = "bool"
        OBVIOUS
    <2>1. types = TypesOf(w)
        BY Zenon DEF Aligned
    <2>2. TypesOf(w) # <<>>
        BY <1>1, <2>1, Zenon
    <2>3. Head(types) = TypeOf(w[1])
        BY <2>1, <2>2, NextType, Zenon
    <2> QED
        BY <1>1, <1>6, <2>3, HeldBack
<1>10. Matching(pageCall) => Stuck(w, pageCall, args')
    BY <1>2, <1>8, <1>9, Zenon
<1>11. callState' # "threw" /\ callState' # "called" /\ callState' # "idle"
    BY <1>1
<1> QED
    BY <1>1, <1>7, <1>8, <1>10, <1>11, Zenon DEF DecodeInv

LEMMA DecodeThrowsInv == DecodeInv /\ DecodeThrows => DecodeInv'
<1> SUFFICES ASSUME DecodeInv, DecodeThrows
             PROVE  DecodeInv'
    OBVIOUS
<1>1. /\ types # <<>>
      /\ \/ data = <<>>
         \/ /\ data # <<>> /\ Head(data).code = "tuple"
            /\ ~(Head(types).is = "tuple" /\ Head(data).count = Len(Head(types).elems))
      /\ callState' = "threw" /\ args' = args /\ data' = data /\ types' = types
      /\ pageCall' = pageCall
    BY Zenon DEF DecodeThrows
<1>2. PICK w \in Seq(Values) :
        /\ Remaining(w, pageCall, data, args)
        /\ Matching(pageCall) => Aligned(w, pageCall, types, args) \/ Stuck(w, pageCall, args)
    BY Zenon DEF DecodeInv
<1>3. data = Items(w)
    BY <1>2, Zenon DEF Remaining
<1>4. ASSUME Aligned(w, pageCall, types, args)
      PROVE  FALSE
    <2>1. types = TypesOf(w)
        BY <1>4, Zenon DEF Aligned
    <2>2. TypesOf(w) # <<>>
        BY <1>1, <2>1, Zenon
    <2>3. Items(w) # <<>> /\ Head(types) = TypeOf(w[1]) /\ w # <<>>
        BY <2>1, <2>2, NextType, Zenon
    <2>4. /\ Head(data).code = "tuple"
          /\ ~(Head(types).is = "tuple" /\ Head(data).count = Len(Head(types).elems))
        BY <1>1, <1>3, <2>3, Zenon
    <2>5. /\ \A v \in Simple : Item(v).code # "tuple"
          /\ \A elems : Announced(elems).count = Len(elems)
        BY SimpleFacts DEF Announced
    <2>6. \/ w[1] \in Simple /\ Head(Items(w)) = Item(w[1])
          \/ /\ w[1].is = "tuple" /\ w[1].elems \in Seq(Simple)
             /\ Head(Items(w)) = Announced(w[1].elems)
        BY <2>3, NextItem
    <2>7. /\ w[1].is = "tuple" /\ w[1].elems \in Seq(Simple)
          /\ Head(data).count = Len(w[1].elems)
        BY <1>3, <2>4, <2>5, <2>6, Zenon
    <2>8. TypeOf(w[1]).is = "tuple" /\ Len(TypeOf(w[1]).elems) = Len(w[1].elems)
        BY <2>3, <2>7, FrontTuple
    <2> QED
        BY <2>3, <2>4, <2>7, <2>8, Zenon
<1>5. ASSUME Stuck(w, pageCall, args)
      PROVE  FALSE
    <2>1. w # <<>> /\ w[1].is = "bool"
        BY <1>5, Zenon DEF Stuck
    <2>2. w[1] \in Values
        BY <2>1, Fronted
    <2>3. w[1] \in Simple
        BY <2>1, <2>2, ValueFacts
    <2>4. Items(w) = <<Item(w[1])>> \o Items(Tail(w)) /\ Tail(w) \in Seq(Values)
        BY <2>1, <2>3, FrontSimple
    <2>5. Items(Tail(w)) \in Seq(AnyItem)
        BY <2>4, PartsTyped
    <2>6. Item(w[1]) \in AnyItem /\ Item(w[1]).code # "tuple"
        BY <2>3, SimpleFacts
    <2> DEFINE d == Items(Tail(w))
               x == Item(w[1])
    <2> HIDE DEF d, x
    <2>7. d \in Seq(AnyItem) /\ x \in AnyItem
        BY <2>5, <2>6 DEF d, x
    <2>8. <<x>> \o d # <<>> /\ Head(<<x>> \o d) = x
        BY <2>7, FrontOf
    <2> QED
        BY <1>1, <1>3, <2>4, <2>6, <2>8, Zenon DEF d, x
<1>6. ~Matching(pageCall)
    BY <1>2, <1>4, <1>5, Zenon
<1>7. callState' # "called" /\ callState' # "idle"
    BY <1>1
<1>8. pageCall.values \in Seq(Values) /\ args \in Args /\ FromTheFirst(pageCall, args)
    BY Zenon DEF DecodeInv
<1> QED
    BY <1>1, <1>2, <1>6, <1>7, <1>8, Zenon DEF DecodeInv

LEMMA DecodeNextInv == DecodeInv /\ [DecodeNext]_decodeVars => DecodeInv'
<1> SUFFICES ASSUME DecodeInv, [DecodeNext]_decodeVars
             PROVE  DecodeInv'
    OBVIOUS
<1>1. CASE CallFunction
    <2>1. /\ types = <<>> /\ callState' = "called" /\ args' = args /\ data' = data
          /\ types' = types /\ pageCall' = pageCall
        BY <1>1, Zenon DEF CallFunction
    <2>2. callState' # "threw" /\ callState' # "idle"
        BY <2>1
    <2> QED
        BY <2>1, <2>2, Zenon DEF DecodeInv
<1>2. CASE UNCHANGED decodeVars
    <2>1. /\ callState' = callState /\ args' = args /\ data' = data
          /\ types' = types /\ pageCall' = pageCall
        BY <1>2 DEF decodeVars
    <2> QED
        BY <2>1, Zenon DEF DecodeInv
<1> QED
    BY <1>1, <1>2, ReceiveInv, DecodeValueInv, DecodeTupleInv, DecodeNothingInv, DecodeThrowsInv,
       Zenon DEF DecodeNext

LEMMA DecodeAlways == DecodeSpec => []DecodeInv
BY DecodeInitInv, DecodeNextInv, PTL DEF DecodeSpec

(* A boolean that stays is the first one.                                   *)
LEMMA FirstBoolean ==
    ASSUME NEW call, call.values \in Seq(Values), NEW s \in Args, NEW w \in Seq(Values),
           NEW d, Remaining(w, call, d, s), Stuck(w, call, s)
    PROVE  Gone(s) + 1 \in 1..Len(Passed(call)) /\ Passed(call)[Gone(s) + 1].is = "bool"
<1> DEFINE f == Passed(call)
           k == Gone(s)
           v == w[1]
           r == Flattened(Tail(w))
<1>1. f \in Seq(Simple) /\ Len(f) \in Nat /\ k \in Nat
    BY PassedType, GoneType
<1>2. w # <<>> /\ v.is = "bool"
    BY Zenon DEF Stuck
<1>3. v \in Simple
    <2>1. v \in Values
        BY <1>2, Fronted
    <2> QED
        BY <1>2, <2>1, ValueFacts
<1>4. Tail(w) \in Seq(Values) /\ Flattened(w) = <<v>> \o r
    BY <1>2, <1>3, FrontSimple
<1>5. r \in Seq(Simple)
    BY <1>4, PartsTyped
<1>6. k <= Len(f) /\ Flattened(w) = Rest(f, k)
    BY Zenon DEF Remaining
<1>7. k \in 0..Len(f)
    BY <1>1, <1>6
<1>8. Follows(f, k, v, r)
    BY <1>4, <1>6, Zenon DEF Follows
<1> HIDE DEF f, k, v, r
<1>9. k + 1 \in 1..Len(f) /\ f[k + 1] = v
    BY <1>1, <1>3, <1>5, <1>7, <1>8, RestFront
<1> QED
    BY <1>2, <1>9, Zenon DEF f, k

(* Nothing is left when no type is left: every value was decoded.           *)
LEMMA AllTaken ==
    ASSUME NEW call, call.values \in Seq(Values), NEW s \in Args, NEW w \in Seq(Values),
           NEW d, Remaining(w, call, d, s), Aligned(w, call, <<>>, s)
    PROVE  d = <<>> /\ Len(s) = Len(Passed(call))
<1> DEFINE f == Passed(call)
           k == Gone(s)
<1>1. f \in Seq(Simple) /\ Len(f) \in Nat /\ k \in Nat
    BY PassedType, GoneType
<1>2. TypesOf(w) = <<>> /\ k = Len(s)
    BY Zenon DEF Aligned
<1>3. Len(TypesOf(w)) = Len(w)
    BY LengthNat DEF TypesOf
<1>4. w = <<>>
    BY <1>2, <1>3
<1>5. d = <<>> /\ Flattened(w) = <<>>
    BY <1>4, PartsOfNone, Zenon DEF Remaining
<1>6. k <= Len(f) /\ Flattened(w) = Rest(f, k)
    BY Zenon DEF Remaining
<1> HIDE DEF f, k
<1>7. k \in 0..Len(f)
    BY <1>1, <1>6
<1>8. Len(Rest(f, k)) = Len(f) - k
    BY <1>1, <1>7, RestType
<1>9. Len(<<>>) = 0
    OBVIOUS
<1>10. Len(f) - k = 0
    BY <1>5, <1>6, <1>8, <1>9, Zenon
<1>11. Len(f) = k
    BY <1>1, <1>10
<1> QED
    BY <1>2, <1>5, <1>11, Zenon DEF f

(* The places of the booleans among the passed values. *)
Booleans(call) == {i \in 1..Len(Passed(call)) : Passed(call)[i].is = "bool"}

(* Of a call that was decoded as it was declared: what DecodesBack says.    *)
LEMMA UpToBoolean ==
    ASSUME NEW call, call.values \in Seq(Values), NEW s \in Args, NEW w \in Seq(Values),
           NEW d, Remaining(w, call, d, s), Aligned(w, call, <<>>, s) \/ Stuck(w, call, s)
    PROVE  /\ \A i \in 1..Len(s) : s[i] = Default <=> \E b \in Booleans(call) : b <= i
           /\ Booleans(call) = {} => Len(s) = Len(Passed(call)) /\ d = <<>>
<1> DEFINE f == Passed(call)
           k == Gone(s)
           l == Len(s)
           B == Booleans(call)
<1>1. f \in Seq(Simple) /\ Len(f) \in Nat /\ k \in Nat /\ l \in Nat
    BY PassedType, GoneType
<1>b. B = {i \in 1..Len(f) : f[i].is = "bool"}
    BY Zenon DEF Booleans
<1> HIDE DEF B
<1>2. CASE Aligned(w, call, <<>>, s)
    <2>1. d = <<>> /\ l = Len(f)
        BY <1>2, AllTaken
    <2>2. \A i \in 1..l : s[i] # Default /\ f[i].is # "bool"
        BY <1>2, Zenon DEF Aligned
    <2>3. B = {}
        BY <1>b, <2>1, <2>2, Zenon
    <2> QED
        BY <2>1, <2>2, <2>3, Zenon DEF B
<1>3. CASE Stuck(w, call, s)
    <2>1. k + 1 \in 1..Len(f) /\ f[k + 1].is = "bool"
        BY <1>3, FirstBoolean
    <2>2. /\ \A i \in 1..k : f[i].is # "bool"
          /\ \A i \in 1..l : s[i] # Default <=> i <= k
        BY <1>3, Zenon DEF Stuck
    <2>3. k + 1 \in B
        BY <1>b, <2>1, Zenon
    <2>4. \A b \in B : b \in 1..Len(f) /\ f[b].is = "bool"
        BY <1>b, Zenon
    <2> HIDE DEF f, k, l
    <2>5. ASSUME NEW i \in 1..l, s[i] = Default
          PROVE  \E b \in B : b <= i
        <3>1. ~(i <= k)
            BY <2>2, <2>5, Zenon
        <3>2. k + 1 <= i
            BY <1>1, <3>1
        <3> QED
            BY <2>3, <3>2, Zenon
    <2>6. ASSUME NEW i \in 1..l, NEW b \in B, b <= i
          PROVE  s[i] = Default
        <3>1. b \in 1..Len(f) /\ b \notin 1..k
            BY <2>2, <2>4, <2>6, Zenon
        <3>2. ~(i <= k)
            BY <1>1, <2>6, <3>1
        <3> QED
            BY <2>2, <3>2, Zenon
    <2> QED
        BY <2>3, <2>5, <2>6, Zenon DEF l, B
<1> QED
    BY <1>2, <1>3

(* Whatever functions declare and pages pass: what a function gets is what  *)
(* the page passed, in order, and all of it as long as the types are the    *)
(* declared ones and there is no boolean (DecodesBack).                     *)
THEOREM ParametersDecoded == DecodeSpec => []DecodesBack
<1>1. DecodeInv => DecodesBack
    <2> SUFFICES ASSUME DecodeInv
                 PROVE  DecodesBack
        OBVIOUS
    <2> DEFINE f == Flattened(pageCall.values)
               B == {i \in DOMAIN f : f[i].is = "bool"}
    <2>1. /\ pageCall.values \in Seq(Values) /\ args \in Args
          /\ callState = "called" => types = <<>>
          /\ Matching(pageCall) => callState # "threw"
          /\ FromTheFirst(pageCall, args)
        BY Zenon DEF DecodeInv
    <2>2. PICK w \in Seq(Values) :
            /\ Remaining(w, pageCall, data, args)
            /\ Matching(pageCall) => Aligned(w, pageCall, types, args)
                                       \/ Stuck(w, pageCall, args)
        BY Zenon DEF DecodeInv
    <2>3. f = Passed(pageCall)
        BY Zenon DEF Passed
    <2>4. f \in Seq(Simple)
        BY <2>1, <2>3, PassedType
    <2>5. DOMAIN args = 1..Len(args)
        BY <2>1, Members DEF Args
    <2>6. DOMAIN f = 1..Len(f)
        BY <2>4, Members
    <2>7. \A n : Decoded(n) = Cardinality(Among(args, n))
        BY Zenon DEF Decoded, Among
    <2>8. Decoded(Len(args)) <= Len(f)
        BY <2>2, <2>3, <2>7, Zenon DEF Remaining, Gone
    <2>9. \A i \in DOMAIN args : args[i] # Default => args[i] = f[Decoded(i)].of
        BY <2>1, <2>3, <2>5, <2>7, Zenon DEF FromTheFirst
    <2>10. ASSUME callState \in {"called", "threw"}, Matching(pageCall)
           PROVE  /\ \A i \in DOMAIN args : (args[i] = Default) <=> \E b \in B : b <= i
                  /\ B = {} => callState = "called" /\ Len(args) = Len(f) /\ data = <<>>
        <3>1. callState = "called" /\ types = <<>>
            BY <2>1, <2>10
        <3>2. Aligned(w, pageCall, <<>>, args) \/ Stuck(w, pageCall, args)
            BY <2>2, <2>10, <3>1, Zenon
        <3>3. B = Booleans(pageCall)
            BY <2>3, <2>6, Zenon DEF Booleans
        <3> DEFINE G == Booleans(pageCall)
        <3> HIDE DEF B
        <3>4. /\ \A i \in 1..Len(args) : args[i] = Default <=> \E b \in G : b <= i
              /\ G = {} => Len(args) = Len(Passed(pageCall)) /\ data = <<>>
            BY <2>1, <2>2, <3>2, UpToBoolean
        <3> QED
            BY <2>3, <2>5, <3>1, <3>3, <3>4, Zenon
    <2> QED
        BY <2>8, <2>9, <2>10, Zenon DEF DecodesBack, Matching
<1> QED
    BY <1>1, DecodeAlways, PTL

-------------------------------------------------------------------------------
(* Encodings: Base64.                                                       *)

(* The bytes of a digest. *)
Byte8 == 0..255

(* The bits of a byte, the highest one first.                               *)
Bit(x, p) == (x \div <<128, 64, 32, 16, 8, 4, 2, 1>>[p + 1]) % 2

(* A byte is the sum of its bits. *)
LEMMA BitsOfByte ==
    ASSUME NEW x \in Byte8
    PROVE  /\ Bit(x, 0) \in 0..1 /\ Bit(x, 1) \in 0..1 /\ Bit(x, 2) \in 0..1 /\ Bit(x, 3) \in 0..1
           /\ Bit(x, 4) \in 0..1 /\ Bit(x, 5) \in 0..1 /\ Bit(x, 6) \in 0..1 /\ Bit(x, 7) \in 0..1
           /\ x = 128 * Bit(x, 0) + 64 * Bit(x, 1) + 32 * Bit(x, 2) + 16 * Bit(x, 3)
                    + 8 * Bit(x, 4) + 4 * Bit(x, 5) + 2 * Bit(x, 6) + Bit(x, 7)
<1> DEFINE w == <<128, 64, 32, 16, 8, 4, 2, 1>>
<1>1. /\ w[0 + 1] = 128 /\ w[1 + 1] = 64 /\ w[2 + 1] = 32 /\ w[3 + 1] = 16
      /\ w[4 + 1] = 8 /\ w[5 + 1] = 4 /\ w[6 + 1] = 2 /\ w[7 + 1] = 1
    OBVIOUS
<1> HIDE DEF w
<1>2. /\ Bit(x, 0) = (x \div 128) % 2 /\ Bit(x, 1) = (x \div 64) % 2
      /\ Bit(x, 2) = (x \div 32) % 2 /\ Bit(x, 3) = (x \div 16) % 2
      /\ Bit(x, 4) = (x \div 8) % 2 /\ Bit(x, 5) = (x \div 4) % 2
      /\ Bit(x, 6) = (x \div 2) % 2 /\ Bit(x, 7) = (x \div 1) % 2
    BY <1>1, Zenon DEF Bit, w
<1> DEFINE b0 == Bit(x, 0)
           b1 == Bit(x, 1)
           b2 == Bit(x, 2)
           b3 == Bit(x, 3)
           b4 == Bit(x, 4)
           b5 == Bit(x, 5)
           b6 == Bit(x, 6)
           b7 == Bit(x, 7)
<1>3. /\ b0 = (x \div 128) % 2 /\ b1 = (x \div 64) % 2 /\ b2 = (x \div 32) % 2
      /\ b3 = (x \div 16) % 2 /\ b4 = (x \div 8) % 2 /\ b5 = (x \div 4) % 2
      /\ b6 = (x \div 2) % 2 /\ b7 = (x \div 1) % 2
    BY <1>2
<1> HIDE DEF b0, b1, b2, b3, b4, b5, b6, b7
<1>4. /\ b0 \in 0..1 /\ b1 \in 0..1 /\ b2 \in 0..1 /\ b3 \in 0..1
      /\ b4 \in 0..1 /\ b5 \in 0..1 /\ b6 \in 0..1 /\ b7 \in 0..1
    BY <1>3 DEF Byte8
<1>5. x = 128 * b0 + 64 * b1 + 32 * b2 + 16 * b3 + 8 * b4 + 4 * b5 + 2 * b6 + b7
    BY <1>3 DEF Byte8
<1> QED
    BY <1>4, <1>5 DEF b0, b1, b2, b3, b4, b5, b6, b7

(* A byte cut into six bits and two, four and four, two and six.            *)
LEMMA CutByte ==
    ASSUME NEW x \in Byte8
    PROVE  /\ x \div 4 = 32 * Bit(x, 0) + 16 * Bit(x, 1) + 8 * Bit(x, 2)
                           + 4 * Bit(x, 3) + 2 * Bit(x, 4) + Bit(x, 5)
           /\ x % 4 = 2 * Bit(x, 6) + Bit(x, 7)
           /\ x \div 16 = 8 * Bit(x, 0) + 4 * Bit(x, 1) + 2 * Bit(x, 2) + Bit(x, 3)
           /\ x % 16 = 8 * Bit(x, 4) + 4 * Bit(x, 5) + 2 * Bit(x, 6) + Bit(x, 7)
           /\ x \div 64 = 2 * Bit(x, 0) + Bit(x, 1)
           /\ x % 64 = 32 * Bit(x, 2) + 16 * Bit(x, 3) + 8 * Bit(x, 4)
                           + 4 * Bit(x, 5) + 2 * Bit(x, 6) + Bit(x, 7)
<1> DEFINE b0 == Bit(x, 0)
           b1 == Bit(x, 1)
           b2 == Bit(x, 2)
           b3 == Bit(x, 3)
           b4 == Bit(x, 4)
           b5 == Bit(x, 5)
           b6 == Bit(x, 6)
           b7 == Bit(x, 7)
<1>1. /\ b0 \in 0..1 /\ b1 \in 0..1 /\ b2 \in 0..1 /\ b3 \in 0..1
      /\ b4 \in 0..1 /\ b5 \in 0..1 /\ b6 \in 0..1 /\ b7 \in 0..1
      /\ x = 128 * b0 + 64 * b1 + 32 * b2 + 16 * b3 + 8 * b4 + 4 * b5 + 2 * b6 + b7
    BY BitsOfByte
<1> HIDE DEF b0, b1, b2, b3, b4, b5, b6, b7
<1>2. /\ x \div 4 = 32 * b0 + 16 * b1 + 8 * b2 + 4 * b3 + 2 * b4 + b5
      /\ x % 4 = 2 * b6 + b7
    BY <1>1
<1>3. /\ x \div 16 = 8 * b0 + 4 * b1 + 2 * b2 + b3
      /\ x % 16 = 8 * b4 + 4 * b5 + 2 * b6 + b7
    BY <1>1
<1>4. /\ x \div 64 = 2 * b0 + b1
      /\ x % 64 = 32 * b2 + 16 * b3 + 8 * b4 + 4 * b5 + 2 * b6 + b7
    BY <1>1
<1> QED
    BY <1>2, <1>3, <1>4 DEF b0, b1, b2, b3, b4, b5, b6, b7

(* Three bytes, six bits by six.                                            *)
LEMMA BitsOfGroup ==
    ASSUME NEW a \in Byte8, NEW b \in Byte8, NEW c \in Byte8
    PROVE  /\ a \div 4 = 32 * Bit(a, 0) + 16 * Bit(a, 1) + 8 * Bit(a, 2)
                           + 4 * Bit(a, 3) + 2 * Bit(a, 4) + Bit(a, 5)
           /\ (a % 4) * 16 + b \div 16 = 32 * Bit(a, 6) + 16 * Bit(a, 7) + 8 * Bit(b, 0)
                           + 4 * Bit(b, 1) + 2 * Bit(b, 2) + Bit(b, 3)
           /\ (b % 16) * 4 + c \div 64 = 32 * Bit(b, 4) + 16 * Bit(b, 5) + 8 * Bit(b, 6)
                           + 4 * Bit(b, 7) + 2 * Bit(c, 0) + Bit(c, 1)
           /\ c % 64 = 32 * Bit(c, 2) + 16 * Bit(c, 3) + 8 * Bit(c, 4)
                           + 4 * Bit(c, 5) + 2 * Bit(c, 6) + Bit(c, 7)
<1>1. (a % 4) * 16 + b \div 16 = 32 * Bit(a, 6) + 16 * Bit(a, 7) + 8 * Bit(b, 0)
                           + 4 * Bit(b, 1) + 2 * Bit(b, 2) + Bit(b, 3)
    <2> DEFINE p == a % 4
               q == b \div 16
               a6 == Bit(a, 6)
               a7 == Bit(a, 7)
               b0 == Bit(b, 0)
               b1 == Bit(b, 1)
               b2 == Bit(b, 2)
               b3 == Bit(b, 3)
    <2>1. p = 2 * a6 + a7 /\ q = 8 * b0 + 4 * b1 + 2 * b2 + b3
        BY CutByte
    <2>2. a6 \in 0..1 /\ a7 \in 0..1 /\ b0 \in 0..1 /\ b1 \in 0..1 /\ b2 \in 0..1 /\ b3 \in 0..1
        BY BitsOfByte
    <2> HIDE DEF p, q, a6, a7, b0, b1, b2, b3
    <2>3. p * 16 + q = 32 * a6 + 16 * a7 + 8 * b0 + 4 * b1 + 2 * b2 + b3
        BY <2>1, <2>2
    <2> QED
        BY <2>3 DEF p, q, a6, a7, b0, b1, b2, b3
<1>2. (b % 16) * 4 + c \div 64 = 32 * Bit(b, 4) + 16 * Bit(b, 5) + 8 * Bit(b, 6)
                           + 4 * Bit(b, 7) + 2 * Bit(c, 0) + Bit(c, 1)
    <2> DEFINE p == b % 16
               q == c \div 64
               b4 == Bit(b, 4)
               b5 == Bit(b, 5)
               b6 == Bit(b, 6)
               b7 == Bit(b, 7)
               c0 == Bit(c, 0)
               c1 == Bit(c, 1)
    <2>1. p = 8 * b4 + 4 * b5 + 2 * b6 + b7 /\ q = 2 * c0 + c1
        BY CutByte
    <2>2. b4 \in 0..1 /\ b5 \in 0..1 /\ b6 \in 0..1 /\ b7 \in 0..1 /\ c0 \in 0..1 /\ c1 \in 0..1
        BY BitsOfByte
    <2> HIDE DEF p, q, b4, b5, b6, b7, c0, c1
    <2>3. p * 4 + q = 32 * b4 + 16 * b5 + 8 * b6 + 4 * b7 + 2 * c0 + c1
        BY <2>1, <2>2
    <2> QED
        BY <2>3 DEF p, q, b4, b5, b6, b7, c0, c1
<1> QED
    BY <1>1, <1>2, CutByte

(* The byte at place i of a text, counted from 0, and zeros after its end.  *)
ByteAt(t, i) == IF i < Len(t) THEN t[i + 1] ELSE 0

(* Bytes behind the end of the text count as 0. *)
LEMMA ByteAtType ==
    ASSUME NEW t \in Seq(Byte8), NEW i \in Nat
    PROVE  ByteAt(t, i) \in Byte8
<1>1. Len(t) \in Nat /\ \A k \in 1..Len(t) : t[k] \in Byte8
    BY Members
<1>2. i < Len(t) => i + 1 \in 1..Len(t)
    BY <1>1
<1>3. 0 \in Byte8
    BY DEF Byte8
<1> QED
    BY <1>1, <1>2, <1>3, Zenon DEF ByteAt

(* Base64Reference's n-th bit is a bit of a byte. *)
LEMMA BitOfByteAt ==
    ASSUME NEW t, NEW i \in Nat, NEW p \in 0..7
    PROVE  BitOf(t, i * 8 + p) = Bit(ByteAt(t, i), p)
<1> DEFINE n == i * 8 + p
           w == <<128, 64, 32, 16, 8, 4, 2, 1>>
<1>1. n \div 8 = i /\ n % 8 = p
    BY DivUnique
<1>2. w[p + 1] \in {1, 2, 4, 8, 16, 32, 64, 128}
    <2>1. p + 1 \in 1..8
        OBVIOUS
    <2>2. /\ w[1] = 128 /\ w[2] = 64 /\ w[3] = 32 /\ w[4] = 16
          /\ w[5] = 8 /\ w[6] = 4 /\ w[7] = 2 /\ w[8] = 1
        OBVIOUS
    <2>3. \A k \in 1..8 : k = 1 \/ k = 2 \/ k = 3 \/ k = 4 \/ k = 5 \/ k = 6 \/ k = 7 \/ k = 8
        OBVIOUS
    <2> HIDE DEF w
    <2> QED
        BY <2>1, <2>2, <2>3
<1>3. (0 \div w[p + 1]) % 2 = 0
    <2> DEFINE d == w[p + 1]
    <2>1. d \in {1, 2, 4, 8, 16, 32, 64, 128}
        BY <1>2
    <2> HIDE DEF d
    <2>2. (0 \div d) % 2 = 0
        BY <2>1
    <2> QED
        BY <2>2 DEF d
<1>4. BitOf(t, n) = IF i < Len(t) THEN (t[i + 1] \div w[p + 1]) % 2 ELSE 0
    <2> HIDE DEF n, w
    <2>1. BitOf(t, n) = IF n \div 8 < Len(t) THEN (t[n \div 8 + 1] \div w[(n % 8) + 1]) % 2 ELSE 0
        BY Zenon DEF BitOf, w
    <2> QED
        BY <1>1, <2>1, Zenon
<1> HIDE DEF n, w
<1>5. Bit(ByteAt(t, i), p) = IF i < Len(t) THEN (t[i + 1] \div w[p + 1]) % 2 ELSE 0
    <2>1. CASE i < Len(t)
        BY <2>1, Zenon DEF Bit, ByteAt, w
    <2>2. CASE ~(i < Len(t))
        BY <1>3, <2>2, Zenon DEF Bit, ByteAt, w
    <2> QED
        BY <2>1, <2>2
<1>6. BitOf(t, n) = Bit(ByteAt(t, i), p)
    BY <1>4, <1>5
<1> QED
    BY <1>6 DEF n

(* The digits of the definition are those of the groups of three bytes.     *)
LEMMA DigitsOfGroup ==
    ASSUME NEW t \in Seq(Byte8), NEW g \in Nat
    PROVE  LET group == GroupOf(ByteAt(t, 3 * g), ByteAt(t, 3 * g + 1), ByteAt(t, 3 * g + 2)) IN
           /\ DigitOf(t, 4 * g) = group[1] /\ DigitOf(t, 4 * g + 1) = group[2]
           /\ DigitOf(t, 4 * g + 2) = group[3] /\ DigitOf(t, 4 * g + 3) = group[4]
<1> DEFINE i == 3 * g
           j == 3 * g + 1
           k == 3 * g + 2
           a == ByteAt(t, i)
           b == ByteAt(t, j)
           c == ByteAt(t, k)
<1>1. i \in Nat /\ j \in Nat /\ k \in Nat
    OBVIOUS
<1>2. a \in Byte8 /\ b \in Byte8 /\ c \in Byte8
    <2> HIDE DEF i, j, k
    <2> QED
        BY <1>1, ByteAtType
<1>3. /\ 0 \in 0..7 /\ 1 \in 0..7 /\ 2 \in 0..7 /\ 3 \in 0..7
      /\ 4 \in 0..7 /\ 5 \in 0..7 /\ 6 \in 0..7 /\ 7 \in 0..7
    OBVIOUS
<1>4. /\ 6 * (4 * g) = i * 8 + 0 /\ 6 * (4 * g) + 1 = i * 8 + 1
      /\ 6 * (4 * g) + 2 = i * 8 + 2 /\ 6 * (4 * g) + 3 = i * 8 + 3
      /\ 6 * (4 * g) + 4 = i * 8 + 4 /\ 6 * (4 * g) + 5 = i * 8 + 5
    OBVIOUS
<1>5. /\ 6 * (4 * g + 1) = i * 8 + 6 /\ 6 * (4 * g + 1) + 1 = i * 8 + 7
      /\ 6 * (4 * g + 1) + 2 = j * 8 + 0 /\ 6 * (4 * g + 1) + 3 = j * 8 + 1
      /\ 6 * (4 * g + 1) + 4 = j * 8 + 2 /\ 6 * (4 * g + 1) + 5 = j * 8 + 3
    OBVIOUS
<1>6. /\ 6 * (4 * g + 2) = j * 8 + 4 /\ 6 * (4 * g + 2) + 1 = j * 8 + 5
      /\ 6 * (4 * g + 2) + 2 = j * 8 + 6 /\ 6 * (4 * g + 2) + 3 = j * 8 + 7
      /\ 6 * (4 * g + 2) + 4 = k * 8 + 0 /\ 6 * (4 * g + 2) + 5 = k * 8 + 1
    OBVIOUS
<1>7. /\ 6 * (4 * g + 3) = k * 8 + 2 /\ 6 * (4 * g + 3) + 1 = k * 8 + 3
      /\ 6 * (4 * g + 3) + 2 = k * 8 + 4 /\ 6 * (4 * g + 3) + 3 = k * 8 + 5
      /\ 6 * (4 * g + 3) + 4 = k * 8 + 6 /\ 6 * (4 * g + 3) + 5 = k * 8 + 7
    OBVIOUS
<1> HIDE DEF i, j, k
<1>8. DigitOf(t, 4 * g) = 32 * Bit(a, 0) + 16 * Bit(a, 1) + 8 * Bit(a, 2)
                 + 4 * Bit(a, 3) + 2 * Bit(a, 4) + Bit(a, 5)
    <2>1. /\ BitOf(t, i * 8 + 0) = Bit(a, 0) /\ BitOf(t, i * 8 + 1) = Bit(a, 1)
          /\ BitOf(t, i * 8 + 2) = Bit(a, 2) /\ BitOf(t, i * 8 + 3) = Bit(a, 3)
          /\ BitOf(t, i * 8 + 4) = Bit(a, 4) /\ BitOf(t, i * 8 + 5) = Bit(a, 5)
        BY <1>1, <1>3, BitOfByteAt
    <2> QED
        BY <1>4, <2>1, Zenon DEF DigitOf
<1>9. DigitOf(t, 4 * g + 1) = 32 * Bit(a, 6) + 16 * Bit(a, 7) + 8 * Bit(b, 0)
                 + 4 * Bit(b, 1) + 2 * Bit(b, 2) + Bit(b, 3)
    <2>1. /\ BitOf(t, i * 8 + 6) = Bit(a, 6) /\ BitOf(t, i * 8 + 7) = Bit(a, 7)
          /\ BitOf(t, j * 8 + 0) = Bit(b, 0) /\ BitOf(t, j * 8 + 1) = Bit(b, 1)
          /\ BitOf(t, j * 8 + 2) = Bit(b, 2) /\ BitOf(t, j * 8 + 3) = Bit(b, 3)
        BY <1>1, <1>3, BitOfByteAt
    <2> QED
        BY <1>5, <2>1, Zenon DEF DigitOf
<1>10. DigitOf(t, 4 * g + 2) = 32 * Bit(b, 4) + 16 * Bit(b, 5) + 8 * Bit(b, 6)
                 + 4 * Bit(b, 7) + 2 * Bit(c, 0) + Bit(c, 1)
    <2>1. /\ BitOf(t, j * 8 + 4) = Bit(b, 4) /\ BitOf(t, j * 8 + 5) = Bit(b, 5)
          /\ BitOf(t, j * 8 + 6) = Bit(b, 6) /\ BitOf(t, j * 8 + 7) = Bit(b, 7)
          /\ BitOf(t, k * 8 + 0) = Bit(c, 0) /\ BitOf(t, k * 8 + 1) = Bit(c, 1)
        BY <1>1, <1>3, BitOfByteAt
    <2> QED
        BY <1>6, <2>1, Zenon DEF DigitOf
<1>11. DigitOf(t, 4 * g + 3) = 32 * Bit(c, 2) + 16 * Bit(c, 3) + 8 * Bit(c, 4)
                 + 4 * Bit(c, 5) + 2 * Bit(c, 6) + Bit(c, 7)
    <2>1. /\ BitOf(t, k * 8 + 2) = Bit(c, 2) /\ BitOf(t, k * 8 + 3) = Bit(c, 3)
          /\ BitOf(t, k * 8 + 4) = Bit(c, 4) /\ BitOf(t, k * 8 + 5) = Bit(c, 5)
          /\ BitOf(t, k * 8 + 6) = Bit(c, 6) /\ BitOf(t, k * 8 + 7) = Bit(c, 7)
        BY <1>1, <1>3, BitOfByteAt
    <2> QED
        BY <1>7, <2>1, Zenon DEF DigitOf
<1> DEFINE group == GroupOf(a, b, c)
<1>12. /\ group[1] = a \div 4 /\ group[2] = (a % 4) * 16 + b \div 16
       /\ group[3] = (b % 16) * 4 + c \div 64 /\ group[4] = c % 64
    <2> HIDE DEF a, b, c
    <2> QED
        BY DEF GroupOf
<1> HIDE DEF a, b, c
<1>13. /\ DigitOf(t, 4 * g) = group[1] /\ DigitOf(t, 4 * g + 1) = group[2]
       /\ DigitOf(t, 4 * g + 2) = group[3] /\ DigitOf(t, 4 * g + 3) = group[4]
    <2> HIDE DEF group
    <2>1. /\ a \div 4 = 32 * Bit(a, 0) + 16 * Bit(a, 1) + 8 * Bit(a, 2)
                           + 4 * Bit(a, 3) + 2 * Bit(a, 4) + Bit(a, 5)
          /\ (a % 4) * 16 + b \div 16 = 32 * Bit(a, 6) + 16 * Bit(a, 7) + 8 * Bit(b, 0)
                           + 4 * Bit(b, 1) + 2 * Bit(b, 2) + Bit(b, 3)
          /\ (b % 16) * 4 + c \div 64 = 32 * Bit(b, 4) + 16 * Bit(b, 5) + 8 * Bit(b, 6)
                           + 4 * Bit(b, 7) + 2 * Bit(c, 0) + Bit(c, 1)
          /\ c % 64 = 32 * Bit(c, 2) + 16 * Bit(c, 3) + 8 * Bit(c, 4)
                           + 4 * Bit(c, 5) + 2 * Bit(c, 6) + Bit(c, 7)
        BY <1>2, BitsOfGroup
    <2> QED
        BY <1>8, <1>9, <1>10, <1>11, <1>12, <2>1, Zenon
<1> QED
    BY <1>13 DEF group, a, b, c, i, j, k

(* As many whole groups as the loop goes through, unless three divides the  *)
(* size.                                                                    *)
LEMMA GroupsCounted ==
    ASSUME NEW q \in Nat, NEW r \in 1..2, NEW n, n = 3 * q + r
    PROVE  WholeGroups(n) = q
<1> DEFINE S == {i \in 0..n - 3 : i % 3 = 0}
           f == [k \in 1..q |-> 3 * (k - 1)]
<1>1. \A k \in 1..q : 3 * (k - 1) \in S
    <2> SUFFICES ASSUME NEW k \in 1..q
                 PROVE  3 * (k - 1) \in S
        OBVIOUS
    <2>1. 3 * (k - 1) \in 0..n - 3
        OBVIOUS
    <2>2. ((k - 1) * 3 + 0) % 3 = 0
        <3>1. k - 1 \in Nat /\ 0 \in Nat /\ 3 \in Nat \ {0} /\ 0 < 3
            OBVIOUS
        <3> QED
            BY <3>1, DivUnique
    <2>3. (k - 1) * 3 + 0 = 3 * (k - 1)
        OBVIOUS
    <2> QED
        BY <2>1, <2>2, <2>3
<1>2. ASSUME NEW i \in S
      PROVE  \E k \in 1..q : 3 * (k - 1) = i
    <2> DEFINE k == (i \div 3) + 1
    <2>1. i \in 0..n - 3 /\ i % 3 = 0
        OBVIOUS
    <2>2. i = 3 * (i \div 3) /\ i \div 3 \in Nat
        BY <2>1
    <2>3. k \in 1..q /\ 3 * (k - 1) = i
        BY <2>1, <2>2
    <2> QED
        BY <2>3
<1> HIDE DEF S
<1>3. f \in [1..q -> S] /\ \A k \in 1..q : f[k] = 3 * (k - 1)
    BY <1>1
<1> HIDE DEF f
<1>4. f \in Injection(1..q, S)
    <2>1. ASSUME NEW a \in 1..q, NEW b \in 1..q, f[a] = f[b]
          PROVE  a = b
        <3>1. 3 * (a - 1) = 3 * (b - 1)
            BY <1>3, <2>1
        <3> QED
            BY <3>1
    <2> QED
        BY <1>3, <2>1, Zenon DEF Injection, IsInjective
<1>5. f \in Surjection(1..q, S)
    <2>1. ASSUME NEW i \in S
          PROVE  \E k \in 1..q : f[k] = i
        BY <1>2, <1>3, Zenon
    <2> QED
        BY <1>3, <2>1, Zenon DEF Surjection
<1>6. ExistsBijection(1..q, S)
    BY <1>4, <1>5, Zenon DEF ExistsBijection, Bijection
<1>7. IsFiniteSet(1..q) /\ Cardinality(1..q) = q
    BY FS_Interval
<1>8. Cardinality(S) = Cardinality(1..q)
    BY <1>6, <1>7, FS_Bijection
<1> QED
    BY <1>7, <1>8 DEF WholeGroups, S

(* The places of a coded text are in groups of four. *)
LEMMA Fours ==
    ASSUME NEW n \in Nat, NEW at, at[0] = 0, \A k \in 1..n : at[k] = at[k - 1] + 4
    PROVE  \A k \in 0..n : at[k] = 4 * k
<1> DEFINE T == {m \in Nat : m <= n => at[m] = 4 * m}
<1>1. 0 \in T
    BY SMT
<1>2. ASSUME NEW m \in Nat, m \in T
      PROVE  m + 1 \in T
    <2> SUFFICES ASSUME m + 1 <= n
                 PROVE  at[m + 1] = 4 * (m + 1)
        OBVIOUS
    <2>1. m <= n /\ m + 1 \in 1..n /\ m + 1 - 1 = m
        OBVIOUS
    <2>2. at[m] = 4 * m
        BY <1>2, <2>1
    <2>3. at[m + 1] = at[m] + 4
        BY <2>1
    <2> QED
        BY <2>2, <2>3
<1>3. Nat \subseteq T
    <2> HIDE DEF T
    <2> QED
        BY <1>1, <1>2, NatInd
<1> QED
    BY <1>3

(* The digits of the whole groups: those of the definition.                 *)
LEMMA WholeGroupsCoded ==
    ASSUME NEW t \in Seq(Byte8), NEW q \in Nat, 3 * q <= Len(t)
    PROVE  LET coded == FlattenSeq([g \in 1..q |->
                            GroupOf(t[3 * g - 2], t[3 * g - 1], t[3 * g])]) IN
           /\ coded \in Seq(Int) /\ Len(coded) = 4 * q
           /\ \A d \in 0..4 * q - 1 : coded[d + 1] = DigitOf(t, d)
<1> DEFINE part(g) == GroupOf(t[3 * g - 2], t[3 * g - 1], t[3 * g])
           s == [g \in 1..q |-> part(g)]
           coded == FlattenSeq(s)
<1>1. Len(t) \in Nat /\ \A k \in 1..Len(t) : t[k] \in Byte8
    BY Members
<1>2. ASSUME NEW a \in Byte8, NEW b \in Byte8, NEW c \in Byte8
      PROVE  GroupOf(a, b, c) \in Seq(Int) /\ Len(GroupOf(a, b, c)) = 4
    <2>1. /\ a \div 4 \in Int /\ (a % 4) * 16 + b \div 16 \in Int
          /\ (b % 16) * 4 + c \div 64 \in Int /\ c % 64 \in Int
        BY DEF Byte8
    <2> QED
        BY <2>1 DEF GroupOf
<1>3. ASSUME NEW g \in 1..q
      PROVE  /\ part(g) = GroupOf(ByteAt(t, 3 * (g - 1)), ByteAt(t, 3 * (g - 1) + 1),
                                  ByteAt(t, 3 * (g - 1) + 2))
             /\ part(g) \in Seq(Int) /\ Len(part(g)) = 4
    <2> DEFINE n == Len(t)
               i == 3 * (g - 1)
    <2>1. /\ i \in Nat /\ i + 1 \in Nat /\ i + 2 \in Nat
          /\ i < n /\ i + 1 < n /\ i + 2 < n
          /\ i + 1 = 3 * g - 2 /\ i + 1 + 1 = 3 * g - 1 /\ i + 2 + 1 = 3 * g
        BY <1>1
    <2>2. /\ ByteAt(t, i) = t[3 * g - 2] /\ ByteAt(t, i + 1) = t[3 * g - 1]
          /\ ByteAt(t, i + 2) = t[3 * g]
        <3> HIDE DEF i
        <3> QED
            BY <2>1, Zenon DEF ByteAt
    <2>3. ByteAt(t, i) \in Byte8 /\ ByteAt(t, i + 1) \in Byte8 /\ ByteAt(t, i + 2) \in Byte8
        <3> HIDE DEF i
        <3> QED
            BY <2>1, ByteAtType
    <2>4. part(g) = GroupOf(ByteAt(t, i), ByteAt(t, i + 1), ByteAt(t, i + 2))
        BY <2>2, Zenon
    <2>5. /\ GroupOf(ByteAt(t, i), ByteAt(t, i + 1), ByteAt(t, i + 2)) \in Seq(Int)
          /\ Len(GroupOf(ByteAt(t, i), ByteAt(t, i + 1), ByteAt(t, i + 2))) = 4
        <3> HIDE DEF i
        <3> QED
            BY <1>2, <2>3
    <2> HIDE DEF part
    <2> QED
        BY <2>4, <2>5, Zenon
<1>4. s \in Seq(Seq(Int)) /\ Len(s) = q /\ \A g \in 1..q : s[g] = part(g)
    <2> DEFINE E == Seq(Int)
    <2>1. \A g \in 1..q : part(g) \in E
        BY <1>3
    <2> HIDE DEF E, part
    <2>2. s \in Seq(E) /\ Len(s) = q /\ \A g \in 1..q : s[g] = part(g)
        BY <2>1
    <2> QED
        BY <2>2 DEF E
<1> HIDE DEF s
<1>5. /\ FlattenSeq(s) \in Seq(Int)
      /\ \E at \in [0..Len(s) -> Nat] :
            /\ at[0] = 0 /\ at[Len(s)] = Len(FlattenSeq(s))
            /\ \A k \in 1..Len(s) : Lies(s, FlattenSeq(s), at, k)
    BY <1>4, FlattenPlaces
<1>6. PICK at \in [0..q -> Nat] : /\ at[0] = 0 /\ at[q] = Len(coded)
                                  /\ \A k \in 1..q : Lies(s, coded, at, k)
    BY <1>4, <1>5, Zenon
<1> HIDE DEF coded
<1>7. ASSUME NEW k \in 1..q
      PROVE  at[k] = at[k - 1] + 4 /\ \A j \in 1..4 : coded[at[k - 1] + j] = part(k)[j]
    <2>1. s[k] = part(k) /\ Len(part(k)) = 4
        BY <1>3, <1>4, Zenon
    <2>2. /\ at[k] = at[k - 1] + Len(s[k])
          /\ \A j \in 1..Len(s[k]) : coded[at[k - 1] + j] = s[k][j]
        BY <1>6, Zenon DEF Lies
    <2> HIDE DEF part
    <2> QED
        BY <2>1, <2>2, Zenon
<1>8. \A k \in 0..q : at[k] = 4 * k
    BY <1>6, <1>7, Fours
<1>9. Len(coded) = 4 * q
    <2>1. q \in 0..q
        OBVIOUS
    <2> QED
        BY <1>6, <1>8, <2>1, Zenon
<1>10. ASSUME NEW d \in 0..4 * q - 1
       PROVE  coded[d + 1] = DigitOf(t, d)
    <2> DEFINE h == d \div 4
               k == h + 1
    <2>1. h \in Nat /\ h \in 0..q - 1 /\ d = 4 * h + (d % 4) /\ d % 4 \in 0..3
        OBVIOUS
    <2>2. k \in 1..q /\ k - 1 = h /\ k - 1 \in 0..q
        BY <2>1
    <2> HIDE DEF h, k
    <2>3. at[k - 1] = 4 * h
        BY <1>8, <2>2, Zenon
    <2> DEFINE group == GroupOf(ByteAt(t, 3 * h), ByteAt(t, 3 * h + 1), ByteAt(t, 3 * h + 2))
    <2>4. part(k) = group
        BY <1>3, <2>2, Zenon
    <2>5. /\ DigitOf(t, 4 * h) = group[1] /\ DigitOf(t, 4 * h + 1) = group[2]
          /\ DigitOf(t, 4 * h + 2) = group[3] /\ DigitOf(t, 4 * h + 3) = group[4]
        BY <2>1, DigitsOfGroup
    <2> HIDE DEF group, part
    <2>6. \A j \in 1..4 : coded[4 * h + j] = group[j]
        BY <1>7, <2>2, <2>3, <2>4, Zenon
    <2>7. 1 \in 1..4 /\ 2 \in 1..4 /\ 3 \in 1..4 /\ 4 \in 1..4
        OBVIOUS
    <2>8. /\ coded[4 * h + 1] = DigitOf(t, 4 * h) /\ coded[4 * h + 2] = DigitOf(t, 4 * h + 1)
          /\ coded[4 * h + 3] = DigitOf(t, 4 * h + 2) /\ coded[4 * h + 4] = DigitOf(t, 4 * h + 3)
        BY <2>5, <2>6, <2>7, Zenon
    <2>9. \/ d = 4 * h /\ d + 1 = 4 * h + 1
          \/ d = 4 * h + 1 /\ d + 1 = 4 * h + 2
          \/ d = 4 * h + 2 /\ d + 1 = 4 * h + 3
          \/ d = 4 * h + 3 /\ d + 1 = 4 * h + 4
        BY <2>1
    <2>a. CASE d = 4 * h
        BY <2>8, <2>a
    <2>b. CASE d = 4 * h + 1 /\ d + 1 = 4 * h + 2
        BY <2>8, <2>b, Zenon
    <2>c. CASE d = 4 * h + 2 /\ d + 1 = 4 * h + 3
        BY <2>8, <2>c, Zenon
    <2>d. CASE d = 4 * h + 3 /\ d + 1 = 4 * h + 4
        BY <2>8, <2>d, Zenon
    <2> QED
        BY <2>9, <2>a, <2>b, <2>c, <2>d
<1>11. coded \in Seq(Int)
    BY <1>5 DEF coded
<1> QED
    BY <1>9, <1>10, <1>11 DEF coded, s, part

(* What is left: one byte, or two, and "=" for the digits beyond the bits.  *)
LEMMA LastCoded ==
    ASSUME NEW t \in Seq(Byte8), NEW q \in Nat, NEW r \in 1..2, Len(t) = 3 * q + r
    PROVE  LET last == LastGroup(t, 3 * q) IN
           /\ last \in Seq(Int) /\ Len(last) = 4
           /\ \A j \in 1..4 :
                 last[j] = IF 4 * q + j <= (8 * Len(t) + 5) \div 6
                           THEN DigitOf(t, 4 * q + j - 1) ELSE -1
<1> DEFINE i == 3 * q
           n == Len(t)
           a == ByteAt(t, i)
           b == ByteAt(t, i + 1)
           c == ByteAt(t, i + 2)
           last == LastGroup(t, i)
           digits == (8 * n + 5) \div 6
<1>1. /\ i \in Nat /\ n = i + r /\ i < n /\ ~(i + 2 < n) /\ i + 1 \in Nat /\ i + 2 \in Nat
      /\ (i = n - 1) <=> (r = 1)
      /\ (i + 1 < n) <=> (r = 2)
      /\ i + 1 + 1 = i + 2
    OBVIOUS
<1>2. r = 1 \/ r = 2
    OBVIOUS
<1>3. digits = 4 * q + 1 + r
    <2>1. n = 3 * q + r
        OBVIOUS
    <2> HIDE DEF n
    <2> QED
        BY <2>1
<1>4. /\ DigitOf(t, 4 * q) = a \div 4
      /\ DigitOf(t, 4 * q + 1) = (a % 4) * 16 + b \div 16
      /\ DigitOf(t, 4 * q + 2) = (b % 16) * 4 + c \div 64
    <2> DEFINE group == GroupOf(a, b, c)
    <2>1. /\ DigitOf(t, 4 * q) = group[1] /\ DigitOf(t, 4 * q + 1) = group[2]
          /\ DigitOf(t, 4 * q + 2) = group[3]
        BY DigitsOfGroup
    <2> HIDE DEF a, b, c
    <2>2. /\ group[1] = a \div 4 /\ group[2] = (a % 4) * 16 + b \div 16
          /\ group[3] = (b % 16) * 4 + c \div 64
        BY DEF GroupOf
    <2> HIDE DEF group
    <2> QED
        BY <2>1, <2>2, Zenon
<1>5. a \in Byte8 /\ b \in Byte8
    <2> HIDE DEF i
    <2> QED
        BY <1>1, ByteAtType
<1>6. a = t[i + 1] /\ c = 0
    <2> HIDE DEF i, n
    <2> QED
        BY <1>1, Zenon DEF ByteAt, n
<1> HIDE DEF i, n, digits, a, b, c, last
<1>7. /\ a \div 4 \in Int /\ (a % 4) * 16 \in Int /\ (a % 4) * 16 + b \div 16 \in Int
      /\ (b % 16) * 4 \in Int /\ -1 \in Int
    BY <1>5 DEF Byte8
<1>8. /\ 4 * q + 1 - 1 = 4 * q /\ 4 * q + 2 - 1 = 4 * q + 1 /\ 4 * q + 3 - 1 = 4 * q + 2
      /\ 4 * q + 1 <= digits /\ 4 * q + 2 <= digits /\ ~(4 * q + 4 <= digits)
      /\ (4 * q + 3 <= digits) <=> (r = 2)
    BY <1>3
<1>9. \A j \in 1..4 : j = 1 \/ j = 2 \/ j = 3 \/ j = 4
    OBVIOUS
<1>10. ASSUME NEW z1 \in Int, NEW z2 \in Int, NEW z3 \in Int, NEW z4 \in Int,
              last = <<z1, z2, z3, z4>>
       PROVE  /\ last \in Seq(Int) /\ Len(last) = 4
              /\ last[1] = z1 /\ last[2] = z2 /\ last[3] = z3 /\ last[4] = z4
    BY <1>10
<1>11. /\ last \in Seq(Int) /\ Len(last) = 4
       /\ last[1] = DigitOf(t, 4 * q) /\ last[2] = DigitOf(t, 4 * q + 1)
       /\ last[3] = (IF r = 2 THEN DigitOf(t, 4 * q + 2) ELSE -1)
       /\ last[4] = -1
    <2>1. CASE r = 1
        <3>1. b = 0
            BY <1>1, <2>1 DEF b, ByteAt, n
        <3>2. (a % 4) * 16 + b \div 16 = (a % 4) * 16
            BY <1>7, <3>1
        <3>3. last = <<a \div 4, (a % 4) * 16, -1, -1>>
            BY <1>1, <1>6, <2>1, Zenon DEF last, LastGroup, n
        <3>4. /\ last \in Seq(Int) /\ Len(last) = 4
              /\ last[1] = a \div 4 /\ last[2] = (a % 4) * 16 /\ last[3] = -1 /\ last[4] = -1
            <4> DEFINE z1 == a \div 4
                       z2 == (a % 4) * 16
            <4>1. z1 \in Int /\ z2 \in Int /\ -1 \in Int /\ last = <<z1, z2, -1, -1>>
                BY <1>7, <3>3, Zenon
            <4> HIDE DEF z1, z2
            <4>2. /\ last \in Seq(Int) /\ Len(last) = 4
                  /\ last[1] = z1 /\ last[2] = z2 /\ last[3] = -1 /\ last[4] = -1
                BY <4>1
            <4> QED
                BY <4>2, Zenon DEF z1, z2
        <3> QED
            BY <1>4, <2>1, <3>2, <3>4
    <2>2. CASE r = 2
        <3>1. b = t[i + 2]
            BY <1>1, <2>2, Zenon DEF b, ByteAt, n
        <3>2. (b % 16) * 4 + c \div 64 = (b % 16) * 4
            BY <1>6, <1>7
        <3>3. last = <<a \div 4, (a % 4) * 16 + b \div 16, (b % 16) * 4, -1>>
            <4>1. ~(i = n - 1)
                BY <1>1, <2>2
            <4> QED
                BY <1>6, <3>1, <4>1, Zenon DEF last, LastGroup, n
        <3>4. /\ last \in Seq(Int) /\ Len(last) = 4
              /\ last[1] = a \div 4 /\ last[2] = (a % 4) * 16 + b \div 16
              /\ last[3] = (b % 16) * 4 /\ last[4] = -1
            <4> DEFINE z1 == a \div 4
                       z2 == (a % 4) * 16 + b \div 16
                       z3 == (b % 16) * 4
            <4>1. /\ z1 \in Int /\ z2 \in Int /\ z3 \in Int /\ -1 \in Int
                  /\ last = <<z1, z2, z3, -1>>
                BY <1>7, <3>3, Zenon
            <4> HIDE DEF z1, z2, z3
            <4>2. /\ last \in Seq(Int) /\ Len(last) = 4
                  /\ last[1] = z1 /\ last[2] = z2 /\ last[3] = z3 /\ last[4] = -1
                BY <4>1
            <4> QED
                BY <4>2, Zenon DEF z1, z2, z3
        <3> QED
            BY <1>4, <2>2, <3>2, <3>4
    <2> QED
        BY <1>2, <2>1, <2>2
<1>12. ASSUME NEW j \in 1..4
       PROVE  last[j] = IF 4 * q + j <= digits THEN DigitOf(t, 4 * q + j - 1) ELSE -1
    <2>1. CASE j = 1
        BY <1>8, <1>11, <2>1, Zenon
    <2>2. CASE j = 2
        BY <1>8, <1>11, <2>2, Zenon
    <2>3. CASE j = 3
        BY <1>8, <1>11, <2>3, Zenon
    <2>4. CASE j = 4
        BY <1>8, <1>11, <2>4, Zenon
    <2> QED
        BY <1>9, <2>1, <2>2, <2>3, <2>4, Zenon
<1> QED
    BY <1>11, <1>12 DEF last, i, digits, n

(* Base64Encode returns what Base64Reference does. *)
LEMMA DigestsCoded ==
    ASSUME NEW t \in Seq(Byte8), Len(t) % 3 # 0
    PROVE  Base64(t) = Base64Reference(t)
<1> DEFINE n == Len(t)
           q == n \div 3
           r == n % 3
           whole == FlattenSeq([g \in 1..q |-> GroupOf(t[3 * g - 2], t[3 * g - 1], t[3 * g])])
           last == LastGroup(t, 3 * q)
           coded == whole \o last
           digits == (8 * n + 5) \div 6
           ref == Base64Reference(t)
<1>1. n \in Nat
    BY Members
<1>2. /\ q \in Nat /\ r \in 1..2 /\ n = 3 * q + r /\ 3 * q <= n /\ 3 * q < n
    <2> HIDE DEF n
    <2> QED
        BY <1>1 DEF n
<1> HIDE DEF q, r
<1>3. WholeGroups(n) = q
    BY <1>2, GroupsCounted
<1>4. /\ whole \in Seq(Int) /\ Len(whole) = 4 * q
      /\ \A d \in 0..4 * q - 1 : whole[d + 1] = DigitOf(t, d)
    BY <1>2, WholeGroupsCoded
<1>5. /\ last \in Seq(Int) /\ Len(last) = 4
      /\ \A j \in 1..4 : last[j] = IF 4 * q + j <= digits THEN DigitOf(t, 4 * q + j - 1) ELSE -1
    BY <1>2, LastCoded
<1>a. digits = 4 * q + 1 + r
    <2> HIDE DEF n
    <2> QED
        BY <1>2
<1>b. /\ (4 * (n + 2)) \div 3 <= 4 * q + 5
      /\ 4 * ((n + 2) \div 3) = 4 * q + 4
    <2> HIDE DEF n
    <2> QED
        BY <1>2
<1>c. whole \in Seq(Int) /\ last \in Seq(Int)
    BY <1>4, <1>5
<1> HIDE DEF whole, last, digits
<1>6. /\ coded \in Seq(Int) /\ Len(coded) = Len(whole) + Len(last)
      /\ \A d \in 1..Len(whole) : coded[d] = whole[d]
      /\ \A j \in 1..Len(last) : coded[Len(whole) + j] = last[j]
    BY <1>c, Joined
<1> HIDE DEF coded
<1>7. Len(coded) = 4 * q + 4
    BY <1>2, <1>4, <1>5, <1>6
<1>8. Base64(t) = coded
    <2> DEFINE allotted == (4 * (n + 2)) \div 3
               over == IF allotted > Len(coded) THEN allotted - Len(coded) - 1 ELSE 0
               fill == [i \in 1..over |-> -2]
    <2>1. allotted \in Nat
        <3> HIDE DEF n
        <3> QED
            BY <1>1
    <2>2. over = 0
        <3>1. allotted <= 4 * q + 5 /\ q \in Nat
            BY <1>2, <1>b
        <3> HIDE DEF allotted
        <3>2. IF allotted > 4 * q + 4 THEN allotted - (4 * q + 4) - 1 = 0 ELSE TRUE
            BY <2>1, <3>1
        <3> QED
            BY <1>7, <3>2, Zenon
    <2> HIDE DEF over
    <2>3. fill = <<>>
        BY <2>2
    <2>4. coded \o <<>> = coded
        <3>1. coded \in Seq(Int)
            BY <1>6
        <3> QED
            BY <3>1
    <2> HIDE DEF fill
    <2>5. Base64(t) = (whole \o last) \o fill
        BY <1>2, <1>3, Zenon DEF Base64, n, whole, last, fill, over, coded
    <2> QED
        BY <2>3, <2>4, <2>5, Zenon DEF coded
<1>9. /\ ref = [d \in 1..4 * q + 4 |-> IF d <= digits THEN DigitOf(t, d - 1) ELSE -1]
    BY <1>b, Zenon DEF Base64Reference, n, digits
<1>10. ASSUME NEW d \in 1..4 * q + 4
       PROVE  coded[d] = IF d <= digits THEN DigitOf(t, d - 1) ELSE -1
    <2>1. CASE d <= 4 * q
        <3>1. d - 1 \in 0..4 * q - 1 /\ d - 1 + 1 = d /\ d \in 1..4 * q
            BY <1>2, <2>1
        <3>2. d <= digits
            BY <1>2, <1>a, <2>1
        <3>3. whole[d - 1 + 1] = DigitOf(t, d - 1)
            BY <1>4, <3>1, Zenon
        <3>4. coded[d] = whole[d]
            BY <1>4, <1>6, <3>1, Zenon
        <3> QED
            BY <3>1, <3>2, <3>3, <3>4, Zenon
    <2>2. CASE d > 4 * q
        <3> DEFINE j == d - 4 * q
        <3>1. j \in 1..4 /\ 4 * q + j = d
            BY <1>2, <2>2
        <3> HIDE DEF j
        <3>2. coded[4 * q + j] = last[j]
            BY <1>4, <1>5, <1>6, <3>1, Zenon
        <3> DEFINE E(x) == IF x <= digits THEN DigitOf(t, x - 1) ELSE -1
        <3>a. 4 * q + (j - 1) = (4 * q + j) - 1
            BY <1>2, <3>1
        <3>3. last[j] = E(4 * q + j)
            BY <1>5, <3>1, <3>a, Zenon
        <3> HIDE DEF E
        <3>4. coded[d] = E(d)
            BY <3>1, <3>2, <3>3, Zenon
        <3> QED
            BY <3>4 DEF E
    <2>3. d <= 4 * q \/ d > 4 * q
        BY <1>2
    <2> QED
        BY <2>1, <2>2, <2>3
<1>11. coded = [d \in 1..4 * q + 4 |-> coded[d]]
    <2>1. coded \in Seq(Int)
        BY <1>6
    <2>2. coded = [d \in 1..Len(coded) |-> coded[d]]
        BY <2>1
    <2> QED
        BY <1>7, <2>2, Zenon
<1>12. coded = ref
    BY <1>9, <1>10, <1>11, Zenon
<1> QED
    BY <1>8, <1>12, Zenon

(* Base64 follows its definition for every text of two bytes or more whose  *)
(* size three does not divide.                                              *)
THEOREM DigestsEncoded == EncodingsSpec => []Base64Right
<1>1. TextOK => Base64Right
    <2> SUFFICES ASSUME TextOK, Len(text) % 3 # 0
                 PROVE  Base64(text) = Base64Reference(text)
        BY DEF Base64Right
    <2>1. text \in Seq(Bytes)
        BY DEF TextOK
    <2>2. \A i \in DOMAIN text : text[i] \in Byte8
        <3>1. DOMAIN text = 1..Len(text) /\ \A i \in 1..Len(text) : text[i] \in Bytes
            BY <2>1, Members
        <3> QED
            BY <3>1, EncodingsAssumption DEF Byte8
    <2>3. text \in Seq(Byte8)
        BY <2>1, <2>2, MembersIn
    <2> QED
        BY <2>3, DigestsCoded
<1> QED
    BY <1>1, TextAlways, PTL

-------------------------------------------------------------------------------
(* Encodings: the padding of SHA-1.                                         *)

(* What SHA-1 is fed. *)
Marks == {"text", "0x80", "0", "length"}

(* Where the length begins: the first place behind the end mark that leaves *)
(* eight bytes in a block.                                                  *)
LengthAt == digestSize + 1 + ((119 - (digestSize % 64)) % 64)

(* What the definition of the padding has at place i. *)
Mark(i) ==
    IF i <= digestSize THEN "text" ELSE IF i = digestSize + 1 THEN "0x80"
    ELSE IF i <= LengthAt THEN "0" ELSE "length"

(* The types. *)
ShaTypeOK ==
    /\ digestSize \in Nat /\ blockByteIndex \in 0..63 /\ blocks \in Nat
    /\ fed \in Seq(Marks)
    /\ padding \in {"no", "input", "fill", "zeros", "length", "done"}

(* The bytes that next() has counted. *)
Counted == 64 * blocks + blockByteIndex

(* How far each phase of the padding has come. *)
PhaseInv ==
    LET n == Len(fed) IN
    /\ n = Counted
    /\ padding = "no" => n = 0
    /\ padding = "input" => n <= digestSize
    /\ padding \in {"fill", "zeros"} => n > digestSize /\ n <= LengthAt
    /\ padding = "fill" => blockByteIndex = 0 \/ blockByteIndex > 56
    /\ padding = "zeros" => blockByteIndex <= 56
    /\ padding = "length" => n = LengthAt
    /\ padding = "done" => n = LengthAt + 8 /\ blockByteIndex = 0

(* What was fed is what the definition of the padding asks for. *)
MarksInv == \A i \in 1..Len(fed) : fed[i] = Mark(i)

(* The inductive invariant. *)
ShaInv == ShaTypeOK /\ PhaseInv /\ (padding # "no" => MarksInv)

(* The length fits behind it in the last block. *)
LEMMA LengthAtFacts ==
    ASSUME digestSize \in Nat
    PROVE  /\ LengthAt \in Nat /\ LengthAt > digestSize /\ LengthAt <= digestSize + 64
           /\ LengthAt % 64 = 56
BY DEF LengthAt

(* What next() does to the counts. *)
LEMMA FeedFacts ==
    ASSUME ShaTypeOK, NEW byte \in Marks, Feed(byte)
    PROVE  /\ fed' \in Seq(Marks) /\ Len(fed') = Len(fed) + 1 /\ fed'[Len(fed) + 1] = byte
           /\ \A i \in 1..Len(fed) : fed'[i] = fed[i]
           /\ blockByteIndex' = (blockByteIndex + 1) % 64 /\ blockByteIndex' \in 0..63
           /\ blocks' \in Nat
           /\ Counted \in Nat /\ Counted' = Counted + 1
<1>1. fed \in Seq(Marks)
    BY DEF ShaTypeOK
<1>2. fed' = Append(fed, byte)
    BY DEF Feed
<1>3. blockByteIndex \in 0..63 /\ blocks \in Nat
    BY DEF ShaTypeOK
<1>4. /\ blockByteIndex' = (blockByteIndex + 1) % 64
      /\ blocks' = IF blockByteIndex' = 0 THEN blocks + 1 ELSE blocks
    BY DEF Feed
<1>5. /\ fed' \in Seq(Marks) /\ Len(fed') = Len(fed) + 1 /\ fed'[Len(fed) + 1] = byte
      /\ \A i \in 1..Len(fed) : fed'[i] = fed[i]
    BY <1>1, <1>2, Appended
<1>6. /\ blockByteIndex' \in 0..63 /\ blocks' \in Nat
      /\ 64 * blocks' + blockByteIndex' = (64 * blocks + blockByteIndex) + 1
      /\ 64 * blocks + blockByteIndex \in Nat
    BY <1>3, <1>4
<1>7. Counted \in Nat /\ Counted' = Counted + 1
    BY <1>6, Zenon DEF Counted
<1> QED
    BY <1>4, <1>5, <1>6, <1>7

(* A byte that its place calls for keeps what was fed right. *)
LEMMA FeedMarks ==
    ASSUME ShaTypeOK, MarksInv, NEW byte \in Marks, Feed(byte), digestSize' = digestSize,
           byte = Mark(Len(fed) + 1)
    PROVE  MarksInv'
<1> DEFINE n == Len(fed)
<1>1. n \in Nat
    BY DEF ShaTypeOK
<1>2. /\ Len(fed') = n + 1 /\ fed'[n + 1] = Mark(n + 1)
      /\ \A i \in 1..n : fed'[i] = Mark(i)
    BY FeedFacts DEF MarksInv
<1>3. \A i : Mark(i)' = Mark(i)
    BY DEF Mark, LengthAt
<1> HIDE DEF n
<1>4. \A i \in 1..(n + 1) : i \in 1..n \/ i = n + 1
    BY <1>1
<1>5. \A i \in 1..(n + 1) : fed'[i] = Mark(i)
    BY <1>2, <1>4, Zenon
<1> QED
    BY <1>2, <1>3, <1>5, Zenon DEF MarksInv

LEMMA ShaInitInv == EncodingsInit => ShaInv
<1> SUFFICES ASSUME EncodingsInit
             PROVE  ShaInv
    OBVIOUS
<1>1. /\ digestSize = 0 /\ blockByteIndex = 0 /\ blocks = 0 /\ padding = "no"
    BY DEF EncodingsInit
<1>2. fed = <<>>
    BY DEF EncodingsInit
<1>3. fed \in Seq(Marks) /\ Len(fed) = 0
    BY <1>2
<1> QED
    BY <1>1, <1>3 DEF ShaInv, ShaTypeOK, PhaseInv, Counted

LEMMA ShaStepInv == ShaInv /\ [EncodingsNext]_encodingVars => ShaInv'
<1> SUFFICES ASSUME ShaInv, [EncodingsNext]_encodingVars
             PROVE  ShaInv'
    OBVIOUS
<1> DEFINE n == Len(fed)
<1>t. ShaTypeOK /\ PhaseInv /\ (padding # "no" => MarksInv)
    BY DEF ShaInv
<1>n. /\ n \in Nat /\ digestSize \in Nat /\ blockByteIndex \in 0..63 /\ blocks \in Nat
      /\ n = Counted
    BY <1>t DEF ShaTypeOK, PhaseInv
<1>l. /\ LengthAt \in Nat /\ LengthAt > digestSize /\ LengthAt <= digestSize + 64
      /\ LengthAt % 64 = 56
    BY <1>n, LengthAtFacts
<1>1. ASSUME UNCHANGED <<digestSize, fed, blockByteIndex, blocks, padding>>
      PROVE  ShaInv'
    BY <1>1, <1>t DEF ShaInv, ShaTypeOK, PhaseInv, MarksInv, Mark, LengthAt, Counted
<1>2. ASSUME NEW m \in DigestSizes, Hash(m)
      PROVE  ShaInv'
    <2>1. digestSize' \in Nat /\ padding = "no" /\ padding' = "input"
        BY <1>2, EncodingsAssumption DEF Hash
    <2>2. fed' = fed /\ blockByteIndex' = blockByteIndex /\ blocks' = blocks
        BY <1>2 DEF Hash
    <2>3. n = 0
        BY <1>t, <2>1 DEF PhaseInv
    <2>4. ShaTypeOK'
        BY <1>t, <2>1, <2>2 DEF ShaTypeOK
    <2>5. PhaseInv'
        BY <1>n, <2>1, <2>2, <2>3 DEF PhaseInv, Counted
    <2>6. MarksInv'
        BY <2>2, <2>3 DEF MarksInv
    <2> QED
        BY <2>4, <2>5, <2>6 DEF ShaInv
<1>3. CASE FeedInput
    <2>1. padding = "input" /\ padding' = "input" /\ digestSize' = digestSize /\ n < digestSize
        BY <1>3 DEF FeedInput
    <2>2. Feed("text") /\ "text" \in Marks
        BY <1>3 DEF FeedInput, Marks
    <2>3. Mark(n + 1) = "text"
        BY <1>n, <2>1 DEF Mark
    <2>4. MarksInv'
        BY <1>t, <2>1, <2>2, <2>3, FeedMarks
    <2>l. Len(fed') = n + 1
        BY <1>t, <2>2, FeedFacts
    <2>5. /\ blockByteIndex' \in 0..63 /\ blocks' \in Nat
          /\ Counted \in Nat /\ Counted' = Counted + 1
        BY <1>t, <2>2, FeedFacts
    <2>s. fed' \in Seq(Marks)
        BY <1>t, <2>2, FeedFacts
    <2>6. ShaTypeOK'
        BY <1>n, <2>1, <2>5, <2>s DEF ShaTypeOK
    <2> HIDE DEF n
    <2>c. n + 1 = Counted' /\ n + 1 <= digestSize
        BY <1>n, <2>1, <2>5
    <2>7. PhaseInv'
        BY <2>1, <2>5, <2>c, <2>l DEF PhaseInv
    <2> QED
        BY <2>4, <2>6, <2>7 DEF ShaInv
<1>4. CASE FeedEnd
    <2>1. /\ padding = "input" /\ digestSize' = digestSize /\ n = digestSize
          /\ padding' = IF blockByteIndex' > 56 THEN "fill" ELSE "zeros"
        BY <1>4 DEF FeedEnd, NoRoomForLength
    <2>2. Feed("0x80") /\ "0x80" \in Marks
        BY <1>4 DEF FeedEnd, Marks
    <2>3. Mark(n + 1) = "0x80"
        BY <1>n, <2>1 DEF Mark
    <2>4. MarksInv'
        BY <1>t, <2>1, <2>2, <2>3, FeedMarks
    <2>l. Len(fed') = n + 1
        BY <1>t, <2>2, FeedFacts
    <2>5. /\ blockByteIndex' \in 0..63 /\ blocks' \in Nat
          /\ Counted \in Nat /\ Counted' = Counted + 1
        BY <1>t, <2>2, FeedFacts
    <2>s. fed' \in Seq(Marks)
        BY <1>t, <2>2, FeedFacts
    <2>6. ShaTypeOK'
        BY <1>n, <2>1, <2>5, <2>s DEF ShaTypeOK
    <2>a. LengthAt' = LengthAt
        BY <2>1 DEF LengthAt
    <2> HIDE DEF n
    <2>c. /\ n + 1 = Counted' /\ n + 1 > digestSize /\ n + 1 <= LengthAt
        <3>1. n + 1 = Counted'
            BY <1>n, <2>5
        <3>2. n + 1 > digestSize /\ n + 1 <= LengthAt
            <4>1. n = digestSize /\ digestSize \in Nat /\ LengthAt \in Nat /\ LengthAt > digestSize
                BY <1>n, <1>l, <2>1
            <4> QED
                BY <4>1
        <3> QED
            BY <3>1, <3>2
    <2>d. /\ padding' \in {"fill", "zeros"}
          /\ padding' = "fill" => blockByteIndex' > 56
          /\ padding' = "zeros" => blockByteIndex' <= 56
        BY <2>1, <2>5
    <2>7. PhaseInv'
        BY <2>1, <2>5, <2>a, <2>c, <2>d, <2>l DEF PhaseInv
    <2> QED
        BY <2>4, <2>6, <2>7 DEF ShaInv
<1>5. ASSUME padding \in {"fill", "zeros"}, padding' = padding, digestSize' = digestSize,
             Feed("0"), blockByteIndex # 56, padding = "fill" => blockByteIndex # 0
      PROVE  ShaInv'
    <2>1. n > digestSize /\ n <= LengthAt
        BY <1>t, <1>5 DEF PhaseInv
    <2>a. "0" \in Marks
        BY DEF Marks
    <2>b. /\ padding = "fill" => blockByteIndex > 56
          /\ padding = "zeros" => blockByteIndex < 56
        BY <1>t, <1>n, <1>5 DEF PhaseInv
    <2> HIDE DEF n
    <2>2. n < LengthAt
        BY <1>n, <1>l, <1>5, <2>1 DEF Counted
    <2>3. Mark(n + 1) = "0"
        BY <1>n, <1>l, <2>1, <2>2 DEF Mark
    <2>4. MarksInv'
        BY <1>t, <1>5, <2>a, <2>3, FeedMarks DEF n
    <2>s. fed' \in Seq(Marks)
        BY <1>t, <1>5, <2>a, FeedFacts
    <2>l. Len(fed') = n + 1
        BY <1>t, <1>5, <2>a, FeedFacts DEF n
    <2>5. /\ blockByteIndex' = (blockByteIndex + 1) % 64
          /\ blockByteIndex' \in 0..63 /\ blocks' \in Nat
          /\ Counted \in Nat /\ Counted' = Counted + 1
        BY <1>t, <1>5, <2>a, FeedFacts DEF n
    <2>6. ShaTypeOK'
        BY <1>n, <1>5, <2>5, <2>s DEF ShaTypeOK
    <2>7. LengthAt' = LengthAt
        BY <1>5 DEF LengthAt
    <2>c. /\ n + 1 = Counted' /\ n + 1 > digestSize /\ n + 1 <= LengthAt
        BY <1>n, <1>l, <2>1, <2>2, <2>5
    <2>d. /\ padding' \in {"fill", "zeros"}
          /\ padding' = "fill" => blockByteIndex' = 0 \/ blockByteIndex' > 56
          /\ padding' = "zeros" => blockByteIndex' <= 56
        BY <1>n, <1>5, <2>b, <2>5
    <2>e. digestSize' = digestSize
        BY <1>5
    <2>8. PhaseInv'
        BY <2>5, <2>7, <2>c, <2>d, <2>e, <2>l DEF PhaseInv
    <2> QED
        BY <2>4, <2>6, <2>8 DEF ShaInv
<1>6. ASSUME padding \in {"fill", "zeros"}, digestSize' = digestSize,
             UNCHANGED <<fed, blockByteIndex, blocks>>,
             \/ padding = "fill" /\ padding' = "zeros" /\ blockByteIndex = 0
             \/ padding = "zeros" /\ padding' = "length" /\ blockByteIndex >= 56
      PROVE  ShaInv'
    <2>1. n > digestSize /\ n <= LengthAt /\ (padding = "zeros" => blockByteIndex = 56)
        BY <1>t, <1>n, <1>6 DEF PhaseInv
    <2>2. LengthAt' = LengthAt /\ Len(fed') = n
        BY <1>6 DEF LengthAt
    <2>3. MarksInv'
        BY <1>t, <1>6 DEF MarksInv, Mark, LengthAt
    <2>4. ShaTypeOK'
        BY <1>t, <1>6 DEF ShaTypeOK
    <2> HIDE DEF n
    <2>5. padding = "zeros" => n = LengthAt
        BY <1>n, <1>l, <2>1 DEF Counted
    <2>6. PhaseInv'
        BY <1>n, <1>6, <2>1, <2>2, <2>5 DEF PhaseInv, Counted
    <2> QED
        BY <2>3, <2>4, <2>6 DEF ShaInv
<1>7. CASE FillBlock
    <2>1. padding = "fill" /\ digestSize' = digestSize
        BY <1>7 DEF FillBlock
    <2>2. CASE blockByteIndex # 0
        <3>1. Feed("0") /\ padding' = padding
            BY <1>7, <2>2 DEF FillBlock
        <3>2. blockByteIndex # 56
            BY <1>t, <2>1, <2>2 DEF PhaseInv
        <3> QED
            BY <1>5, <2>1, <2>2, <3>1, <3>2
    <2>3. CASE blockByteIndex = 0
        BY <1>6, <1>7, <2>1, <2>3 DEF FillBlock
    <2> QED
        BY <2>2, <2>3
<1>8. CASE FeedZeros
    <2>1. padding = "zeros" /\ digestSize' = digestSize
        BY <1>8 DEF FeedZeros
    <2>2. CASE blockByteIndex < 56
        <3>1. Feed("0") /\ padding' = padding
            BY <1>8, <2>2 DEF FeedZeros
        <3>2. blockByteIndex # 56
            BY <2>2
        <3> QED
            BY <1>5, <2>1, <3>1, <3>2
    <2>3. CASE ~(blockByteIndex < 56)
        BY <1>n, <1>6, <1>8, <2>1, <2>3 DEF FeedZeros
    <2> QED
        BY <2>2, <2>3
<1>9. CASE FeedLength
    <2> DEFINE eight == [i \in 1..8 |-> "length"]
    <2>1. /\ padding = "length" /\ padding' = "done" /\ digestSize' = digestSize
          /\ fed' = fed \o eight
          /\ blockByteIndex' = (blockByteIndex + 8) % 64
          /\ blocks' = blocks + (blockByteIndex + 8) \div 64
        BY <1>9 DEF FeedLength
    <2>2. n = LengthAt
        BY <1>t, <2>1 DEF PhaseInv
    <2>3. eight \in Seq(Marks) /\ Len(eight) = 8 /\ \A i \in 1..8 : eight[i] = "length"
        BY DEF Marks
    <2>c. eight \in Seq(Marks)
        BY <2>3
    <2>a. fed \in Seq(Marks)
        BY <1>t DEF ShaTypeOK
    <2> HIDE DEF eight
    <2>b. /\ fed \o eight \in Seq(Marks) /\ Len(fed \o eight) = Len(fed) + Len(eight)
          /\ \A i \in 1..Len(fed) : (fed \o eight)[i] = fed[i]
          /\ \A i \in 1..Len(eight) : (fed \o eight)[Len(fed) + i] = eight[i]
        BY <2>c, <2>a, Joined
    <2>4. /\ fed' \in Seq(Marks) /\ Len(fed') = n + 8
          /\ \A i \in 1..n : fed'[i] = fed[i]
          /\ \A i \in 1..8 : fed'[n + i] = "length"
        BY <2>1, <2>3, <2>b, Zenon
    <2>5. LengthAt' = LengthAt /\ \A i : Mark(i)' = Mark(i)
        BY <2>1 DEF LengthAt, Mark
    <2>6. \A i \in 1..n : fed[i] = Mark(i)
        BY <1>t, <2>1 DEF MarksInv
    <2> HIDE DEF n
    <2>7. ASSUME NEW i \in 1..(n + 8)
          PROVE  fed'[i] = Mark(i)
        <3>1. CASE i \in 1..n
            BY <2>4, <2>6, <3>1
        <3>2. CASE i > n
            <4>1. i - n \in 1..8 /\ n + (i - n) = i
                BY <1>n, <3>2
            <4>2. fed'[i] = "length"
                BY <2>4, <4>1
            <4>3. Mark(i) = "length"
                BY <1>n, <1>l, <2>2, <3>2 DEF Mark
            <4> QED
                BY <4>2, <4>3
        <3> QED
            BY <1>n, <3>1, <3>2
    <2>8. MarksInv'
        BY <2>4, <2>5, <2>7, Zenon DEF MarksInv
    <2>9. blockByteIndex = 56
        BY <1>n, <1>l, <2>2 DEF Counted
    <2>10. blockByteIndex' = 0 /\ blocks' = blocks + 1
        BY <1>n, <2>1, <2>9
    <2>11. ShaTypeOK'
        BY <1>n, <2>1, <2>4, <2>10 DEF ShaTypeOK
    <2>12. PhaseInv'
        <3>1. Len(fed') = LengthAt' + 8
            BY <2>2, <2>4, <2>5, Zenon
        <3>2. n + 8 = Counted'
            BY <1>n, <2>9, <2>10 DEF Counted
        <3>3. Len(fed') = n + 8
            BY <2>4
        <3> QED
            BY <2>1, <2>10, <3>1, <3>2, <3>3 DEF PhaseInv
    <2> QED
        BY <2>8, <2>11, <2>12 DEF ShaInv
<1> QED
    BY <1>1, <1>2, <1>3, <1>4, <1>7, <1>8, <1>9 DEF EncodingsNext, encodingVars, Write

(* SHA-1 is given whole blocks: the text, its end mark, as few zeros as     *)
(* possible and the length, whatever the size of the text.                  *)
THEOREM ShaPadded == EncodingsSpec => []PaddingRight
<1>1. ShaInv => PaddingRight
    <2> SUFFICES ASSUME ShaInv, padding = "done"
                 PROVE  LET zeros == (119 - (digestSize % 64)) % 64 IN
                        /\ fed = [i \in 1..digestSize |-> "text"] \o <<"0x80">>
                                   \o [i \in 1..zeros |-> "0"] \o [i \in 1..8 |-> "length"]
                        /\ blockByteIndex = 0 /\ Len(fed) = 64 * blocks
        BY DEF PaddingRight
    <2> DEFINE n == digestSize
               z == (119 - (n % 64)) % 64
               a == [i \in 1..n |-> "text"]
               b == <<"0x80">>
               c == [i \in 1..z |-> "0"]
               d == [i \in 1..8 |-> "length"]
    <2>1. n \in Nat /\ z \in Nat /\ LengthAt = n + 1 + z
        BY DEF ShaInv, ShaTypeOK, LengthAt
    <2>2. fed \in Seq(Marks) /\ Len(fed) = n + 1 + z + 8 /\ MarksInv
        BY <2>1 DEF ShaInv, ShaTypeOK, PhaseInv
    <2>3. blockByteIndex = 0 /\ Len(fed) = 64 * blocks
        <3>1. blocks \in Nat
            BY DEF ShaInv, ShaTypeOK
        <3>2. blockByteIndex = 0 /\ Len(fed) = Counted
            BY DEF ShaInv, PhaseInv
        <3>3. Counted = 64 * blocks
            BY <3>1, <3>2 DEF Counted
        <3> QED
            BY <3>2, <3>3
    <2>a. a \in Seq(Marks) /\ Len(a) = n /\ \A i \in 1..n : a[i] = "text"
        BY <2>1 DEF Marks
    <2>b. b \in Seq(Marks) /\ Len(b) = 1 /\ b[1] = "0x80"
        BY DEF Marks
    <2>c. c \in Seq(Marks) /\ Len(c) = z /\ \A i \in 1..z : c[i] = "0"
        BY <2>1 DEF Marks
    <2>d. d \in Seq(Marks) /\ Len(d) = 8 /\ \A i \in 1..8 : d[i] = "length"
        BY DEF Marks
    <2> HIDE DEF n, z, a, b, c, d
    <2>m. a \in Seq(Marks) /\ b \in Seq(Marks) /\ c \in Seq(Marks) /\ d \in Seq(Marks)
        BY <2>a, <2>b, <2>c, <2>d
    <2> DEFINE ab == a \o b
    <2>4. /\ ab \in Seq(Marks) /\ Len(ab) = Len(a) + Len(b)
          /\ \A i \in 1..Len(a) : ab[i] = a[i]
          /\ \A i \in 1..Len(b) : ab[Len(a) + i] = b[i]
        BY <2>m, Joined
    <2> HIDE DEF ab
    <2>5. /\ Len(ab) = n + 1
          /\ \A i \in 1..n : ab[i] = "text"
          /\ ab[n + 1] = "0x80"
        BY <2>a, <2>b, <2>4
    <2> DEFINE abc == ab \o c
    <2>6. /\ abc \in Seq(Marks) /\ Len(abc) = Len(ab) + Len(c)
          /\ \A i \in 1..Len(ab) : abc[i] = ab[i]
          /\ \A i \in 1..Len(c) : abc[Len(ab) + i] = c[i]
        <3>1. ab \in Seq(Marks)
            BY <2>4
        <3> QED
            BY <2>m, <3>1, Joined
    <2> HIDE DEF abc
    <2>e. \A i \in 1..n : i \in 1..(n + 1)
        BY <2>1
    <2>f. n + 1 \in 1..(n + 1) /\ \A i \in 1..(n + 1) : i \in 1..(n + 1 + z)
        BY <2>1
    <2>g. /\ Len(abc) = n + 1 + z
          /\ \A i \in 1..n : abc[i] = "text"
          /\ abc[n + 1] = "0x80"
          /\ \A i \in 1..z : abc[n + 1 + i] = "0"
        BY <2>5, <2>6, <2>c, <2>e, <2>f, Zenon
    <2> DEFINE abcd == abc \o d
    <2>h. /\ abcd \in Seq(Marks) /\ Len(abcd) = Len(abc) + Len(d)
          /\ \A i \in 1..Len(abc) : abcd[i] = abc[i]
          /\ \A i \in 1..Len(d) : abcd[Len(abc) + i] = d[i]
        <3>1. abc \in Seq(Marks)
            BY <2>6
        <3> QED
            BY <2>m, <3>1, Joined
    <2> HIDE DEF abcd
    <2>i. \A i \in 1..z : n + 1 + i \in 1..(n + 1 + z)
        BY <2>1
    <2>j. /\ Len(abcd) = n + 1 + z + 8
          /\ \A i \in 1..n : abcd[i] = "text"
          /\ abcd[n + 1] = "0x80"
        BY <2>d, <2>e, <2>f, <2>g, <2>h, Zenon
    <2>k. \A i \in 1..z : abcd[n + 1 + i] = "0"
        BY <2>g, <2>h, <2>i, Zenon
    <2>l. \A i \in 1..8 : abcd[n + 1 + z + i] = "length"
        <3>1. /\ \A i \in 1..8 : d[i] = "length"
              /\ \A i \in 1..8 : abcd[n + 1 + z + i] = d[i]
            BY <2>d, <2>g, <2>h, Zenon
        <3> QED
            BY <3>1, Zenon
    <2>7. ASSUME NEW i \in 1..(n + 1 + z + 8)
          PROVE  abcd[i] = Mark(i)
        <3>1. CASE i <= n
            <4>1. i \in 1..n
                BY <2>1, <3>1
            <4> QED
                BY <2>j, <3>1, <4>1, Zenon DEF Mark, n
        <3>2. CASE i = n + 1
            <4>1. ~(n + 1 <= n)
                BY <2>1
            <4> QED
                BY <2>j, <3>2, <4>1, Zenon DEF Mark, n
        <3>3. CASE i > n + 1 /\ i <= n + 1 + z
            <4>1. i - (n + 1) \in 1..z /\ n + 1 + (i - (n + 1)) = i
                BY <2>1, <3>3
            <4>2. abcd[i] = "0"
                BY <2>k, <4>1
            <4>3. Mark(i) = "0"
                BY <2>1, <3>3 DEF Mark, n
            <4> QED
                BY <4>2, <4>3
        <3>4. CASE i > n + 1 + z
            <4>1. i - (n + 1 + z) \in 1..8 /\ n + 1 + z + (i - (n + 1 + z)) = i
                BY <2>1, <3>4
            <4>2. abcd[i] = "length"
                BY <2>l, <4>1
            <4>3. Mark(i) = "length"
                BY <2>1, <3>4 DEF Mark, n
            <4> QED
                BY <4>2, <4>3
        <3>5. \/ i <= n \/ i = n + 1
              \/ i > n + 1 /\ i <= n + 1 + z
              \/ i > n + 1 + z
            BY <2>1
        <3> QED
            BY <3>1, <3>2, <3>3, <3>4, <3>5, Zenon
    <2>8. \A i \in 1..Len(fed) : fed[i] = abcd[i]
        BY <2>2, <2>7, Zenon DEF MarksInv
    <2>9. abcd \in Seq(Marks) /\ Len(fed) = Len(abcd)
        BY <2>2, <2>h, <2>j, Zenon
    <2>10. fed = abcd
        BY <2>2, <2>8, <2>9, SameSequence
    <2> QED
        BY <2>3, <2>10, Zenon DEF n, z, a, b, c, d, ab, abc, abcd
<1>2. EncodingsSpec => []ShaInv
    BY ShaInitInv, ShaStepInv, PTL DEF EncodingsSpec
<1> QED
    BY <1>1, <1>2, PTL
=================================================================================
