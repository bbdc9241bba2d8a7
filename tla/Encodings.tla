------------------------------- MODULE Encodings -------------------------------
(***************************************************************************)
(* The encodings of include/http/Encodings.hpp that have boundaries: uri    *)
(* escapes, base64, and the padding of SHA-1; each beside what it should    *)
(* be.  A text is a sequence of byte values.  The machine only writes texts *)
(* to encode, and feeds sha1 byte by byte.                                  *)
(***************************************************************************)
EXTENDS Integers, Sequences, SequencesExt

CONSTANTS
    Bytes,          \* the bytes that texts are made of
    MaxText,        \* bound: length of the texts that are encoded
    DigestSizes     \* lengths of the texts that are hashed

ASSUME EncodingsAssumption ==
    /\ Bytes \subseteq 0..255 /\ MaxText \in Nat /\ DigestSizes \subseteq Nat

-------------------------------------------------------------------------------
(* uri::encode and uri::decode, of bytes below 128: a char beyond that is   *)
(* negative, and so is the index of its digit.                              *)

Between(c, from, to) == from <= c /\ c <= to

IsAlnum(c) == Between(c, 48, 57) \/ Between(c, 65, 90) \/ Between(c, 97, 122)

HexDigit(v) == IF v < 10 THEN 48 + v ELSE 65 + v - 10

IsXDigit(c) == Between(c, 48, 57) \/ Between(c, 65, 70) \/ Between(c, 97, 102)

HexToValue(c) ==
    IF Between(c, 48, 57) THEN c - 48 ELSE IF Between(c, 65, 70) THEN c - 65 + 10
                                                             ELSE c - 97 + 10

(* 45, 95, 46, 126: - _ . ~   37: %   43: +   32: blank *)
Escaped(c) ==
    IF IsAlnum(c) \/ c \in {45, 95, 46, 126} THEN <<c>>
    ELSE <<37, HexDigit(c \div 16), HexDigit(c % 16)>>

UriEncode(text) == FlattenSeq([i \in DOMAIN text |-> Escaped(text[i])])

(* Mutant of EscapeAt: an escape at the end is not seen. *)
EscapeAtNotLast(uri, i) ==
    uri[i] = 37 /\ i + 3 <= Len(uri) /\ IsXDigit(uri[i + 1]) /\ IsXDigit(uri[i + 2])

(* A % that two digits follow, at place i of uri, counted from 1. *)
EscapeAt(uri, i) ==
    uri[i] = 37 /\ i + 2 <= Len(uri) /\ IsXDigit(uri[i + 1]) /\ IsXDigit(uri[i + 2])

(* The loop of decode, from place i on. *)
UriDecode(uri) ==
    LET from[i \in 1..Len(uri) + 3] ==
            IF i > Len(uri) THEN <<>>
            ELSE IF EscapeAt(uri, i)
            THEN <<HexToValue(uri[i + 1]) * 16 + HexToValue(uri[i + 2])>> \o from[i + 3]
            ELSE <<IF uri[i] = 43 THEN 32 ELSE uri[i]>> \o from[i + 1] IN
    from[1]

-------------------------------------------------------------------------------
(* base64::encode.  Digits are the numbers they stand for; "=" is -1, and   *)
(* what output was filled with, '\0', is -2.                                *)

(* The loop goes on while i < size - 2.  Both are unsigned: a text of less  *)
(* than two bytes would never end it.                                       *)
WholeGroups(size) == Cardinality({i \in 0..size - 3 : i % 3 = 0})

GroupOf(a, b, c) ==
    <<a \div 4, (a % 4) * 16 + b \div 16, (b % 16) * 4 + c \div 64, c % 64>>

(* Mutant of LastGroup: the bits of a last byte are not shifted. *)
LastGroupUnshifted(text, i) ==
    IF i = Len(text) - 1 THEN <<text[i + 1] \div 4, text[i + 1] % 4, -1, -1>>
    ELSE <<text[i + 1] \div 4, (text[i + 1] % 4) * 16 + text[i + 2] \div 16,
           (text[i + 2] % 16) * 4, -1>>

(* What is left from place i, counted from 0: one byte or two. *)
LastGroup(text, i) ==
    IF i = Len(text) - 1 THEN <<text[i + 1] \div 4, (text[i + 1] % 4) * 16, -1, -1>>
    ELSE <<text[i + 1] \div 4, (text[i + 1] % 4) * 16 + text[i + 2] \div 16,
           (text[i + 2] % 16) * 4, -1>>

(* output has 4 * (size + 2) / 3 characters, rounded once, of which erase   *)
(* takes one away if any is left over.                                      *)
Base64(text) ==
    LET groups == WholeGroups(Len(text))
        coded == FlattenSeq([g \in 1..groups |->
                     GroupOf(text[3 * g - 2], text[3 * g - 1], text[3 * g])])
                 \o IF 3 * groups < Len(text) THEN LastGroup(text, 3 * groups) ELSE <<>>
        allotted == (4 * (Len(text) + 2)) \div 3
        over == IF allotted > Len(coded) THEN allotted - Len(coded) - 1 ELSE 0 IN
    coded \o [i \in 1..over |-> -2]

(* The definition (RFC 4648): the bits of the text, six by six. *)
BitOf(text, n) ==
    IF n \div 8 < Len(text)
    THEN (text[n \div 8 + 1] \div <<128, 64, 32, 16, 8, 4, 2, 1>>[(n % 8) + 1]) % 2 ELSE 0

DigitOf(text, d) ==
    32 * BitOf(text, 6 * d) + 16 * BitOf(text, 6 * d + 1) + 8 * BitOf(text, 6 * d + 2)
        + 4 * BitOf(text, 6 * d + 3) + 2 * BitOf(text, 6 * d + 4) + BitOf(text, 6 * d + 5)

Base64Reference(text) ==
    LET digits == (8 * Len(text) + 5) \div 6 IN
    [d \in 1..4 * ((Len(text) + 2) \div 3) |->
        IF d <= digits THEN DigitOf(text, d - 1) ELSE -1]

-------------------------------------------------------------------------------
VARIABLES
    text,            \* what is encoded
    digestSize,      \* sha1: the size of the input
    fed,             \* the bytes given to next()
    blockByteIndex,  \* where next() puts the following one
    blocks,          \* the blocks that were hashed
    padding          \* "no", "input", "fill", "zeros", "length", "done"

encodingVars == <<text, digestSize, fed, blockByteIndex, blocks, padding>>

EncodingsInit ==
    /\ text = <<>> /\ digestSize = 0
    /\ fed = <<>> /\ blockByteIndex = 0 /\ blocks = 0 /\ padding = "no"

Write(byte) ==
    /\ padding = "no" /\ Len(text) < MaxText
    /\ text' = Append(text, byte)
    /\ UNCHANGED <<digestSize, fed, blockByteIndex, blocks, padding>>

(* sha1 of a text of n bytes, each of them "text". *)
Hash(n) ==
    /\ padding = "no" /\ text = <<>>
    /\ digestSize' = n /\ padding' = "input"
    /\ UNCHANGED <<text, fed, blockByteIndex, blocks>>

(* next(): a full block is hashed. *)
Feed(byte) ==
    /\ fed' = Append(fed, byte)
    /\ blockByteIndex' = (blockByteIndex + 1) % 64
    /\ blocks' = IF blockByteIndex' = 0 THEN blocks + 1 ELSE blocks

FeedInput ==
    /\ padding = "input" /\ Len(fed) < digestSize
    /\ Feed("text")
    /\ UNCHANGED <<text, digestSize, padding>>

(* Mutant of NoRoomForLength: the length is thought to need seven bytes. *)
NoRoomForSeven(index) == index > 57

NoRoomForLength(index) == index > 56

(* 0x80, and zeros to the end of the block if the length does not fit.      *)
FeedEnd ==
    /\ padding = "input" /\ Len(fed) = digestSize
    /\ Feed("0x80")
    /\ padding' = IF NoRoomForLength(blockByteIndex') THEN "fill" ELSE "zeros"
    /\ UNCHANGED <<text, digestSize>>

FillBlock ==
    /\ padding = "fill"
    /\ IF blockByteIndex # 0
       THEN Feed("0") /\ UNCHANGED padding
       ELSE padding' = "zeros" /\ UNCHANGED <<fed, blockByteIndex, blocks>>
    /\ UNCHANGED <<text, digestSize>>

FeedZeros ==
    /\ padding = "zeros"
    /\ IF blockByteIndex < 56
       THEN Feed("0") /\ UNCHANGED padding
       ELSE padding' = "length" /\ UNCHANGED <<fed, blockByteIndex, blocks>>
    /\ UNCHANGED <<text, digestSize>>

(* Eight bytes, of which the length in bits fills the last four. *)
FeedLength ==
    /\ padding = "length"
    /\ fed' = fed \o [i \in 1..8 |-> "length"]
    /\ blockByteIndex' = (blockByteIndex + 8) % 64
    /\ blocks' = blocks + (blockByteIndex + 8) \div 64
    /\ padding' = "done"
    /\ UNCHANGED <<text, digestSize>>

EncodingsNext ==
    \/ \E byte \in Bytes : Write(byte)
    \/ \E n \in DigestSizes : Hash(n)
    \/ FeedInput \/ FeedEnd \/ FillBlock \/ FeedZeros \/ FeedLength

EncodingsSpec == EncodingsInit /\ [][EncodingsNext]_encodingVars

-------------------------------------------------------------------------------
(* What encode escapes decode gives back, whatever the text: also a text    *)
(* that is full of escapes, blanks and plus signs itself.                   *)
UriRoundTrip ==
    (\A i \in DOMAIN text : text[i] < 128) => UriDecode(UriEncode(text)) = text

(* base64 follows its definition for the digests it is used for: sizes of   *)
(* two or more that three does not divide.  (A whole number of groups gets  *)
(* a '\0' more, Encodings.hpp:116,137; fewer than two bytes do not end.)    *)
Base64Right ==
    Len(text) >= 2 /\ Len(text) % 3 # 0 => Base64(text) = Base64Reference(text)

(* sha1 hashes whole blocks, and only whole blocks, of the text, the end    *)
(* mark, as few zeros as possible, and the length in the last eight bytes.  *)
PaddingRight ==
    padding = "done" =>
        LET zeros == (119 - (digestSize % 64)) % 64 IN
        /\ fed = [i \in 1..digestSize |-> "text"] \o <<"0x80">>
                   \o [i \in 1..zeros |-> "0"] \o [i \in 1..8 |-> "length"]
        /\ blockByteIndex = 0 /\ Len(fed) = 64 * blocks
===============================================================================
