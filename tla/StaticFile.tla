------------------------------- MODULE StaticFile -------------------------------
(***************************************************************************)
(* A file of the embedded file systems (include/system/FileSystem.hpp),     *)
(* kept as an array of 64-bit integers, and RequestHandler's loop that      *)
(* reads it into the content of a response, block by block.                 *)
(*                                                                         *)
(* The byte at place i of the file is the number i; Padding is what a union *)
(* that was not loaded holds.                                               *)
(***************************************************************************)
EXTENDS Integers, Sequences

CONSTANTS
    FileSizes,     \* sizes of the embedded files
    BlockSizes,    \* of the reader's buffer: 512 in RequestHandler
    BytesPerInt    \* sizeof(uint64_t)

ASSUME FileAssumption ==
    /\ FileSizes \subseteq Nat /\ BlockSizes \subseteq Nat \ {0} /\ BytesPerInt \in Nat \ {0}

VARIABLES
    fileSize, blockSize,
    readIndex, eofBit,   \* File
    chunk,               \* the integer that readData has loaded
    block,               \* the reader's buffer, as far as it was filled
    content,             \* Response::content
    reading              \* "request", "readData", "handleRequest", "sent"

fileVars == <<fileSize, blockSize, readIndex, eofBit, chunk, block, content, reading>>

Padding == -1
NotLoaded == -1

FileInit ==
    /\ fileSize = 0 /\ blockSize = 0
    /\ readIndex = 0 /\ eofBit = FALSE /\ chunk = NotLoaded
    /\ block = <<>> /\ content = <<>>
    /\ reading = "request"

(* File's constructor, and the first read. *)
OpenFile ==
    /\ reading = "request"
    /\ fileSize' \in FileSizes /\ blockSize' \in BlockSizes
    /\ eofBit' = (fileSize' = 0)
    /\ reading' = "readData"
    /\ UNCHANGED <<readIndex, chunk, block, content>>

(* Mutant of Loaded: the integer is loaded once per block. *)
LoadedOnce == IF chunk = NotLoaded THEN readIndex \div BytesPerInt ELSE chunk

Loaded == IF readIndex % BytesPerInt = 0 THEN readIndex \div BytesPerInt ELSE chunk

Byte(int) == IF int = NotLoaded THEN Padding ELSE int * BytesPerInt + (readIndex % BytesPerInt)

(* One turn of readData's loop. *)
ReadByte ==
    /\ reading = "readData" /\ Len(block) < blockSize /\ ~eofBit
    /\ chunk' = Loaded
    /\ block' = Append(block, Byte(chunk'))
    /\ readIndex' = readIndex + 1
    /\ eofBit' = (readIndex' = fileSize)
    /\ UNCHANGED <<fileSize, blockSize, content, reading>>

ReadReturns ==
    /\ reading = "readData" /\ (Len(block) = blockSize \/ eofBit)
    /\ reading' = "handleRequest"
    /\ UNCHANGED <<fileSize, blockSize, readIndex, eofBit, chunk, block, content>>

(* The loop in handleRequest: until a read returns nothing. *)
BlockRead ==
    /\ reading = "handleRequest"
    /\ content' = content \o block
    /\ reading' = IF block = <<>> THEN "sent" ELSE "readData"
    /\ block' = <<>> /\ chunk' = NotLoaded
    /\ UNCHANGED <<fileSize, blockSize, readIndex, eofBit>>

FileNext == OpenFile \/ ReadByte \/ ReadReturns \/ BlockRead

FileSpec == FileInit /\ [][FileNext]_fileVars

-------------------------------------------------------------------------------
(* The content of the response is the file: no byte is lost, doubled or     *)
(* left out at the borders of integers, of blocks and of the file, if the   *)
(* reader's buffer holds a whole number of integers, as RequestHandler's    *)
(* does.                                                                    *)
ContentIsFile ==
    blockSize % BytesPerInt = 0 =>
        /\ \A i \in DOMAIN content : content[i] = i - 1
        /\ Len(content) <= fileSize
        /\ reading = "sent" => Len(content) = fileSize
===============================================================================
