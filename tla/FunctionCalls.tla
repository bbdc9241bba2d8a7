----------------------------- MODULE FunctionCalls -----------------------------
(***************************************************************************)
(* A JsFunction that is called again and again (include/JsFunction.hpp):    *)
(* each call encodes its parameters with the same msg::FunctionCall         *)
(* (include/weblink/Messages.hpp) and writes a frame whose buffers point    *)
(* into that object, and that the kernel may take later.  How the frames of *)
(* different calls share the socket is the business of WebSocketWrites.     *)
(***************************************************************************)
EXTENDS Naturals, Sequences

CONSTANTS
    Layouts,     \* of the calls: parameters, their bytes in the object's
                 \* buffer (codes and sizes), and elsewhere (texts)
    MaxCalls,    \* bound: calls
    BufferSize   \* of FunctionCall::buffer, 1024

ASSUME CallsAssumption ==
    /\ Layouts \subseteq [count : Nat, buffered : Nat, pointed : Nat]
    /\ BufferSize \in Nat /\ MaxCalls \in Nat

VARIABLES
    parametersCount, parametersDataSize,   \* the header in the object
    encodeBufferIndex,
    buffer,    \* of each byte of FunctionCall::buffer, the call that wrote it
    calls      \* the calls made, how much of each the kernel took, and what
               \* the header was when it took it

callVars == <<parametersCount, parametersDataSize, encodeBufferIndex, buffer, calls>>

(* The bytes of buffer that the frame of call n points to. *)
Span(n) == calls[n].at .. calls[n].at + calls[n].layout.buffered - 1

Size(layout) == layout.buffered + layout.pointed

-------------------------------------------------------------------------------
CallsInit ==
    /\ parametersCount = 0 /\ parametersDataSize = 0 /\ encodeBufferIndex = 0
    /\ buffer = [b \in 0..BufferSize - 1 |-> 0]
    /\ calls = <<>>

(* Mutant of EncodeParameters: each call starts its own numbering afresh.   *)
EncodeParametersAfresh(n, layout) ==
    /\ parametersCount' = layout.count % 256
    /\ parametersDataSize' = Size(layout)
    /\ encodeBufferIndex' = layout.buffered
    /\ buffer' = [b \in 0..BufferSize - 1 |-> IF b < layout.buffered THEN n ELSE buffer[b]]

(* Mutant of EncodeParameters: the count is not reset either. *)
EncodeParametersCounting(n, layout) ==
    /\ parametersCount' = (parametersCount + layout.count) % 256
    /\ parametersDataSize' = parametersDataSize + Size(layout)
    /\ encodeBufferIndex' = encodeBufferIndex + layout.buffered
    /\ buffer' = [b \in 0..BufferSize - 1 |->
                     IF b \in encodeBufferIndex .. encodeBufferIndex + layout.buffered - 1
                     THEN n ELSE buffer[b]]

(* The count is a byte and starts at 0, the size and the index go on from   *)
(* the last call.                                                           *)
EncodeParameters(n, layout) ==
    /\ parametersCount' = layout.count % 256
    /\ parametersDataSize' = parametersDataSize + Size(layout)
    /\ encodeBufferIndex' = encodeBufferIndex + layout.buffered
    /\ buffer' = [b \in 0..BufferSize - 1 |->
                     IF b \in encodeBufferIndex .. encodeBufferIndex + layout.buffered - 1
                     THEN n ELSE buffer[b]]

(* JsFunction::operator().  A call that finds no room left in buffer writes *)
(* behind it, beginning with encodeBufferIndex itself: the model ends there *)
Call(layout) ==
    /\ Len(calls) < MaxCalls /\ encodeBufferIndex + layout.buffered <= BufferSize
    /\ EncodeParameters(Len(calls) + 1, layout)
    /\ calls' = Append(calls, [layout |-> layout, at |-> encodeBufferIndex, taken |-> "nothing",
                               count |-> 0, size |-> 0, own |-> FALSE])

(* The kernel takes the header of call n as it stands in the object.        *)
TakeHeader(n) ==
    /\ calls[n].taken = "nothing"
    /\ calls' = [calls EXCEPT ![n].taken = "header",
                              ![n].count = parametersCount, ![n].size = parametersDataSize,
                              ![n].own = n = Len(calls)]
    /\ UNCHANGED <<parametersCount, parametersDataSize, encodeBufferIndex, buffer>>

TakeParameters(n) ==
    /\ calls[n].taken = "header"
    /\ calls' = [calls EXCEPT ![n].taken = "all"]
    /\ UNCHANGED <<parametersCount, parametersDataSize, encodeBufferIndex, buffer>>

CallsNext ==
    \/ \E layout \in Layouts : Call(layout)
    \/ \E n \in DOMAIN calls : TakeHeader(n) \/ TakeParameters(n)

CallsSpec == CallsInit /\ [][CallsNext]_callVars

-------------------------------------------------------------------------------
CallsTypeOK ==
    /\ parametersCount \in 0..255 /\ parametersDataSize \in Nat
    /\ encodeBufferIndex \in 0..BufferSize
    /\ buffer \in [0..BufferSize - 1 -> 0..Len(calls)]
    /\ calls \in Seq([layout : Layouts, at : Nat, taken : {"nothing", "header", "all"},
                      count : 0..255, size : Nat, own : BOOLEAN])
    /\ Len(calls) <= MaxCalls

(* Calls do not disturb each other's parameters: what the frame of a call   *)
(* points to in the object's buffer is what the call put there, however     *)
(* late the kernel takes it and however many calls were made meanwhile.     *)
ParametersStayPut ==
    \A n \in DOMAIN calls :
        /\ Span(n) \subseteq DOMAIN buffer
        /\ \A b \in Span(n) : buffer[b] = n

(* What a page is told of a call whose header was taken before the next     *)
(* call: how many parameters it has, and at least its size; the size of the *)
(* first call exactly, that of the others with all that went before.        *)
HeaderTellsCall ==
    \A n \in DOMAIN calls :
        calls[n].own =>
            /\ calls[n].count = calls[n].layout.count % 256
            /\ calls[n].size >= Size(calls[n].layout)
            /\ n = 1 => calls[n].size = Size(calls[n].layout)
===============================================================================
