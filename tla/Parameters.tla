------------------------------- MODULE Parameters -------------------------------
(***************************************************************************)
(* The parameters of a function call (include/weblink/Messages.hpp): how    *)
(* FunctionCall::encodeParameter lays out values, and how decodeParameter,  *)
(* driven by WebFront::cppFunction, gets them back as the types the C++     *)
(* function declares.  Encoded parameters are sequences of items, since     *)
(* every branch of decodeParameter consumes one whole item or nothing.      *)
(***************************************************************************)
EXTENDS Naturals, Sequences, FiniteSets, FiniteSetsExt, SequencesExt

CONSTANTS
    Contents,       \* what texts, numbers and booleans hold
    PageCalls,      \* what pages call: the values, the types of the function
    SmallString     \* 256: shorter texts have a size of one byte

(* What a parameter holds that nothing was decoded into. *)
Default == "{}"

(* Values: texts (with their size), numbers, booleans, tuples of these.     *)
(* Texts are shorter than 65536 and tuples than 256, as their sizes of two  *)
(* bytes and of one can say.                                                *)
Simple == [is : {"text", "number", "bool"}, of : Contents, size : Nat]
Values == Simple \cup [is : {"tuple"}, elems : Seq(Simple)]

SimpleTypes == [is : {"text", "number", "bool"}]
Types == SimpleTypes \cup [is : {"tuple"}, elems : Seq(SimpleTypes)]

ASSUME ParametersAssumption ==
    /\ Default \notin Contents /\ SmallString \in Nat
    /\ PageCalls \subseteq [values : Seq(Values), types : Seq(Types)]

ElemsOf(value) == IF value.is = "tuple" THEN value.elems ELSE <<value>>

Flattened(values) == FlattenSeq([i \in DOMAIN values |-> ElemsOf(values[i])])

(* encodeParameter for a value that is no tuple, and for all parameters: a  *)
(* tuple is an item of its own, followed by its elements.                   *)
Item(value) ==
    CASE value.is = "text"   -> [code |-> IF value.size < SmallString THEN "smallString"
                                                                      ELSE "string",
                                 of |-> value.of]
      [] value.is = "number" -> [code |-> "number", of |-> value.of]
      [] value.is = "bool"   -> [code |-> IF value.of = "true" THEN "booleanTrue"
                                                               ELSE "booleanFalse",
                                 of |-> value.of]

ItemsOf(value) ==
    IF value.is = "tuple"
    THEN <<[code |-> "tuple", count |-> Len(value.elems)]>>
           \o [j \in DOMAIN value.elems |-> Item(value.elems[j])]
    ELSE <<Item(value)>>

Items(values) == FlattenSeq([i \in DOMAIN values |-> ItemsOf(values[i])])

(* The bytes of an item in FunctionCall::buffer. *)
Buffered(item) ==
    CASE item.code = "number"                           -> 9
      [] item.code \in {"booleanTrue", "booleanFalse"}  -> 1
      [] item.code = "string"                           -> 3
      [] item.code \in {"smallString", "tuple"}         -> 2

(* What a call with these values makes of the FunctionCall's counters. *)
LayoutOf(values) ==
    LET items == Items(values)
        texts == SelectSeq(Flattened(values), LAMBDA v : v.is = "text") IN
    [count |-> Len(items),
     buffered |-> MapThenSumSet(LAMBDA i : Buffered(items[i]), DOMAIN items),
     pointed |-> MapThenSumSet(LAMBDA i : texts[i].size, DOMAIN texts)]

-------------------------------------------------------------------------------
VARIABLES
    pageCall,   \* the call that is being decoded
    data,       \* items not decoded yet
    types,      \* types of the parameters not decoded yet
    args,       \* the decoded parameters, those of tuples in their place
    callState   \* "idle", "decoding", "called", "threw"

decodeVars == <<pageCall, data, types, args, callState>>

NoCall == [values |-> <<>>, types |-> <<>>]

DecodeInit ==
    /\ pageCall = NoCall /\ data = <<>> /\ types = <<>> /\ args = <<>>
    /\ callState = "idle"

(* A call from the page, after getFunctionName. *)
Receive(call) ==
    /\ callState = "idle"
    /\ pageCall' = call /\ data' = Items(call.values) /\ types' = call.types
    /\ callState' = "decoding"
    /\ UNCHANGED args

Decoding == callState = "decoding" /\ types # <<>> /\ data # <<>>

TypeFits(code, type) ==
    \/ code \in {"smallString", "string", "exception"} /\ type.is = "text"
    \/ code = "number" /\ type.is \in {"number", "bool"}

(* A text for std::string, a number for an arithmetic type. *)
DecodeValue ==
    /\ Decoding /\ TypeFits(Head(data).code, Head(types))
    /\ args' = Append(args, Head(data).of)
    /\ data' = Tail(data) /\ types' = Tail(types)
    /\ UNCHANGED <<pageCall, callState>>

DecodeTuple ==
    /\ Decoding /\ Head(data).code = "tuple" /\ Head(types).is = "tuple"
    /\ Head(data).count = Len(Head(types).elems)
    /\ data' = Tail(data) /\ types' = Head(types).elems \o Tail(types)
    /\ UNCHANGED <<pageCall, args, callState>>

(* Mutant of DecodeNothing: the item is consumed. *)
DecodeAway ==
    /\ Decoding /\ Head(data).code # "tuple" /\ ~TypeFits(Head(data).code, Head(types))
    /\ args' = Append(args, Default)
    /\ data' = Tail(data) /\ types' = Tail(types)
    /\ UNCHANGED <<pageCall, callState>>

(* A boolean, or a value of another type than declared: the parameter is    *)
(* left as it was, or set to {}, and the item stays for the next one.       *)
DecodeNothing ==
    /\ Decoding /\ Head(data).code # "tuple" /\ ~TypeFits(Head(data).code, Head(types))
    /\ args' = Append(args, Default)
    /\ types' = Tail(types)
    /\ UNCHANGED <<pageCall, data, callState>>

(* runtime_error: no data left, a tuple of another size, a tuple for a      *)
(* parameter that is none.  WebLink catches it and the call is lost.        *)
DecodeThrows ==
    /\ callState = "decoding" /\ types # <<>>
    /\ \/ data = <<>>
       \/ /\ data # <<>> /\ Head(data).code = "tuple"
          /\ ~(Head(types).is = "tuple" /\ Head(data).count = Len(Head(types).elems))
    /\ callState' = "threw"
    /\ UNCHANGED <<pageCall, data, types, args>>

CallFunction ==
    /\ callState = "decoding" /\ types = <<>>
    /\ callState' = "called"
    /\ UNCHANGED <<pageCall, data, types, args>>

DecodeNext ==
    \/ \E call \in PageCalls : Receive(call)
    \/ DecodeValue \/ DecodeTuple \/ DecodeNothing \/ DecodeThrows \/ CallFunction

DecodeSpec == DecodeInit /\ [][DecodeNext]_decodeVars

-------------------------------------------------------------------------------
(* A page that passes what the function declares. *)
TypeOf(value) ==
    IF value.is = "tuple"
    THEN [is |-> "tuple", elems |-> [j \in DOMAIN value.elems |-> [is |-> value.elems[j].is]]]
    ELSE [is |-> value.is]

TypesOf(values) == [i \in DOMAIN values |-> TypeOf(values[i])]

(* How many of the first n parameters were decoded. *)
Decoded(n) == Cardinality({i \in 1..n : args[i] # Default})

(* Whatever the function declares, no value is skipped or decoded twice:    *)
(* those it gets are the first ones the page passed, in their order.  If    *)
(* their types are the declared ones it gets them all, and nothing is left  *)
(* over; but only up to the first boolean: it is not decoded, and neither   *)
(* is anything after it.                                                    *)
DecodesBack ==
    LET values == Flattened(pageCall.values)
        booleans == {i \in DOMAIN values : values[i].is = "bool"} IN
    /\ Decoded(Len(args)) <= Len(values)
    /\ \A i \in DOMAIN args : args[i] # Default => args[i] = values[Decoded(i)].of
    /\ callState \in {"called", "threw"} /\ pageCall.types = TypesOf(pageCall.values) =>
         /\ \A i \in DOMAIN args : (args[i] = Default) <=> \E b \in booleans : b <= i
         /\ booleans = {} => callState = "called" /\ Len(args) = Len(values) /\ data = <<>>
===============================================================================
