------------------------------- MODULE MCCodecs -------------------------------
(* FunctionCalls, Parameters, StaticFile and Encodings for TLC: each        *)
(* behaviour is one of a single one of them.                                *)
EXTENDS FunctionCalls, Parameters, StaticFile, Encodings

VARIABLE codec

Text(of, size) == [is |-> "text", of |-> of, size |-> size]
Number(of) == [is |-> "number", of |-> of, size |-> 0]
Bool(of) == [is |-> "bool", of |-> of, size |-> 0]
Tuple(elems) == [is |-> "tuple", elems |-> elems]

(* A short text, one with a size of two bytes, numbers, booleans, tuples.   *)
MCSimple == {Text("short", 3), Text("long", 5), Number("one"), Bool("true")}
MCValues == MCSimple \cup {Tuple(<<Number("two"), Text("pair", 1)>>), Tuple(<<Bool("false")>>)}

MCContents == {"short", "long", "pair", "f", "one", "two", "true", "false"}

MCArguments == UNION {[1..n -> MCValues] : n \in 0..3}

MCPageCalls ==
    {[values |-> v, types |-> TypesOf(v)] : v \in MCArguments}
    \cup {[values |-> v, types |-> TypesOf(w)] :
             v \in UNION {[1..n -> MCValues] : n \in 0..2}, w \in UNION {[1..n -> MCValues] : n \in 1..2}}

(* The layouts of calls of the function "f" with one or two parameters.     *)
MCLayouts ==
    {LayoutOf(<<Text("f", 1)>> \o v) :
        v \in {<<>>, <<Text("short", 3)>>, <<Tuple(<<Bool("true"), Text("long", 5)>>)>>}}

MCInit ==
    /\ CallsInit /\ DecodeInit /\ FileInit /\ EncodingsInit
    /\ codec \in {"calls", "decode", "file", "encodings"}

MCNext ==
    /\ UNCHANGED codec
    /\ \/ codec = "calls" /\ CallsNext /\ UNCHANGED <<decodeVars, fileVars, encodingVars>>
       \/ codec = "decode" /\ DecodeNext /\ UNCHANGED <<callVars, fileVars, encodingVars>>
       \/ codec = "file" /\ FileNext /\ UNCHANGED <<callVars, decodeVars, encodingVars>>
       \/ codec = "encodings" /\ EncodingsNext /\ UNCHANGED <<callVars, decodeVars, fileVars>>

MCSpec == MCInit /\ [][MCNext]_<<codec, callVars, decodeVars, fileVars, encodingVars>>
===============================================================================
