---------------------------- MODULE MCRequestParser ----------------------------
(* RequestParser for TLC. *)
EXTENDS RequestParser, TLC

CONSTANTS c1, c2

TwoConnections == {c1, c2}
ConnectionSymmetry == Permutations(Connections)
===============================================================================
