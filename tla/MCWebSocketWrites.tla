--------------------------- MODULE MCWebSocketWrites ---------------------------
(* WebSocketWrites with the length classes of the code scaled down.         *)
EXTENDS WebSocketWrites

(* A small frame, one that addBuffer made medium, a medium one, and one     *)
(* that no chunk holds.                                                     *)
MCFrameLayouts ==
    {[built |-> 1, size |-> 1], [built |-> 1, size |-> 2],
     [built |-> 2, size |-> 2], [built |-> 2, size |-> 3]}

MCReadSizes == {4}
===============================================================================
