---------------------------- MODULE MCUiLifecycle ----------------------------
(* UiLifecycle for TLC: two clients; the request that is not malformed asks *)
(* for a websocket.                                                         *)
EXTENDS UiLifecycle

CONSTANTS c1, c2

MCClients == {c1, c2}

MCRequests ==
    {[method |-> "Get", path |-> "index.html", upgrade |-> TRUE, key |-> TRUE, accepts |-> TRUE]}

(* Twice the same way with an embedded window, once with a browser. *)
MCMaxOpens == [own \in BOOLEAN |-> IF own THEN 2 ELSE 1]
===============================================================================
