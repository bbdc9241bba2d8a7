----------------------------- MODULE MCHttpServer -----------------------------
(* HttpServer for TLC: requests for the answers of RequestHandler.          *)
EXTENDS HttpServer, TLC

CONSTANTS c1, c2

MCClients == {c1, c2}
MCPlain == {"index.html"}
MCEncoded == {"babel.js"}

Get(path, accepts) ==
    [method |-> "Get", path |-> path, upgrade |-> FALSE, key |-> FALSE, accepts |-> accepts]

(* A file whose encoding the browser does not accept, a websocket upgrade,   *)
(* an unknown method.                                                        *)
MCRequests ==
    { Get("babel.js", FALSE),
      [Get("index.html", TRUE) EXCEPT !.upgrade = TRUE, !.key = TRUE],
      [Get("index.html", TRUE) EXCEPT !.method = "Undefined"] }

ClientSymmetry == Permutations(MCClients)
===============================================================================
