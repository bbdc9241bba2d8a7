----------------------------- MODULE FrameChannel -----------------------------
(***************************************************************************)
(* What the receiving half of a websocket promises to the message handlers *)
(* of WebLink: the payloads that the peer sent reach the handlers whole,    *)
(* each once, in the order they were sent.  FrameDecoder implements it.     *)
(***************************************************************************)
EXTENDS Naturals, Sequences

VARIABLES sent,      \* the payloads the peer has sent, in order
          received   \* the payloads the handlers were given, in order

Init == sent = <<>> /\ received = <<>>

(* The peer sends one more payload. *)
Send == /\ Len(sent') = Len(sent) + 1
        /\ \A i \in DOMAIN sent : sent'[i] = sent[i]
        /\ UNCHANGED received

(* The handler gets the oldest payload that it was not given yet. *)
Deliver == /\ Len(received) < Len(sent)
           /\ received' = Append(received, sent[Len(received) + 1])
           /\ UNCHANGED sent

Next == Send \/ Deliver

Spec == Init /\ [][Next]_<<sent, received>>
===============================================================================
