---------------------------- MODULE MCFrameDecoder ----------------------------
(* FrameDecoder with the length classes of the code (126 and 65536) scaled  *)
(* down, so that TLC can cut frames of every class at every byte.           *)
EXTENDS FrameDecoder

(* An empty, a small, a medium and a large payload. *)
MCPayloadSizes == {0, 3, MediumLimit - 1, MediumLimit}

(* Canonical, oversized and unmasked length fields, an empty payload and a  *)
(* size no memory can be reserved for.                                      *)
MCStrayHeaders ==
    LET H(s, c, m) == [size |-> s, class |-> c, masked |-> m]
    IN  {H(0, "small", TRUE), H(3, "small", FALSE), H(3, "medium", TRUE),
         H(MediumLimit, "large", FALSE), H(Reservable + 1, "large", TRUE)}

(* Two frames suffice to lose the boundaries; with gentle chunks they are   *)
(* never lost, and a third frame shows what two in a row leave behind.      *)
MCMaxFrames == [any |-> 2, gentle |-> 3]

MCOneFrame == [any |-> 1, gentle |-> 1]
===============================================================================
