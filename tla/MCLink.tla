------------------------------- MODULE MCLink -------------------------------
(* A small link.                                                            *)
EXTENDS Link

(* One end of each kind, either way round.                                  *)
EitherWay == {{"I"}, {"L"}}

(* A packet of one byte, and one as long as the length field's modulus, so  *)
(* that its length is sent as 0.                                            *)
LongPackets == [p \in {"p", "long"} |-> IF p = "p" THEN 1 ELSE 2]
=============================================================================
