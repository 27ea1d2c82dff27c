------------------------------- MODULE MCMesh -------------------------------
(* Small meshes for TLC.  Node "a" owns the only address "x".              *)
EXTENDS Mesh, TLC

MCNodes == {"a", "b", "c"}
MCAddrs == {"x"}
MCOwns == [n \in MCNodes |-> IF n = "a" THEN {"x"} ELSE {}]

(* A triangle, each side dialled once. *)
Triangle == {"ab", "ac", "bc"}
TriangleConnector == [l \in Triangle |-> CASE l = "ab" -> "a" [] l = "ac" -> "a"
                                           [] l = "bc" -> "b"]
TriangleListener == [l \in Triangle |-> CASE l = "ab" -> "b" [] l = "ac" -> "c"
                                          [] l = "bc" -> "c"]
TriangleTransport == [l \in Triangle |-> l]

(* A line a - b - c. *)
Line == {"ab", "bc"}
LineConnector == [l \in Line |-> IF l = "bc" THEN "c" ELSE "a"]
LineListener == [l \in Line |-> "b"]
LineTransport == [l \in Line |-> l]

(* Only the owner's clock moves: timestamps are the owner's. *)
OwnerTicks3 == [n \in MCNodes |-> IF n = "a" THEN 3 ELSE 1]
OwnerTicks2 == [n \in MCNodes |-> IF n = "a" THEN 2 ELSE 1]
(* The clocks of a and b move independently, c's is behind. *)
SkewedTicks == [n \in MCNodes |-> IF n = "c" THEN 1 ELSE 2]

(* The sessions of a mesh whose links have come and gone: a was linked to c  *)
(* by ac, which is over, is now linked to b, and both links may end and be   *)
(* dialled again.                                                            *)
Relinked == {"ac", "ab", "ab2", "bc", "bc2"}
RelinkedConnector == [l \in Relinked |-> IF l \in {"bc", "bc2"} THEN "c" ELSE "a"]
RelinkedListener == [l \in Relinked |-> IF l = "ac" THEN "c" ELSE "b"]
RelinkedTransport == [l \in Relinked |-> CASE l = "ac" -> "a to c"
                                            [] l \in {"ab", "ab2"} -> "a to b"
                                            [] l \in {"bc", "bc2"} -> "c to b"]

(* A state that mesh comes to: a announced x at 1 over ac; c took the tracer *)
(* and queued it for b, and ac ended; a linked to b by ab and announced x at *)
(* 2; b, c and, through the echo, a took that tracer; then a lost its end of *)
(* ab.  All else has been read, but b has yet to find that ab is over, and   *)
(* to read what c queued: the old tracer, which b has never seen, and the    *)
(* echo of the new one.                                                      *)
RelinkedInit ==
  LET Old == Tracer("x", 1)
      New == Tracer("x", 2)
  IN
  /\ clock = [n \in Nodes |-> IF n = "a" THEN 2 ELSE 1]
  /\ conn = [n \in Nodes |-> [l \in Conns |->
               CASE l = "ac" /\ l \in At(n) -> "closed"
                 [] l = "ab" /\ n = "a" -> "closed"
                 [] l \in InitUp \cap At(n) -> "open"
                 [] OTHER -> "new"]]
  /\ senders = [n \in Nodes |-> IF n = "a" THEN {} ELSE InitUp \cap At(n)]
  /\ out = [n \in Nodes |-> [l \in Conns |->
               IF n = "c" /\ l = "bc" THEN <<Old, New>> ELSE <<>>]]
  /\ incoming = [n \in Nodes |-> <<>>]
  /\ routes = [n \in Nodes |-> [x \in Addrs |->
                 [ts |-> 2, via |-> IF n = "c" THEN "bc" ELSE "ab"]]]
  /\ seen = [n \in Nodes |-> IF n = "b" THEN <<New>> ELSE <<Old, New>>]
  /\ delivered = [n \in Nodes |-> <<>>]
  /\ sent = {}
  /\ announced = [n \in Nodes |-> [x \in Addrs |-> IF n = "a" THEN 2 ELSE 0]]
  /\ restarts = [n \in Nodes |-> 0]
  /\ settled = {}

(* The fair specification from that state on.                                *)
RelinkedSpec == RelinkedInit /\ [][Next]_vars /\ Fairness
=============================================================================
