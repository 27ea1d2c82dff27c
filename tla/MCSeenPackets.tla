---------------------------- MODULE MCSeenPackets ----------------------------
(* Five packets, two of which collide, and a memory of two fingerprints:    *)
(* enough for a packet to be forgotten, accepted again and forgotten again. *)
EXTENDS SeenPackets

MCPackets == {"p1", "p2", "p3", "p4", "p5"}
MCHashes == {1, 2, 3, 4}
MCHash == [p \in MCPackets |-> CASE p = "p1" -> 1 [] p = "p2" -> 2
                                 [] p = "p3" -> 3 [] p \in {"p4", "p5"} -> 4]
=============================================================================
