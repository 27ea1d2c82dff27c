------------------------------- MODULE MCTrace -------------------------------
(* Traces from "o" in the mesh o - a - b, a - r.                            *)
EXTENDS Trace

MCNodes == {"o", "a", "b", "r"}

(* Every route goes through a; a reaches each node directly.  Like an owner *)
(* that heard the echo of its announcement, o has a route to itself.        *)
Star == [n \in MCNodes |-> [x \in MCNodes |-> IF n = "a" THEN x ELSE "a"]]
(* The routes to b form a loop between o and a.                             *)
Loop == [Star EXCEPT !["a"]["b"] = "o"]
(* Node a has no route to the origin.                                       *)
NoWayBack == [Star EXCEPT !["a"]["o"] = "none"]

StarOnly == {Star}
AllTables == {Star, Loop, NoWayBack}
=============================================================================
