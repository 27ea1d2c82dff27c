------------------------------- MODULE Session -------------------------------
(***************************************************************************)
(* What the mesh relies on in a link, and all it relies on: a session has   *)
(* two ends; what an open end sends is read by the other in that order,     *)
(* each packet once; when an end closes, what was on its way to it is lost  *)
(* and of what it had sent some first part survives; a closed end stays     *)
(* closed.  Link implements this with frames, batches and partial writes,   *)
(* Mesh uses it.                                                            *)
(***************************************************************************)
EXTENDS Naturals, Sequences

CONSTANT Sessions

VARIABLES
  end,      \* end[s][e]: "new", "open" or "closed"
  flight    \* flight[s][e]: packets sent by e and not yet read, in order

vars == <<end, flight>>

Sides == {"I", "L"}        \* the end that dialled, the end that listens
Opposite(e) == IF e = "I" THEN "L" ELSE "I"

Init == \A s \in Sessions, e \in Sides : flight[s][e] = <<>>

Becomes(s, e, state) == end'[s] = [end[s] EXCEPT ![e] = state]

Open(s, e) ==
  /\ end[s][e] = "new"
  /\ Becomes(s, e, "open")
  /\ flight'[s] = flight[s]

Send(s, e) ==
  /\ end[s][e] = "open"
  /\ end'[s] = end[s]
  /\ flight'[s][Opposite(e)] = flight[s][Opposite(e)]
  /\ Len(flight'[s][e]) = Len(flight[s][e]) + 1
  /\ SubSeq(flight'[s][e], 1, Len(flight[s][e])) = flight[s][e]

Take(s, e) ==
  /\ end[s][e] = "open"
  /\ flight[s][Opposite(e)] # <<>>
  /\ end'[s] = end[s]
  /\ flight'[s] = [flight[s] EXCEPT ![Opposite(e)] = Tail(@)]

Close(s, e) ==
  /\ end[s][e] # "closed"
  /\ Becomes(s, e, "closed")
  /\ \E k \in 0..Len(flight[s][e]) :
       flight'[s] = [flight[s] EXCEPT ![e] = SubSeq(@, 1, k), ![Opposite(e)] = <<>>]

Step(s) == \E e \in Sides : Open(s, e) \/ Send(s, e) \/ Take(s, e) \/ Close(s, e)

(* A flood sends on several sessions at once.                               *)
Next == \A s \in Sessions :
          Step(s) \/ (end'[s] = end[s] /\ flight'[s] = flight[s])

Spec == Init /\ [][Next]_vars
=============================================================================
