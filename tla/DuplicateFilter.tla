--------------------------- MODULE DuplicateFilter ---------------------------
(***************************************************************************)
(* What a mesh node needs of its duplicate filter: a packet is refused     *)
(* exactly when its fingerprint is one of the Capacity fingerprints that    *)
(* were accepted last.  The filter is described by the full history of      *)
(* accepted fingerprints; how a bounded memory answers the question is left *)
(* to SeenPackets.                                                          *)
(***************************************************************************)
EXTENDS Naturals, Sequences

CONSTANTS Packets, Hashes, Hash, Capacity, MaxAccepted

VARIABLES log,      \* every accepted fingerprint, oldest first
          answer    \* the last question and its answer

(* The fingerprints that are still remembered: the last Capacity of log.   *)
Window == {log[i] : i \in {j \in 1..Len(log) : j + Capacity > Len(log)}}

Init == /\ log = <<>>
        /\ answer = <<>>

Refuse(p) == /\ Hash[p] \in Window
             /\ log' = log
             /\ answer' = <<p, TRUE>>

Accept(p) == /\ Hash[p] \notin Window
             /\ Len(log) < MaxAccepted
             /\ log' = Append(log, Hash[p])
             /\ answer' = <<p, FALSE>>

Next == \E p \in Packets : Refuse(p) \/ Accept(p)

Spec == Init /\ [][Next]_<<log, answer>>
=============================================================================
