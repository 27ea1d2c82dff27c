----------------------------- MODULE SeenPackets -----------------------------
(***************************************************************************)
(* The bounded memory of packets a node has already handled                 *)
(* (rust/src/seen_packets.rs, and class SeenPackets of                      *)
(* dotnet/Smolmesh/Protocol.cs, which is the same algorithm over another    *)
(* hash).  A hash set answers membership, a FIFO queue says which entry to  *)
(* forget when there are more than n of them; the two have to stay in step. *)
(* Hash need not be injective: packets may collide.                         *)
(***************************************************************************)
EXTENDS Naturals, Sequences, FiniteSets

CONSTANTS Packets,       \* the packets that may arrive
          Hashes,        \* the 64-bit fingerprints
          Hash,          \* [Packets -> Hashes], FxHasher or XxHash3
          Capacity,      \* n: 16384 in both nodes
          MaxAccepted    \* bound on the length of the history kept for TLC

ASSUME HashAssumption == Hash \in [Packets -> Hashes]
ASSUME CapacityAssumption == Capacity \in Nat /\ MaxAccepted \in Nat

VARIABLES hashset,    \* fingerprints that answer "seen"
          deque,      \* the same fingerprints, oldest first
          answer,     \* the packet of the last call of add and its result
          accepted    \* history: every fingerprint ever inserted, oldest first

vars == <<hashset, deque, answer, accepted>>

Init ==
  /\ hashset = {}
  /\ deque = <<>>
  /\ answer = <<>>
  /\ accepted = <<>>

(* A mutation: a refused packet is queued again, to keep it longer.        *)
AddSeenRequeues(p) ==
  /\ Hash[p] \in hashset
  /\ answer' = <<p, TRUE>>
  /\ deque' = IF Len(deque) < Capacity THEN Append(deque, Hash[p])
                                       ELSE Append(Tail(deque), Hash[p])
  /\ UNCHANGED <<hashset, accepted>>

(* The packet is already in the set: add changes nothing, returns true.    *)
AddSeen(p) ==
  /\ Hash[p] \in hashset
  /\ answer' = <<p, TRUE>>
  /\ UNCHANGED <<hashset, deque, accepted>>

(* The packet is new: insert it in the set, push it on the queue, and if   *)
(* the queue is now longer than n pop its front and forget that one.  The  *)
(* first of each pair below is a mutation of the definition after it.      *)
PopFrontLate(pushed) ==
  IF Len(pushed) > Capacity + 1 THEN Tail(pushed) ELSE pushed

PopFront(pushed) == IF Len(pushed) > Capacity THEN Tail(pushed) ELSE pushed

ForgetNothing(set, pushed) == set

ForgetFront(set, pushed) ==
  IF Len(pushed) > Capacity THEN set \ {Head(pushed)} ELSE set

AddNew(p) ==
  /\ Hash[p] \notin hashset
  /\ Len(accepted) < MaxAccepted
  /\ LET pushed == Append(deque, Hash[p]) IN
        /\ deque' = PopFront(pushed)
        /\ hashset' = ForgetFront(hashset \cup {Hash[p]}, pushed)
  /\ answer' = <<p, FALSE>>
  /\ accepted' = Append(accepted, Hash[p])

Next == \E p \in Packets : AddSeen(p) \/ AddNew(p)

Spec == Init /\ [][Next]_vars

-----------------------------------------------------------------------------
TypeOK ==
  /\ hashset \subseteq Hashes
  /\ deque \in Seq(Hashes)
  /\ Len(deque) <= Capacity
  /\ accepted \in Seq(Hashes)
  /\ answer \in {<<>>} \cup (Packets \X BOOLEAN)

(* The set and the queue never drift apart, and the queue holds no          *)
(* fingerprint twice: if it did, popping one copy in SeenPackets::add would *)
(* make the set forget a packet the queue still remembers.                  *)
SetMatchesQueue ==
  /\ hashset = {deque[i] : i \in 1..Len(deque)}
  /\ \A i, j \in 1..Len(deque) : deque[i] = deque[j] => i = j

(* The queue is exactly the last Capacity accepted fingerprints (all of     *)
(* them while there are fewer), so the memory never exceeds its capacity    *)
(* and never forgets early.                                                 *)
QueueIsRecent ==
  /\ Len(deque) <= Len(accepted) /\ Len(deque) <= Capacity
  /\ Len(deque) = Len(accepted) \/ Len(deque) = Capacity
  /\ \A i \in 1..Len(deque) :
        deque[i] = accepted[Len(accepted) - Len(deque) + i]

(* add answers as the specification of a duplicate filter demands: "seen"   *)
(* exactly for a fingerprint among the Capacity accepted last.              *)
Filter == INSTANCE DuplicateFilter WITH log <- accepted

ImplementsDuplicateFilter == Filter!Spec

=============================================================================
