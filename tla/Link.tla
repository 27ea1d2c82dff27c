-------------------------------- MODULE Link --------------------------------
(***************************************************************************)
(* One configured link (legacy_tcp.rs, LegacyTcp.cs): the node at end "I"   *)
(* dials the node at end "L" over and over, one session after the other;    *)
(* the node at "L" accepts.  Each session starts with a handshake that      *)
(* proves knowledge of a shared key and then carries frames both ways.      *)
(* Either end may run the Rust or the .NET implementation.                  *)
(*                                                                          *)
(* The byte stream is a sequence of units.  The handshake is one unit, the  *)
(* key its keyfinder was made with.  A frame is a unit with the length, one *)
(* unit per byte of the packet, and a unit with the MAC.  The keystreams of *)
(* the two ends advance together because TCP neither loses nor reorders     *)
(* bytes, so units stand for their plaintext.                               *)
(***************************************************************************)
EXTENDS Naturals, Sequences, FiniteSets

CONSTANTS
  Mixes,        \* sets of ends that may run the .NET implementation
  Keys,         \* keys the dialling end may have been configured with
  KeysL,        \* keys the listening end accepts
  Size,         \* Size[p]: the length of packet p; a function on the packets
  LenMod,       \* 65536: the length field is a u16
  BufferSize,   \* the .NET node gathers frames up to this size for one write
  SockCap,      \* how many units the sockets hold between writer and reader
  MaxSessions,  \* bound on the sessions
  MaxFailures,  \* bound on the sessions that fail although both ends are fine
  MaxEnqueued   \* bound on the packets given to the two ends

Ends == {"I", "L"}
Other(e) == IF e = "I" THEN "L" ELSE "I"
Sessions == 1..MaxSessions
Packets == DOMAIN Size

(* The empty packet, with which the Rust cleaner probes a channel.          *)
Empty == "empty"

ASSUME LinkAssumption ==
  /\ Mixes \subseteq SUBSET Ends
  /\ Size \in [Packets -> Nat \ {0}] /\ Empty \notin Packets
  /\ LenMod \in Nat \ {0} /\ BufferSize \in Nat \ {0} /\ SockCap \in Nat \ {0}
  /\ MaxSessions \in Nat /\ MaxFailures \in Nat /\ MaxEnqueued \in Nat

VARIABLES
  config,    \* the dialling end's key, and the ends that run .NET
  dialler,   \* the connect loop: "dial", "busy" or "backoff"
  st,        \* st[s][e]: "none", "hello" (handshake not read yet), "up", "over"
  reg,       \* reg[e]: sessions whose sender is registered at e
  outq,      \* outq[s][e]: the channel of packets for e to send
  pending,   \* pending[s][e]: encoded units that are being written
  wire,      \* wire[s][e]: units e wrote and the other end has not read
  frame,     \* frame[s][e]: units of the frame that e is reading
  cut,       \* sessions over which nothing travels any more
  failures,  \* how often a session was made to fail
  queued,    \* history: queued[s][e]: packets given to e for session s
  got        \* got[s][e]: packets e passed on to its main loop

vars == <<config, dialler, st, reg, outq, pending, wire, frame, cut, failures,
          queued, got>>

key == config.key
DotNet == config.dotNet

PerEnd(v) == [s \in Sessions |-> [e \in Ends |-> v]]

Init ==
  /\ config \in [key : Keys, dotNet : Mixes]
  /\ dialler = "dial"
  /\ st = PerEnd("none")
  /\ reg = [e \in Ends |-> {}]
  /\ outq = PerEnd(<<>>) /\ pending = PerEnd(<<>>) /\ wire = PerEnd(<<>>)
  /\ frame = PerEnd(<<>>)
  /\ cut = {} /\ failures = 0
  /\ queued = PerEnd(<<>>) /\ got = PerEnd(<<>>)

Over(s, e) == st[s][e] = "over"
Alive(s, e) == st[s][e] \in {"hello", "up"}
(* The sessions that have been dialled so far.                              *)
Used == {s \in Sessions : st[s]["I"] # "none"}

-----------------------------------------------------------------------------
(* Units                                                                    *)
Hello(k) == [unit |-> "hello", key |-> k]

(* The length field holds the length modulo 2^16.                           *)
FrameOf(p) ==
  <<[unit |-> "len", n |-> Size[p] % LenMod]>>
  \o [i \in 1..Size[p] |-> [unit |-> "byte", pkt |-> p, i |-> i]]
  \o <<[unit |-> "mac", pkt |-> p]>>

(* A frame is complete when it has as many units as its length field says.  *)
(* (Mutation: the reader waits for one more.)                               *)
IsCompleteLate(f) == Len(f) > 0 /\ Len(f) = f[1].n + 3

IsComplete(f) == Len(f) > 0 /\ Len(f) = f[1].n + 2

(* The MAC is right for the bytes that were read as the packet.  (Mutation: *)
(* the MAC is read and not compared.)                                       *)
AnyMac(f) == TRUE

MacMatches(f) ==
  \E p \in Packets : f[Len(f)] = [unit |-> "mac", pkt |-> p]
                       /\ SubSeq(f, 2, Len(f) - 1) = SubSeq(FrameOf(p), 2, Size[p] + 1)

(* The packet that the bytes of the frame make up; without the MAC's help,  *)
(* a receiver takes whatever it has read.                                   *)
PacketIn(f) == IF \E p \in Packets : SubSeq(f, 2, Len(f) - 1) = SubSeq(FrameOf(p), 2, Size[p] + 1)
               THEN CHOOSE p \in Packets :
                      SubSeq(f, 2, Len(f) - 1) = SubSeq(FrameOf(p), 2, Size[p] + 1)
               ELSE "garbage"

-----------------------------------------------------------------------------
(* The end of a session at e, from whatever cause.  Both tasks are dropped  *)
(* and the socket is closed: what was queued and not written, or arrived    *)
(* and not read, is lost.  The .NET node removes the peer; the Rust node    *)
(* leaves the sender in its table.  The dialling end waits and dials again. *)
(* (Mutation: the loop ends with the session.)                              *)
NoRedial(e) == dialler

Redial(e) == IF e = "I" THEN "backoff" ELSE dialler

Unregistered(s, e) == IF e \in DotNet THEN [reg EXCEPT ![e] = @ \ {s}] ELSE reg

Finish(s, e) ==
  /\ st' = [st EXCEPT ![s][e] = "over"]
  /\ outq' = [outq EXCEPT ![s][e] = <<>>]
  /\ pending' = [pending EXCEPT ![s][e] = <<>>]
  /\ frame' = [frame EXCEPT ![s][e] = <<>>]
  /\ wire' = [wire EXCEPT ![s][Other(e)] = <<>>]
  /\ reg' = Unregistered(s, e)
  /\ dialler' = Redial(e)

(* The delay of 5 to 10 seconds is over.                                    *)
BackoffEnds ==
  /\ dialler = "backoff"
  /\ dialler' = "dial"
  /\ UNCHANGED <<config, st, reg, outq, pending, wire, frame, cut, failures,
                 queued, got>>

(* The connection is not made within 5 seconds, or is refused.              *)
ConnectFails ==
  /\ dialler = "dial"
  /\ failures < MaxFailures
  /\ failures' = failures + 1
  /\ dialler' = "backoff"
  /\ UNCHANGED <<config, st, reg, outq, pending, wire, frame, cut, queued, got>>

(* The connection is made and the dialling end writes its handshake.  The   *)
(* Rust node registers the sender at once, the .NET node after it has read  *)
(* the answer.                                                              *)
Connect(s) ==
  /\ dialler = "dial"
  /\ s = Cardinality(Used) + 1
  /\ dialler' = "busy"
  /\ st' = [st EXCEPT ![s]["I"] = "hello"]
  /\ wire' = [wire EXCEPT ![s]["I"] = <<Hello(key)>>]
  /\ reg' = IF "I" \in DotNet THEN reg ELSE [reg EXCEPT !["I"] = @ \cup {s}]
  /\ UNCHANGED <<config, outq, pending, frame, cut, failures, queued, got>>

(* The listening end takes the connection from the backlog and gives it a   *)
(* task of its own, whatever has become of it meanwhile.                    *)
Accept(s) ==
  /\ st[s]["I"] # "none" /\ st[s]["L"] = "none"
  /\ st' = [st EXCEPT ![s]["L"] = "hello"]
  /\ UNCHANGED <<config, dialler, reg, outq, pending, wire, frame, cut, failures,
                 queued, got>>

(* (Mutation: any handshake will do.)                                       *)
AnyKey(e, k) == TRUE

KeyMatches(e, k) == IF e = "I" THEN k = key ELSE k \in KeysL

(* Reading the other end's handshake; the listening end answers with its    *)
(* own.                                                                     *)
ReadHello(s, e) ==
  LET in == wire[s][Other(e)] IN
  /\ st[s][e] = "hello" /\ s \notin cut
  /\ in # <<>>
  /\ IF KeyMatches(e, Head(in).key)
     THEN /\ st' = [st EXCEPT ![s][e] = "up"]
          /\ reg' = [reg EXCEPT ![e] = @ \cup {s}]
          /\ wire' = IF e = "L"
                     THEN [wire EXCEPT ![s] = [x \in Ends |->
                             IF x = "L" THEN Append(wire[s]["L"], Hello(Head(in).key))
                                        ELSE Tail(in)]]
                     ELSE [wire EXCEPT ![s]["L"] = Tail(in)]
          /\ UNCHANGED <<dialler, outq, pending, frame>>
     ELSE Finish(s, e)
  /\ UNCHANGED <<config, cut, failures, queued, got>>

-----------------------------------------------------------------------------
(* Sending                                                                  *)

(* The packets given to the ends so far, one of each session, end and place.*)
Given ==
  {w \in Sessions \X Ends \X (1..MaxEnqueued) : w[3] <= Len(queued[w[1]][w[2]])}

(* SendToAll, Broadcast, SendToFastest, Send: a packet for a registered     *)
(* session; one whose channel is closed ignores it.                         *)
Enqueue(s, e, p) ==
  /\ s \in reg[e] /\ Alive(s, e)
  /\ Cardinality(Given) < MaxEnqueued
  /\ outq' = [outq EXCEPT ![s][e] = Append(@, p)]
  /\ queued' = [queued EXCEPT ![s][e] = Append(@, p)]
  /\ UNCHANGED <<config, dialler, st, reg, pending, wire, frame, cut, failures, got>>

(* CleanBrokenSenders: an empty packet to every channel tells which are     *)
(* closed.  (A round that finds none would only fill the channels.)         *)
Clean(e) ==
  /\ e \notin DotNet
  /\ \E s \in reg[e] : Over(s, e)
  /\ reg' = [reg EXCEPT ![e] = {s \in @ : ~ Over(s, e)}]
  /\ outq' = [s \in Sessions |-> [x \in Ends |->
                IF x = e /\ s \in reg[e] /\ ~ Over(s, e)
                THEN Append(outq[s][x], Empty) ELSE outq[s][x]]]
  /\ UNCHANGED <<config, dialler, st, pending, wire, frame, cut, failures, queued,
                 got>>

(* How many packets of q the sending task takes for one write: the Rust     *)
(* task one, the .NET task as many as there are until BufferSize is full.   *)
Units(q) ==
  LET total[i \in 0..Len(q)] ==
        IF i = 0 THEN 0
        ELSE total[i - 1] + (IF q[i] = Empty THEN 0 ELSE Size[q[i]] + 2)
  IN  total

BatchOf(e, q) ==
  IF e \notin DotNet THEN 1
  ELSE CHOOSE k \in 1..Len(q) :
         /\ Units(q)[k - 1] < BufferSize
         /\ k = Len(q) \/ Units(q)[k] >= BufferSize

Encoded(q, k) ==
  LET enc[i \in 0..k] ==
        IF i = 0 THEN <<>>
        ELSE enc[i - 1] \o (IF q[i] = Empty THEN <<>> ELSE FrameOf(q[i]))
  IN  enc[k]

(* The Rust task sends from the moment the sender is registered.  The .NET  *)
(* task refuses to encode a packet that is too long: the session ends.      *)
TooLong(e, q, k) ==
  e \in DotNet /\ \E i \in 1..k : q[i] # Empty /\ Size[q[i]] >= LenMod

(* What is left in the channel.  (Mutation: the packet that did not fit is  *)
(* taken from it and forgotten.)                                            *)
LeftWithoutNext(q, k) == SubSeq(q, k + 2, Len(q))

Left(q, k) == SubSeq(q, k + 1, Len(q))

Encode(s, e) ==
  LET q == outq[s][e]
      k == BatchOf(e, q)
  IN
  /\ s \in reg[e] /\ Alive(s, e)
  /\ pending[s][e] = <<>> /\ q # <<>>
  /\ IF TooLong(e, q, k)
     THEN Finish(s, e)
     ELSE /\ pending' = [pending EXCEPT ![s][e] = Encoded(q, k)]
          /\ outq' = [outq EXCEPT ![s][e] = Left(q, k)]
          /\ UNCHANGED <<dialler, st, reg, wire, frame>>
  /\ UNCHANGED <<config, cut, failures, queued, got>>

(* The socket takes what fits.  Nobody reads what is written to an end that *)
(* is over.                                                                 *)
Write(s, e) ==
  /\ Alive(s, e) /\ s \notin cut
  /\ pending[s][e] # <<>>
  /\ Len(wire[s][e]) < SockCap
  /\ pending' = [pending EXCEPT ![s][e] = Tail(@)]
  /\ wire' = IF Over(s, Other(e)) THEN wire
             ELSE [wire EXCEPT ![s][e] = Append(@, Head(pending[s][e]))]
  /\ UNCHANGED <<config, dialler, st, reg, outq, frame, cut, failures, queued, got>>

-----------------------------------------------------------------------------
(* Receiving: the length, as many bytes as it says, the MAC.  A frame whose *)
(* MAC is right goes to the main loop, any other ends the session.          *)
Read(s, e) ==
  LET in == wire[s][Other(e)]
      f == Append(frame[s][e], Head(in))
  IN
  /\ st[s][e] = "up" /\ s \notin cut
  /\ in # <<>>
  /\ \/ /\ IsComplete(f) /\ ~ MacMatches(f)
        /\ Finish(s, e)
        /\ UNCHANGED got
     \/ /\ IsComplete(f) => MacMatches(f)
        /\ wire' = [wire EXCEPT ![s][Other(e)] = Tail(@)]
        /\ frame' = [frame EXCEPT ![s][e] = IF IsComplete(f) THEN <<>> ELSE f]
        /\ got' = IF IsComplete(f) THEN [got EXCEPT ![s][e] = Append(@, PacketIn(f))]
                                  ELSE got
        /\ UNCHANGED <<dialler, st, reg, outq, pending>>
  /\ UNCHANGED <<config, cut, failures, queued>>

(* End of file.  If the other end closed with bytes unread, the kernel      *)
(* resets the connection, and what it wrote may be lost.                    *)
ReadEof(s, e) ==
  /\ Alive(s, e) /\ s \notin cut
  /\ Over(s, Other(e))
  /\ Finish(s, e)
  /\ UNCHANGED <<config, cut, failures, queued, got>>

-----------------------------------------------------------------------------
(* Failures                                                                 *)

(* A read or a write fails at e; what was on the way to e is lost.          *)
Reset(s, e) ==
  /\ Alive(s, e)
  /\ failures < MaxFailures
  /\ failures' = failures + 1
  /\ Finish(s, e)
  /\ UNCHANGED <<config, cut, queued, got>>

(* The path between the nodes breaks and neither end is told.               *)
Cut(s) ==
  /\ s \in Used \ cut
  /\ \E e \in Ends : Alive(s, e)
  /\ failures < MaxFailures
  /\ failures' = failures + 1
  /\ cut' = cut \cup {s}
  /\ UNCHANGED <<config, dialler, st, reg, outq, pending, wire, frame, queued, got>>

(* Thirty seconds without the bytes that a read waits for: certain once the *)
(* path is broken, possible on any other when it is slow or the other node  *)
(* is silent, which counts as a failure.  (Mutation: only the handshake is  *)
(* read under a timeout.)                                                   *)
TimeoutInHello(s, e) == st[s][e] = "hello"

HasTimeout(s, e) == Alive(s, e)

ReadTimesOut(s, e) ==
  /\ HasTimeout(s, e)
  /\ \/ s \in cut /\ UNCHANGED failures
     \/ s \notin cut /\ failures < MaxFailures /\ failures' = failures + 1
  /\ Finish(s, e)
  /\ UNCHANGED <<config, cut, queued, got>>

-----------------------------------------------------------------------------
Task(s, e) ==
  ReadHello(s, e) \/ Encode(s, e) \/ Write(s, e) \/ Read(s, e) \/ ReadEof(s, e)
    \/ ReadTimesOut(s, e)

Dialler == BackoffEnds \/ \E s \in Sessions : Connect(s)

Next ==
  \/ Dialler \/ ConnectFails
  \/ \E e \in Ends : Clean(e)
  \/ \E s \in Sessions, e \in Ends :
        Task(s, e) \/ Reset(s, e) \/ \E p \in Packets : Enqueue(s, e, p)
  \/ \E s \in Sessions : Accept(s) \/ Cut(s)

Spec == Init /\ [][Next]_vars

(* The connect loop, the listener and the cleaner run on, and so do  *)
(* the tasks of a session; a task that reads and one that writes do not     *)
(* wait for each other.  Only on a broken path must a read time out.        *)
Fairness ==
  /\ WF_vars(Dialler)
  /\ \A e \in Ends : WF_vars(Clean(e))
  /\ \A s \in Sessions : WF_vars(Accept(s))
  /\ \A s \in Sessions, e \in Ends :
       /\ WF_vars(ReadHello(s, e)) /\ WF_vars(Read(s, e)) /\ WF_vars(ReadEof(s, e))
       /\ WF_vars(s \in cut /\ ReadTimesOut(s, e))
       /\ WF_vars(Encode(s, e)) /\ WF_vars(Write(s, e))

FairSpec == Spec /\ Fairness
-----------------------------------------------------------------------------
(* A type invariant, by shape: what travels is a handshake or a frame unit. *)
TypeOK ==
  /\ config \in [key : Keys, dotNet : Mixes]
  /\ dialler \in {"dial", "busy", "backoff"}
  /\ st \in [Sessions -> [Ends -> {"none", "hello", "up", "over"}]]
  /\ reg \in [Ends -> SUBSET Sessions]
  /\ \A s \in Sessions, e \in Ends :
       /\ \A i \in 1..Len(outq[s][e]) : outq[s][e][i] \in Packets \cup {Empty}
       /\ Len(wire[s][e]) <= SockCap
       /\ \A i \in 1..Len(got[s][e]) : got[s][e][i] \in Packets
  /\ cut \subseteq Sessions /\ failures \in 0..MaxFailures

(* What one end hands to its main loop is a prefix of what the other end    *)
(* was given to send in that session: nothing lost in the middle,           *)
(* duplicated, reordered, invented or taken from another session.  Holds    *)
(* for frames that arrive with the handshake, for batches, for partial      *)
(* writes, and for packets too long for the length field.                   *)
ReceivedIsPrefix ==
  \A s \in Sessions, e \in Ends :
    LET g == got[s][e]
        q == queued[s][Other(e)]
    IN  Len(g) <= Len(q) /\ \A i \in 1..Len(g) : g[i] = q[i]

(* Nodes that do not share a key exchange no packet, although a Rust node   *)
(* registers an outgoing session, and sends on it, before it has seen the   *)
(* other end's handshake.                                                   *)
StrangersExchangeNothing ==
  key \notin KeysL => \A s \in Sessions, e \in Ends : got[s][e] = <<>>

(* The packets in a stretch of units: those whose MAC is there.             *)
EndsIn(u) == IF u.unit = "mac" THEN <<u.pkt>> ELSE <<>>

PacketsOf(units) ==
  LET of[i \in 0..Len(units)] == IF i = 0 THEN <<>> ELSE of[i - 1] \o EndsIn(units[i])
  IN  of[Len(units)]

(* What e has sent and the other end has not passed on: in the frame that   *)
(* it is reading, on the wire, in the write that is going on, in the queue. *)
InFlight(s, e) ==
  IF Over(s, Other(e)) THEN <<>>
  ELSE PacketsOf(frame[s][Other(e)] \o wire[s][e] \o pending[s][e]
                   \o Encoded(outq[s][e], Len(outq[s][e])))

EndOf(s, e) == IF Over(s, e) THEN "closed" ELSE IF s \in reg[e] THEN "open" ELSE "new"

Contract == INSTANCE Session
              WITH end <- [s \in Sessions |-> [e \in Ends |-> EndOf(s, e)]],
                   flight <- [s \in Sessions |-> [e \in Ends |-> InFlight(s, e)]]

(* Each session of the link is what Session promises the mesh: encoding,    *)
(* batching, writing in parts and reading unit by unit neither lose nor     *)
(* reorder nor repeat a packet, and a session that is over stays over.      *)
ImplementsSession == Contract!Spec

-----------------------------------------------------------------------------
(* The link comes back: with a shared key, and once failures stop, there is *)
(* a session that stays up at both ends (README.md: "outgoing links         *)
(* reconnect when they drop").  A packet too long for the length field ends *)
(* its session too, and counts as a failure.                                *)
BothUp(s) == st[s]["I"] = "up" /\ st[s]["L"] = "up"

LongGiven == \E w \in Given : Size[queued[w[1]][w[2]][w[3]]] >= LenMod

LinkComesBack ==
  key \in KeysL => <>LongGiven \/ <>[](\E s \in Sessions : BothUp(s))

(* A session that is over at one end, or whose path has broken silently, is *)
(* over at each end in the end, and its sender leaves the table, at once in *)
(* the .NET node and when the cleaner comes by in the Rust node; nothing    *)
(* puts it back.                                                            *)
DeadSessionsGo ==
  \A s \in Sessions, e \in Ends :
    (s \in cut \/ Over(s, e) \/ Over(s, Other(e))) ~> [](Over(s, e) /\ s \notin reg[e])

(* What is given to a session that stays up arrives.                        *)
PacketsArrive ==
  \A s \in Sessions, e \in Ends :
    Alive(s, e) ~> \/ got[s][Other(e)] = queued[s][e]
                   \/ Over(s, e) \/ Over(s, Other(e))
=============================================================================
