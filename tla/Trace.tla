-------------------------------- MODULE Trace --------------------------------
(***************************************************************************)
(* The trace command of the .NET node: the node Origin sends a probe along  *)
(* the route to a target; a node that handles the probe sends a reply to    *)
(* the source and passes the probe on with one less time to live; the       *)
(* origin collects the replies of the trace for three seconds.              *)
(*                                                                          *)
(* The routes do not change while traces run: hop[n][x] is the neighbour    *)
(* that n's route to node x leads to (NoHop: no route), whatever made it    *)
(* so, loops included.  Every packet is built afresh, so the duplicate      *)
(* filter lets each one through once; links may lose packets and deliver    *)
(* those of different links in any order.                                   *)
(***************************************************************************)
EXTENDS Naturals, Sequences, FiniteSets

CONSTANTS
  Nodes,
  Rust,        \* the nodes that run the Rust implementation
  Origin,      \* the .NET node whose control port is asked
  NoHop,
  RouteTables, \* the route tables the instance starts from
  TraceTtl,    \* 32
  MaxTraces,   \* bound on the traces, one after the other
  Lossy        \* whether links lose packets

ASSUME TraceAssumption ==
  /\ Rust \subseteq Nodes /\ Origin \in Nodes \ Rust /\ NoHop \notin Nodes
  /\ RouteTables \subseteq [Nodes -> [Nodes -> Nodes \cup {NoHop}]]
  /\ TraceTtl \in 1..255 /\ MaxTraces \in Nat /\ Lossy \in BOOLEAN

VARIABLES
  hop,      \* hop[n][x]: Routing.routes of n, as the neighbour they lead to
  net,      \* packets on their way, each with the node that will handle it
  target,   \* target[k]: what the k-th trace asked for; its length counts traces
  open,     \* the nonce of the trace that collects replies, 0 if none
  table     \* table[k]: the <<node, ttl>> that trace k collected

vars == <<hop, net, target, open, table>>

Probe(k, t, x) == [cmd |-> 4, nonce |-> k, ttl |-> t, target |-> x]
Reply(k, t, n) == [cmd |-> 5, nonce |-> k, ttl |-> t, name |-> n]

(* Routing.Send: to the neighbour of n's route to x, if there is one.       *)
Sent(n, x, p) ==
  IF hop[n][x] = NoHop THEN {} ELSE {[at |-> hop[n][x], pkt |-> p]}

Init ==
  /\ hop \in RouteTables
  /\ net = {}
  /\ target = <<>>
  /\ open = 0
  /\ table = <<>>

-----------------------------------------------------------------------------
(* A request on the control port: the nonce is random, so it is new.  The   *)
(* control port answers one request at a time.                              *)
StartTrace(x) ==
  /\ open = 0
  /\ Len(target) < MaxTraces
  /\ target' = Append(target, x)
  /\ table' = Append(table, {})
  /\ open' = Len(target) + 1
  /\ net' = net \cup Sent(Origin, x, Probe(Len(target) + 1, TraceTtl, x))
  /\ UNCHANGED hop

(* Three seconds are over: the table is returned, later replies find no     *)
(* trace.                                                                   *)
EndTrace ==
  /\ open > 0
  /\ open' = 0
  /\ UNCHANGED <<hop, net, target, table>>

(* Mutations: the time to live is passed on as it came; a reply carries     *)
(* the time to live that the probe will have at the next hop.               *)
NextTtlSame(t) == t

NextTtl(t) == t - 1

HandleProbe(m) ==
  LET n == m.at
      p == m.pkt
  IN
  /\ m \in net /\ p.cmd = 4 /\ n \notin Rust
  /\ net' = (net \ {m})
              \cup Sent(n, Origin, Reply(p.nonce, p.ttl, n))
              \cup (IF p.ttl > 1 /\ n # p.target
                    THEN Sent(n, p.target, Probe(p.nonce, NextTtl(p.ttl), p.target))
                    ELSE {})
  /\ UNCHANGED <<hop, target, open, table>>

(* A reply is for the trace with its nonce, if this node has one that is    *)
(* still open; otherwise it ends here.  (Mutation: any open trace will do.) *)
AnyTrace(n, k) == n = Origin /\ open > 0

IsTrace(n, k) == n = Origin /\ open = k

HandleReply(m) ==
  LET n == m.at
      p == m.pkt
  IN
  /\ m \in net /\ p.cmd = 5 /\ n \notin Rust
  /\ net' = net \ {m}
  /\ table' = IF IsTrace(n, p.nonce)
              THEN [table EXCEPT ![open] = @ \cup {<<p.name, p.ttl>>}]
              ELSE table
  /\ UNCHANGED <<hop, target, open>>

(* The Rust node does not know these commands.                              *)
UnknownCommand(m) ==
  /\ m \in net /\ m.at \in Rust
  /\ net' = net \ {m}
  /\ UNCHANGED <<hop, target, open, table>>

(* The link failed with the packet in it.                                   *)
Lose(m) ==
  /\ Lossy
  /\ m \in net
  /\ net' = net \ {m}
  /\ UNCHANGED <<hop, target, open, table>>

Handle(m) == HandleProbe(m) \/ HandleReply(m) \/ UnknownCommand(m)

Next ==
  \/ \E x \in Nodes \ {Origin} : StartTrace(x)
  \/ EndTrace
  \/ \E m \in net : Handle(m) \/ Lose(m)

(* Receive tasks and main loops keep running; Task.Delay ends.              *)
Fairness == WF_vars(\E m \in net : Handle(m)) /\ WF_vars(EndTrace)

Spec == Init /\ [][Next]_vars /\ Fairness

-----------------------------------------------------------------------------
(* A type invariant.  A time to live of 0 is never on the wire.             *)
TypeOK ==
  /\ hop \in RouteTables
  /\ \A m \in net :
       /\ m.at \in Nodes /\ m.pkt.cmd \in {4, 5}
       /\ m.pkt.ttl \in 1..TraceTtl /\ m.pkt.nonce \in 1..Len(target)
  /\ Len(table) = Len(target)
  /\ \A k \in 1..Len(table) : table[k] \subseteq Nodes \X (1..TraceTtl)
  /\ open \in 0..Len(target)

(* The node that is i hops from the origin on the route to x; NoHop after   *)
(* the end of the route.                                                    *)
Route(x) ==
  LET at[i \in 0..TraceTtl] ==
        IF i = 0 THEN Origin
        ELSE IF at[i - 1] \in {NoHop, x} THEN NoHop ELSE hop[at[i - 1]][x]
  IN  at

(* A row of a hop table is right: the reply with time to live t came from   *)
(* the node TraceTtl - t + 1 hops away on the route to that trace's target, *)
(* also when replies of an earlier trace arrive late (HandleProbe, Trace).  *)
TableIsRight ==
  \A k \in 1..Len(table) : \A r \in table[k] :
    Route(target[k])[TraceTtl - r[2] + 1] = r[1]

(* Probes and replies die out, even on a route that is a loop.              *)
ProbesDieOut == <>[](net = {})

(* "Sends one TTL-limited probe toward a node; every hop replies with its   *)
(* name": when nothing is lost and nothing is on its way any more, the open *)
(* trace has a row for every node of the route (MeshNode.Trace).            *)
EveryHopReplies ==
  net = {} /\ open > 0 =>
    \A i \in 1..TraceTtl :
      Route(target[open])[i] # NoHop =>
        <<Route(target[open])[i], TraceTtl - i + 1>> \in table[open]
=============================================================================
