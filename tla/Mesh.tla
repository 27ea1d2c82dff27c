-------------------------------- MODULE Mesh --------------------------------
(***************************************************************************)
(* A mesh of smolmesh2 nodes, Rust and .NET mixed: how announcements        *)
(* ("tracers") flood over the links, how each node learns from them which   *)
(* link leads to an address, how IP packets are relayed along those links,  *)
(* and what becomes of all this when links open and close and nodes         *)
(* restart.                                                                 *)
(*                                                                          *)
(* A member of Conns is one TCP session.  A transport that reconnects opens *)
(* a new session each time, as the code creates a new sender channel (Peer  *)
(* in .NET) each time; a session that was closed never opens again.         *)
(*                                                                          *)
(* The Rust node applies all changes of its link table in one task fed by a *)
(* FIFO mailbox (all_senders.rs), the .NET node under one lock              *)
(* (Routing.cs).  Either way each request is a single step here: delaying   *)
(* it in the mailbox only makes the queue of the link it writes to longer.  *)
(*                                                                          *)
(* Packets of the mesh are well formed: every sender builds them.           *)
(***************************************************************************)
EXTENDS Integers, Sequences, FiniteSets

CONSTANTS
  Nodes,
  DotNet,         \* the nodes that run the .NET implementation
  Conns,          \* TCP sessions
  Connector,      \* [Conns -> Nodes]: who dials the session
  Listener,       \* [Conns -> Nodes]: who accepts it
  Transport,      \* Transport[c]: the connect entry of the config c belongs to
  Addrs,          \* addresses that are announced
  Owns,           \* [Nodes -> SUBSET Addrs]: our_ips, ourAddresses
  Payloads,       \* distinct IP packets
  NoBody,         \* the payload of a tracer, beyond its address
  NoConn,         \* the link of a route that does not exist
  Window,         \* three minutes: how far a timestamp may be from the clock
  SeenCap,        \* 16384: how many packets the duplicate filter remembers
  IncomingCap,    \* 1024: length of the .NET node's incoming queue
  MaxClock,       \* [Nodes -> Nat]: bound on each node's clock
  MaxRestarts,    \* bound on the restarts of each node
  MaxReads,       \* bound on the IP packets that are read, all nodes together
  InitUp,         \* sessions that are up in the initial state
  Fragile         \* the sessions that may end

ASSUME TopologyAssumption ==
  /\ DotNet \subseteq Nodes
  /\ Connector \in [Conns -> Nodes]
  /\ Listener \in [Conns -> Nodes]
  /\ \A c \in Conns : Connector[c] # Listener[c]
  /\ Owns \in [Nodes -> SUBSET Addrs]
ASSUME ValueAssumption ==
  /\ NoConn \notin Conns
  /\ NoBody \notin Payloads
ASSUME BoundAssumption ==
  /\ Window \in Nat
  /\ SeenCap \in Nat \ {0}
  /\ IncomingCap \in Nat \ {0}
  /\ MaxClock \in [Nodes -> Nat]
  /\ MaxRestarts \in Nat
  /\ MaxReads \in Nat
  /\ InitUp \subseteq Conns
  /\ Fragile \subseteq Conns

VARIABLES
  clock,      \* clock[n]: the wall clock of n, millis()
  conn,       \* conn[n][c]: n's end of session c: "new", "open" or "closed"
  senders,    \* senders[n]: sessions n floods to (senders, Routing.peers)
  out,        \* out[n][c]: sent by n on c and not yet read by the other end
  incoming,   \* incoming[n]: packets read and not yet processed, in order
  routes,     \* routes[n][x]: fastest_to_address, Routing.routes
  seen,       \* seen[n]: the fingerprints in n's duplicate filter
  delivered,  \* delivered[n]: IP packets n wrote to its TUN interface
  sent,       \* IP packets that were read from a TUN interface
  announced,  \* announced[n][x]: timestamp of n's last announcement of x
  restarts,   \* restarts[n]: how often n lost its memory
  settled     \* history: addresses announced since a link last changed

vars == <<clock, conn, senders, out, incoming, routes, seen, delivered, sent,
          announced, restarts, settled>>

-----------------------------------------------------------------------------
(* copy is history: it tells apart IP packets that are equal byte for byte, *)
(* read from TUN interfaces in the same millisecond.  No node can see it.   *)
Packet == [cmd : {"tracer", "data"}, addr : Addrs, ts : Nat,
           body : Payloads \cup {NoBody}, copy : Nat]

Tracer(x, t) ==
  [cmd |-> "tracer", addr |-> x, ts |-> t, body |-> NoBody, copy |-> 0]
IpPacket(x, t, b, i) ==
  [cmd |-> "data", addr |-> x, ts |-> t, body |-> b, copy |-> i]

(* What the duplicate filter takes the fingerprint of.                      *)
Bytes(p) == [p EXCEPT !.copy = 0]

(* Timestamps are positive, so 0 stands for "no route": the test           *)
(* "newer than the old entry, or no old entry" is one comparison.          *)
NoRoute == [ts |-> 0, via |-> NoConn]
HasRoute(n, x) == routes[n][x].ts > 0

At(n) == {c \in Conns : n \in {Connector[c], Listener[c]}}
Peer(n, c) == IF n = Connector[c] THEN Listener[c] ELSE Connector[c]

(* A write to c by n can still be read by the other end.                   *)
Live(n, c) == conn[n][c] = "open" /\ conn[Peer(n, c)][c] # "closed"

Init ==
  /\ clock = [n \in Nodes |-> 1]
  /\ conn = [n \in Nodes |-> [c \in Conns |->
               IF c \in InitUp \cap At(n) THEN "open" ELSE "new"]]
  /\ senders = [n \in Nodes |-> InitUp \cap At(n)]
  /\ out = [n \in Nodes |-> [c \in Conns |-> <<>>]]
  /\ incoming = [n \in Nodes |-> <<>>]
  /\ routes = [n \in Nodes |-> [x \in Addrs |-> NoRoute]]
  /\ seen = [n \in Nodes |-> <<>>]
  /\ delivered = [n \in Nodes |-> <<>>]
  /\ sent = {}
  /\ announced = [n \in Nodes |-> [x \in Addrs |-> 0]]
  /\ restarts = [n \in Nodes |-> 0]
  /\ settled = {}

-----------------------------------------------------------------------------
(* Writing to links.  The first of a pair is a mutation of the second.      *)

(* SendToAll, Broadcast: to every registered link, the one the packet came  *)
(* from included.  A write to a channel whose reader is gone is lost.       *)
(* Mutation: sends on a session of which either end may be closed.          *)
AfterBroadcastAnyway(n, p) ==
  [out EXCEPT ![n] = [c \in Conns |->
     IF c \in senders[n] THEN Append(out[n][c], p) ELSE out[n][c]]]

AfterBroadcast(n, p) ==
  [out EXCEPT ![n] = [c \in Conns |->
     IF c \in senders[n] /\ Live(n, c) THEN Append(out[n][c], p)
                                       ELSE out[n][c]]]

(* SendToFastest, Routing.Send: to the link of the route, if there is one.  *)
AfterSendToAllInstead(n, p) == AfterBroadcast(n, p)

AfterSend(n, p) ==
  LET c == routes[n][p.addr].via IN
  IF HasRoute(n, p.addr) /\ Live(n, c)
  THEN [out EXCEPT ![n][c] = Append(@, p)]
  ELSE out

-----------------------------------------------------------------------------
(* Sessions                                                                 *)

(* The connect loop dials again only when its last session is over.         *)
Dialled(c) ==
  \/ conn[Connector[c]][c] # "new"
  \/ \A d \in Conns : Transport[d] = Transport[c]
                        => conn[Connector[c]][d] # "open"

(* n has finished its part of the handshake and registers the session.      *)
(* Either end may be first: a Rust connector registers before it has read   *)
(* the listener's answer, a listener before the connector has read it.      *)
Open(n, c) ==
  /\ c \in At(n)
  /\ conn[n][c] = "new"
  /\ Dialled(c)
  /\ conn' = [conn EXCEPT ![n][c] = "open"]
  /\ senders' = [senders EXCEPT ![n] = @ \cup {c}]
  /\ settled' = {}
  /\ UNCHANGED <<clock, out, incoming, routes, seen, delivered, sent,
                 announced, restarts>>

(* n's end of the session is over (error, end of file, timeout): what it    *)
(* had queued is lost except for the first k packets, which were already in *)
(* the socket, and it reads nothing more.                                   *)
EndSession(n, c, k) ==
  /\ c \in Fragile
  /\ conn[n][c] = "open"
  /\ k \in 0..Len(out[n][c])
  /\ conn' = [conn EXCEPT ![n][c] = "closed"]
  /\ out' = [out EXCEPT ![n][c] = SubSeq(@, 1, k), ![Peer(n, c)][c] = <<>>]
  /\ settled' = {}

(* The Rust node only drops the receiving half of the channel: the sender   *)
(* stays in the link table until the cleaner finds it, routes keep it.      *)
CloseRust(n, c, k) ==
  /\ n \notin DotNet
  /\ c \in At(n)
  /\ EndSession(n, c, k)
  /\ UNCHANGED <<clock, senders, incoming, routes, seen, delivered, sent,
                 announced, restarts>>

(* The .NET node removes the peer and the routes that use it.               *)
DropRoutes(n, c) ==
  [x \in Addrs |-> IF routes[n][x].via = c THEN NoRoute ELSE routes[n][x]]

CloseDotNet(n, c, k) ==
  /\ n \in DotNet
  /\ c \in At(n)
  /\ EndSession(n, c, k)
  /\ senders' = [senders EXCEPT ![n] = @ \ {c}]
  /\ routes' = [routes EXCEPT ![n] = DropRoutes(n, c)]
  /\ UNCHANGED <<clock, incoming, seen, delivered, sent, announced, restarts>>

(* The Rust node's cleaner task: forget senders whose channel is closed.    *)
CleanBrokenSenders(n) ==
  /\ n \notin DotNet
  /\ \E c \in senders[n] : conn[n][c] # "open"
  /\ senders' = [senders EXCEPT ![n] = {c \in @ : conn[n][c] = "open"}]
  /\ UNCHANGED <<clock, conn, out, incoming, routes, seen, delivered, sent,
                 announced, restarts, settled>>

(* The process of n has died, all its sessions have ended, and it starts    *)
(* again with an empty memory.                                              *)
Restart(n) ==
  /\ restarts[n] < MaxRestarts
  /\ \A c \in At(n) : conn[n][c] # "open"
  /\ restarts' = [restarts EXCEPT ![n] = @ + 1]
  /\ senders' = [senders EXCEPT ![n] = {}]
  /\ incoming' = [incoming EXCEPT ![n] = <<>>]
  /\ routes' = [routes EXCEPT ![n] = [x \in Addrs |-> NoRoute]]
  /\ seen' = [seen EXCEPT ![n] = <<>>]
  /\ UNCHANGED <<clock, conn, out, delivered, sent, announced, settled>>

-----------------------------------------------------------------------------
(* The sources of packets                                                   *)

(* A node announces each of its addresses every 5 to 10 seconds, to every   *)
(* link; it does not put its own packet in its duplicate filter.            *)
Announce(n, x) ==
  /\ x \in Owns[n]
  /\ announced[n][x] < clock[n]
  /\ announced' = [announced EXCEPT ![n][x] = clock[n]]
  /\ out' = AfterBroadcast(n, Tracer(x, clock[n]))
  /\ settled' = settled \cup {x}
  /\ UNCHANGED <<clock, conn, senders, incoming, routes, seen, delivered,
                 sent, restarts>>

(* An IP packet for x comes out of n's TUN interface, the i-th with these   *)
(* bytes: a program may send the same bytes twice in a millisecond.  The    *)
(* kernel keeps packets for n's own addresses to itself.                    *)
TunRead(n, x, b, i) ==
  LET p == IpPacket(x, clock[n], b, i) IN
  /\ x \notin Owns[n]
  /\ Cardinality(sent) < MaxReads
  /\ p \notin sent
  /\ i > 1 => IpPacket(x, clock[n], b, i - 1) \in sent
  /\ sent' = sent \cup {p}
  /\ out' = AfterSend(n, p)
  /\ UNCHANGED <<clock, conn, senders, incoming, routes, seen, delivered,
                 announced, restarts, settled>>

(* The receive task of session c reads a frame and queues it for the main   *)
(* loop.  The .NET queue is bounded and the task waits for room.            *)
HasRoom(n) == n \in DotNet => Len(incoming[n]) < IncomingCap

Receive(n, c) ==
  /\ c \in At(n)
  /\ conn[n][c] = "open"
  /\ out[Peer(n, c)][c] # <<>>
  /\ HasRoom(n)
  /\ out' = [out EXCEPT ![Peer(n, c)][c] = Tail(@)]
  /\ incoming' = [incoming EXCEPT
                    ![n] = Append(@, [pkt |-> Head(out[Peer(n, c)][c]),
                                      via |-> c])]
  /\ UNCHANGED <<clock, conn, senders, routes, seen, delivered, sent,
                 announced, restarts, settled>>

-----------------------------------------------------------------------------
(* The main loop: one packet from the incoming queue                        *)

Fresh(n, p) == clock[n] - p.ts \in (-Window)..Window

Seen(n, p) == \E i \in 1..Len(seen[n]) : seen[n][i] = Bytes(p)

(* Mutations: the duplicate filter is left as it was; nothing is evicted.   *)
RememberNothing(n, p) == seen[n]
RememberForever(n, p) == Append(seen[n], Bytes(p))

Remember(n, p) ==
  IF Len(seen[n]) < SeenCap THEN Append(seen[n], Bytes(p))
                            ELSE Append(Tail(seen[n]), Bytes(p))

(* AddFastestTo, Learn: the route is replaced by a strictly newer one only. *)
(* The .NET node also ignores a peer that has been removed meanwhile.       *)
(* Mutations: take any announcement; keep the first route for good; pass    *)
(* tracers on without learning; learn from removed peers too.               *)
LearnAnyAge(n, p, c) ==
  IF n \in DotNet => c \in senders[n]
  THEN [routes[n] EXCEPT ![p.addr] = [ts |-> p.ts, via |-> c]]
  ELSE routes[n]

LearnOnce(n, p, c) ==
  IF ~ HasRoute(n, p.addr) /\ (n \in DotNet => c \in senders[n])
  THEN [routes[n] EXCEPT ![p.addr] = [ts |-> p.ts, via |-> c]]
  ELSE routes[n]

LearnNothing(n, p, c) == routes[n]

LearnFromRemoved(n, p, c) ==
  IF p.ts > routes[n][p.addr].ts
  THEN [routes[n] EXCEPT ![p.addr] = [ts |-> p.ts, via |-> c]]
  ELSE routes[n]

Learn(n, p, c) ==
  IF p.ts > routes[n][p.addr].ts /\ (n \in DotNet => c \in senders[n])
  THEN [routes[n] EXCEPT ![p.addr] = [ts |-> p.ts, via |-> c]]
  ELSE routes[n]

(* The head of the incoming queue, which every step below consumes.         *)
First(n) == Head(incoming[n])
Pop(n) == /\ incoming[n] # <<>>
          /\ incoming' = [incoming EXCEPT ![n] = Tail(@)]

DropStale(n) ==
  /\ Pop(n)
  /\ ~ Fresh(n, First(n).pkt)
  /\ UNCHANGED <<clock, conn, senders, out, routes, seen, delivered, sent,
                 announced, restarts, settled>>

DropDuplicate(n) ==
  /\ Pop(n)
  /\ Fresh(n, First(n).pkt)
  /\ Seen(n, First(n).pkt)
  /\ UNCHANGED <<clock, conn, senders, out, routes, seen, delivered, sent,
                 announced, restarts, settled>>

(* A packet that passes both filters is remembered before it is handled.    *)
Admit(n, p) ==
  /\ Pop(n)
  /\ Fresh(n, p)
  /\ ~ Seen(n, p)
  /\ seen' = [seen EXCEPT ![n] = Remember(n, p)]

(* Commands 0, 1, 2: learn the link it came from, pass it on to all links.  *)
HandleTracer(n) ==
  LET p == First(n).pkt
      c == First(n).via
  IN
  /\ Admit(n, p)
  /\ p.cmd = "tracer"
  /\ routes' = [routes EXCEPT ![n] = Learn(n, p, c)]
  /\ out' = AfterBroadcast(n, p)
  /\ UNCHANGED <<clock, conn, senders, delivered, sent, announced, restarts,
                 settled>>

(* Command 3 for one of our addresses: write it to the TUN interface.       *)
Deliver(n) ==
  LET p == First(n).pkt IN
  /\ Admit(n, p)
  /\ p.cmd = "data"
  /\ p.addr \in Owns[n]
  /\ delivered' = [delivered EXCEPT ![n] = Append(@, p)]
  /\ UNCHANGED <<clock, conn, senders, out, routes, sent, announced, restarts,
                 settled>>

(* Command 3 for another node: send the same packet on along our route.     *)
Relay(n) ==
  LET p == First(n).pkt IN
  /\ Admit(n, p)
  /\ p.cmd = "data"
  /\ p.addr \notin Owns[n]
  /\ out' = AfterSend(n, p)
  /\ UNCHANGED <<clock, conn, senders, routes, delivered, sent, announced,
                 restarts, settled>>

Tick(n) ==
  /\ clock[n] < MaxClock[n]
  /\ clock' = [clock EXCEPT ![n] = @ + 1]
  /\ UNCHANGED <<conn, senders, out, incoming, routes, seen, delivered, sent,
                 announced, restarts, settled>>

-----------------------------------------------------------------------------
Process(n) ==
  DropStale(n) \/ DropDuplicate(n) \/ HandleTracer(n) \/ Deliver(n) \/ Relay(n)

Next ==
  \E n \in Nodes :
    \/ Process(n)
    \/ Tick(n)
    \/ Restart(n)
    \/ CleanBrokenSenders(n)
    \/ \E x \in Addrs : Announce(n, x)
    \/ \E x \in Addrs, b \in Payloads, i \in 1..MaxReads : TunRead(n, x, b, i)
    \/ \E c \in Conns : Open(n, c) \/ Receive(n, c)
    \/ \E c \in Conns : \E k \in 0..Len(out[n][c]) :
          CloseRust(n, c, k) \/ CloseDotNet(n, c, k)

Spec == Init /\ [][Next]_vars

(* Both runtimes keep running a task that can make progress: the receive    *)
(* task of every session and the main loop of every node.                   *)
Fairness ==
  \A n \in Nodes :
    /\ WF_vars(Process(n))
    /\ \A c \in Conns : WF_vars(Receive(n, c))

FairSpec == Spec /\ Fairness

(* Time passes at every node.                                               *)
TimedSpec == FairSpec /\ \A n \in Nodes : WF_vars(Tick(n))
-----------------------------------------------------------------------------
TypeOK ==
  /\ clock \in [Nodes -> Nat \ {0}]
  /\ conn \in [Nodes -> [Conns -> {"new", "open", "closed"}]]
  /\ senders \in [Nodes -> SUBSET Conns]
  /\ out \in [Nodes -> [Conns -> Seq(Packet)]]
  /\ incoming \in [Nodes -> Seq([pkt : Packet, via : Conns])]
  /\ routes \in [Nodes -> [Addrs -> [ts : Nat, via : Conns \cup {NoConn}]]]
  /\ \A n \in Nodes, x \in Addrs : HasRoute(n, x) => routes[n][x].via \in At(n)
  /\ seen \in [Nodes -> Seq(Packet)]
  /\ \A n \in Nodes : Len(seen[n]) <= SeenCap
  /\ delivered \in [Nodes -> Seq(Packet)]
  /\ sent \subseteq Packet
  /\ announced \in [Nodes -> [Addrs -> Nat]]
  /\ restarts \in [Nodes -> Nat]
  /\ settled \subseteq Addrs

(* Nodes that may have dropped a route they had: a restarted node, and a    *)
(* .NET node that has removed a peer.  A Rust node never drops one.         *)
Forgetful == {n \in Nodes : restarts[n] > 0}
               \cup {n \in DotNet : \E c \in Conns : conn[n][c] = "closed"}

Owners(x) == {n \in Nodes : x \in Owns[n]}
NextHop(n, x) == Peer(n, routes[n][x].via)

(* No group of nodes keeps an IP packet among its members: following the    *)
(* routes to x from any node ends at an owner of x, at a node without a     *)
(* route, or at a node that has forgotten routes (see Forgetful).  Rests on *)
(* the order of learning and flooding in the tracer handlers and on         *)
(* "strictly newer" in AddFastestTo / Learn.                                *)
LoopFree ==
  \A x \in Addrs :
    ~ \E S \in SUBSET (Nodes \ (Owners(x) \cup Forgetful)) :
        /\ S # {}
        /\ \A n \in S : HasRoute(n, x) /\ NextHop(n, x) \in S

(* Why there are no loops: the node a route leads to is an owner, or knows  *)
(* a route at least as recent as ours (or has forgotten it).                *)
NextHopIsAhead ==
  \A n \in Nodes, x \in Addrs :
    HasRoute(n, x) =>
      LET m == NextHop(n, x) IN
      m \in Owners(x) \cup Forgetful \/ routes[m][x].ts >= routes[n][x].ts

(* A node that passes a tracer on knows a route at least as recent, and     *)
(* keeps it while the tracer is on its way, in a socket or in the queue of  *)
(* the node that read it.                                                   *)
Vouches(m, p) ==
  p.cmd = "tracer" =>
    m \in Owners(p.addr) \cup Forgetful \/ routes[m][p.addr].ts >= p.ts

TracersAreVouchedFor ==
  /\ \A m \in Nodes, c \in Conns :
       \A i \in 1..Len(out[m][c]) : Vouches(m, out[m][c][i])
  /\ \A n \in Nodes :
       \A i \in 1..Len(incoming[n]) :
          Vouches(Peer(n, incoming[n][i].via), incoming[n][i].pkt)

(* While nothing is evicted from the duplicate filters, a node other than   *)
(* the owner sends a tracer over a session once: the copies of it in the    *)
(* socket and in the queue of the node at the other end are never two.      *)
(* This is what keeps a flood from becoming a storm in a mesh with cycles.  *)
Carried(m, c) ==
  LET h == Peer(m, c) IN
  {<<"link", i, out[m][c][i]>> : i \in 1..Len(out[m][c])}
  \cup {<<"queue", i, incoming[h][i].pkt>> :
           i \in {j \in 1..Len(incoming[h]) : incoming[h][j].via = c}}

TracerPassedOnOnce ==
  \A m \in Nodes : \A c \in At(m) :
    \A a, b \in Carried(m, c) :
      (a[3] = b[3] /\ a[3].cmd = "tracer" /\ a[3].addr \notin Owns[m]) => a = b

(* The node at an end of a session.                                         *)
EndAt(c, e) == IF e = "I" THEN Connector[c] ELSE Listener[c]

Contract == INSTANCE Session
  WITH Sessions <- Conns,
       end <- [c \in Conns |-> [e \in {"I", "L"} |-> conn[EndAt(c, e)][c]]],
       flight <- [c \in Conns |-> [e \in {"I", "L"} |-> out[EndAt(c, e)][c]]]

(* The mesh uses a session as Session promises: what it takes to be on its  *)
(* way is no more than an open end has sent and is read in that order.      *)
UsesSessions == Contract!Spec

(* A .NET node has no route over a peer that was removed, even though       *)
(* packets of that peer may still be in its incoming queue                  *)
(* (Routing.Remove and the test for a removed peer in Routing.Learn).       *)
NoDeadRoutes ==
  \A n \in DotNet, x \in Addrs :
    HasRoute(n, x) => routes[n][x].via \in senders[n]

(* For each time an IP packet was read from a TUN interface, equal packets  *)
(* counted apart, it exists at most once in the whole mesh: in a link, in   *)
(* an incoming queue or delivered.  Floods multiply tracers; relaying       *)
(* (SendToFastest) never multiplies IP packets.                             *)
OutPlaces(p) ==
  UNION {{<<"out", m, c, i>> : i \in {j \in 1..Len(out[m][c]) : out[m][c][j] = p}}
           : m \in Nodes, c \in Conns}

InPlaces(p) ==
  UNION {{<<"in", n, i>> : i \in {j \in 1..Len(incoming[n]) : incoming[n][j].pkt = p}}
           : n \in Nodes}

TunPlaces(p) ==
  UNION {{<<"tun", n, i>> : i \in {j \in 1..Len(delivered[n]) : delivered[n][j] = p}}
           : n \in Nodes}

Places(p) == OutPlaces(p) \cup InPlaces(p) \cup TunPlaces(p)

IpPacketsNotDuplicated == \A p \in sent : \A a, b \in Places(p) : a = b

-----------------------------------------------------------------------------
(* Both ends of the session are up.                                        *)
Up(c) == conn[Connector[c]][c] = "open" /\ conn[Listener[c]][c] = "open"

(* The nodes that sessions which are up connect to an owner of x.          *)
Connected(x) ==
  {n \in Nodes : \A S \in SUBSET Nodes :
     (/\ Owners(x) \subseteq S
      /\ \A c \in Conns : Up(c) => (Connector[c] \in S <=> Listener[c] \in S))
     => n \in S}

(* Every node connected to an owner of x has a route to x over a session    *)
(* that is up, and the routes lead to an owner: no group of nodes keeps an  *)
(* IP packet among its members, not even nodes that have forgotten routes.  *)
Reached(x) ==
  LET Others == Connected(x) \ Owners(x) IN
  /\ \A n \in Others : HasRoute(n, x) /\ Up(routes[n][x].via)
  /\ ~ \E S \in SUBSET Others : S # {} /\ \A n \in S : NextHop(n, x) \in S

(* Routes repair themselves: if an owner announces x after the last change  *)
(* of the links, every node connected to it ends up with a route that leads *)
(* there, whatever the nodes had forgotten, kept of sessions that are over  *)
(* or learned from old tracers before, loops included (README.md: "routes   *)
(* update by themselves as links come and go").                             *)
RoutesRecover == \A x \in Addrs : <>[](x \in settled) => <>[]Reached(x)

(* Floods die out: when no node announces any more, the mesh becomes quiet, *)
(* although every node sends every tracer back to where it came from and an *)
(* owner passes on the echo of its own announcement.                        *)
Quiet == \A n \in Nodes : /\ incoming[n] = <<>>
                          /\ \A c \in Conns : Up(c) => out[n][c] = <<>>

FloodsDieOut == <>[]Quiet
=============================================================================
