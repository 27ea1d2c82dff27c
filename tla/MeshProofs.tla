----------------------------- MODULE MeshProofs -----------------------------
(***************************************************************************)
(* Proofs about Mesh, for every set of nodes, topology and bound: routes    *)
(* never form a loop of nodes that have not forgotten routes, a .NET node   *)
(* has no route over a removed peer, IP packets are not duplicated, tracers *)
(* are passed on once, and the mesh uses its links as Session describes.    *)
(***************************************************************************)
EXTENDS Mesh, TLAPS

-----------------------------------------------------------------------------
(* The two ends of a session.                                               *)
LEMMA PeerFacts ==
  ASSUME NEW n \in Nodes, NEW c \in At(n)
  PROVE  /\ Peer(n, c) \in Nodes
         /\ Peer(n, c) # n
         /\ c \in Conns
  BY TopologyAssumption DEF At, Peer

(* What is left of a queue of which only the first k packets survive.       *)
LEMMA PrefixFacts ==
  ASSUME NEW T, NEW q \in Seq(T), NEW k \in 0..Len(q)
  PROVE  /\ SubSeq(q, 1, k) \in Seq(T)
         /\ Len(SubSeq(q, 1, k)) = k
         /\ \A i \in 1..k : i \in 1..Len(q) /\ SubSeq(q, 1, k)[i] = q[i]
  OBVIOUS

LEMMA TracerType ==
  ASSUME NEW x \in Addrs, NEW t \in Nat
  PROVE  Tracer(x, t) \in Packet
  BY DEF Tracer, Packet

LEMMA IpPacketType ==
  ASSUME NEW x \in Addrs, NEW t \in Nat, NEW b \in Payloads, NEW i \in Nat
  PROVE  IpPacket(x, t, b, i) \in Packet /\ IpPacket(x, t, b, i).cmd = "data"
  BY DEF IpPacket, Packet

LEMMA BytesType ==
  ASSUME NEW p \in Packet
  PROVE  Bytes(p) \in Packet
  BY DEF Bytes, Packet

LEMMA BroadcastType ==
  ASSUME TypeOK, NEW n \in Nodes, NEW p \in Packet
  PROVE  AfterBroadcast(n, p) \in [Nodes -> [Conns -> Seq(Packet)]]
  BY DEF TypeOK, AfterBroadcast

LEMMA SendType ==
  ASSUME TypeOK, NEW n \in Nodes, NEW p \in Packet
  PROVE  AfterSend(n, p) \in [Nodes -> [Conns -> Seq(Packet)]]
<1> DEFINE c == routes[n][p.addr].via
<1>1. CASE HasRoute(n, p.addr) /\ Live(n, c)
  <2>1. p.addr \in Addrs
    BY DEF Packet
  <2>2. c \in Conns
    BY <1>1, <2>1 DEF TypeOK, At
  <2>3. AfterSend(n, p) = [out EXCEPT ![n][c] = Append(out[n][c], p)]
    BY <1>1 DEF AfterSend
  <2> HIDE DEF c
  <2>4. out[n][c] \in Seq(Packet)
    BY <2>2 DEF TypeOK
  <2>5. Append(out[n][c], p) \in Seq(Packet)
    BY <2>4
  <2>6. out \in [Nodes -> [Conns -> Seq(Packet)]]
    BY DEF TypeOK
  <2> QED BY <2>2, <2>3, <2>5, <2>6
<1>2. CASE ~ (HasRoute(n, p.addr) /\ Live(n, c))
  BY <1>2 DEF TypeOK, AfterSend
<1> QED BY <1>1, <1>2

(* The packet at the head of a non-empty incoming queue, and what is left.  *)
LEMMA FirstType ==
  ASSUME TypeOK, NEW n \in Nodes, incoming[n] # <<>>
  PROVE  /\ First(n) \in [pkt : Packet, via : Conns]
         /\ First(n) = incoming[n][1]
         /\ 1 \in 1..Len(incoming[n])
         /\ Tail(incoming[n]) \in Seq([pkt : Packet, via : Conns])
         /\ Len(Tail(incoming[n])) = Len(incoming[n]) - 1
         /\ \A i \in 1..Len(Tail(incoming[n])) :
               /\ i + 1 \in 1..Len(incoming[n])
               /\ Tail(incoming[n])[i] = incoming[n][i + 1]
<1> DEFINE E == [pkt : Packet, via : Conns]
           q == incoming[n]
<1>1. q \in Seq(E)
  BY DEF TypeOK
<1> HIDE DEF E, q
<1>2. /\ Head(q) \in E /\ Head(q) = q[1] /\ 1 \in 1..Len(q)
      /\ Tail(q) \in Seq(E) /\ Len(Tail(q)) = Len(q) - 1
      /\ \A i \in 1..Len(Tail(q)) : i + 1 \in 1..Len(q) /\ Tail(q)[i] = q[i + 1]
  <2>1. q # <<>>
    BY DEF q
  <2> QED BY <1>1, <2>1
<1> QED BY <1>2 DEF First, E, q

LEMMA PopType ==
  ASSUME TypeOK, NEW n \in Nodes, Pop(n)
  PROVE  /\ incoming' \in [Nodes -> Seq([pkt : Packet, via : Conns])]
         /\ incoming' = [incoming EXCEPT ![n] = Tail(incoming[n])]
         /\ incoming[n] # <<>>
<1>1. incoming[n] # <<>>
  BY DEF Pop
<1> QED BY <1>1, FirstType DEF Pop, TypeOK

LEMMA RememberType ==
  ASSUME TypeOK, NEW n \in Nodes, NEW p \in Packet
  PROVE  Remember(n, p) \in Seq(Packet) /\ Len(Remember(n, p)) <= SeenCap
<1> DEFINE q == seen[n]
           r == Bytes(p)
<1>1. q \in Seq(Packet) /\ Len(q) <= SeenCap /\ r \in Packet
  BY BytesType DEF TypeOK
<1> HIDE DEF q, r
<1>2. CASE Len(q) < SeenCap
  <2>1. Append(q, r) \in Seq(Packet) /\ Len(Append(q, r)) = Len(q) + 1
    BY <1>1
  <2> QED BY BoundAssumption, <1>1, <1>2, <2>1 DEF Remember, q, r
<1>3. CASE ~ (Len(q) < SeenCap)
  <2>1. q # <<>>
    BY BoundAssumption, <1>1, <1>3
  <2>2. Tail(q) \in Seq(Packet) /\ Len(Tail(q)) = Len(q) - 1
    BY <1>1, <2>1
  <2>3. /\ Append(Tail(q), r) \in Seq(Packet)
        /\ Len(Append(Tail(q), r)) = Len(Tail(q)) + 1
    BY <1>1, <2>2
  <2> QED BY <1>1, <1>3, <2>2, <2>3 DEF Remember, q, r
<1> QED BY <1>2, <1>3

LEMMA LearnType ==
  ASSUME TypeOK, NEW n \in Nodes, NEW p \in Packet, NEW c \in At(n)
  PROVE  /\ Learn(n, p, c) \in [Addrs -> [ts : Nat, via : Conns \cup {NoConn}]]
         /\ \A x \in Addrs : Learn(n, p, c)[x].ts > 0 => Learn(n, p, c)[x].via \in At(n)
<1>1. /\ p.addr \in Addrs /\ p.ts \in Nat /\ c \in Conns
      /\ routes[n] \in [Addrs -> [ts : Nat, via : Conns \cup {NoConn}]]
      /\ \A x \in Addrs : routes[n][x].ts > 0 => routes[n][x].via \in At(n)
  BY DEF Packet, At, TypeOK, HasRoute
<1>2. [ts |-> p.ts, via |-> c] \in [ts : Nat, via : Conns \cup {NoConn}]
  BY <1>1
<1> QED BY <1>1, <1>2 DEF Learn

-----------------------------------------------------------------------------
(* An open session is registered, and packets are queued only for sessions  *)
(* that were opened: links and queues never get ahead of Open.              *)
SessionsRegistered ==
  /\ \A n \in Nodes, c \in Conns :
       conn[n][c] = "open" => c \in senders[n] /\ c \in At(n)
  /\ \A n \in Nodes : \A i \in 1..Len(incoming[n]) :
       incoming[n][i].via \in At(n) /\ conn[n][incoming[n][i].via] # "new"

LEMMA InitType == Init => TypeOK /\ SessionsRegistered
<1> SUFFICES ASSUME Init PROVE TypeOK /\ SessionsRegistered
  OBVIOUS
<1>1. NoRoute \in [ts : Nat, via : Conns \cup {NoConn}] /\ NoRoute.ts = 0
  BY DEF NoRoute
<1>2. TypeOK
  BY BoundAssumption, <1>1 DEF Init, TypeOK, HasRoute, At
<1>3. SessionsRegistered
  BY DEF Init, SessionsRegistered, At
<1> QED BY <1>2, <1>3

LEMMA NextType == TypeOK /\ SessionsRegistered /\ [Next]_vars => TypeOK'
<1> SUFFICES ASSUME TypeOK, SessionsRegistered, [Next]_vars PROVE TypeOK'
  OBVIOUS
<1>0. NoRoute \in [ts : Nat, via : Conns \cup {NoConn}] /\ NoRoute.ts = 0
  BY DEF NoRoute
<1>1. ASSUME NEW n \in Nodes, DropStale(n) \/ DropDuplicate(n)
      PROVE  TypeOK'
  <2>1. incoming' \in [Nodes -> Seq([pkt : Packet, via : Conns])]
    BY <1>1, PopType DEF DropStale, DropDuplicate
  <2> QED BY <1>1, <2>1 DEF DropStale, DropDuplicate, TypeOK, HasRoute
<1>2. ASSUME NEW n \in Nodes, HandleTracer(n)
      PROVE  TypeOK'
  <2> DEFINE p == First(n).pkt
             c == First(n).via
  <2>0. Admit(n, p) /\ Pop(n)
    BY <1>2 DEF HandleTracer, Admit
  <2>1. /\ incoming' \in [Nodes -> Seq([pkt : Packet, via : Conns])]
        /\ p \in Packet /\ c \in At(n)
    <3>1. incoming[n] # <<>>
      BY <2>0, PopType
    <3>2. /\ First(n) \in [pkt : Packet, via : Conns]
          /\ First(n) = incoming[n][1]
          /\ 1 \in 1..Len(incoming[n])
      BY <3>1, FirstType
    <3> QED BY <2>0, <3>2, PopType DEF SessionsRegistered
  <2> HIDE DEF p, c
  <2>2. out' \in [Nodes -> [Conns -> Seq(Packet)]]
    BY <1>2, <2>1, BroadcastType DEF HandleTracer, p
  <2>3. seen' \in [Nodes -> Seq(Packet)] /\ \A m \in Nodes : Len(seen'[m]) <= SeenCap
    BY <2>0, <2>1, RememberType DEF Admit, TypeOK
  <2>4. routes' = [routes EXCEPT ![n] = Learn(n, p, c)]
    BY <1>2 DEF HandleTracer, p, c
  <2>5. /\ routes' \in [Nodes -> [Addrs -> [ts : Nat, via : Conns \cup {NoConn}]]]
        /\ \A m \in Nodes, x \in Addrs : routes'[m][x].ts > 0 => routes'[m][x].via \in At(m)
    BY <2>1, <2>4, LearnType DEF TypeOK, HasRoute
  <2> QED BY <1>2, <2>1, <2>2, <2>3, <2>5 DEF HandleTracer, TypeOK, HasRoute
<1>3. ASSUME NEW n \in Nodes, Deliver(n) \/ Relay(n)
      PROVE  TypeOK'
  <2> DEFINE p == First(n).pkt
  <2>0. Admit(n, p) /\ Pop(n)
    BY <1>3 DEF Deliver, Relay, Admit
  <2>1. /\ incoming' \in [Nodes -> Seq([pkt : Packet, via : Conns])]
        /\ p \in Packet
    BY <2>0, PopType, FirstType
  <2> HIDE DEF p
  <2>2. seen' \in [Nodes -> Seq(Packet)] /\ \A m \in Nodes : Len(seen'[m]) <= SeenCap
    BY <2>0, <2>1, RememberType DEF Admit, TypeOK
  <2>3. out' \in [Nodes -> [Conns -> Seq(Packet)]]
    <3>1. CASE Deliver(n)
      BY <3>1 DEF Deliver, TypeOK
    <3>2. CASE Relay(n)
      BY <2>1, <3>2, SendType DEF Relay, p
    <3> QED BY <1>3, <3>1, <3>2
  <2>4. delivered' \in [Nodes -> Seq(Packet)]
    <3>1. CASE Deliver(n)
      <4>1. delivered' = [delivered EXCEPT ![n] = Append(delivered[n], p)]
        BY <3>1 DEF Deliver, p
      <4>2. delivered[n] \in Seq(Packet)
        BY DEF TypeOK
      <4>3. Append(delivered[n], p) \in Seq(Packet)
        BY <2>1, <4>2
      <4> QED BY <4>1, <4>3 DEF TypeOK
    <3>2. CASE Relay(n)
      BY <3>2 DEF Relay, TypeOK
    <3> QED BY <1>3, <3>1, <3>2
  <2> QED BY <1>3, <2>1, <2>2, <2>3, <2>4 DEF Deliver, Relay, TypeOK, HasRoute
<1>4. ASSUME NEW n \in Nodes, Tick(n)
      PROVE  TypeOK'
  <2>1. clock' \in [Nodes -> Nat \ {0}]
    BY <1>4 DEF Tick, TypeOK
  <2> QED BY <1>4, <2>1 DEF Tick, TypeOK, HasRoute
<1>5. ASSUME NEW n \in Nodes, Restart(n)
      PROVE  TypeOK'
  <2>1. restarts' \in [Nodes -> Nat] /\ senders' \in [Nodes -> SUBSET Conns]
    BY <1>5 DEF Restart, TypeOK
  <2>2. /\ incoming' \in [Nodes -> Seq([pkt : Packet, via : Conns])]
        /\ seen' \in [Nodes -> Seq(Packet)]
        /\ \A m \in Nodes : Len(seen'[m]) <= SeenCap
    <3>1. /\ incoming' = [incoming EXCEPT ![n] = <<>>]
          /\ seen' = [seen EXCEPT ![n] = <<>>]
      BY <1>5 DEF Restart
    <3>2. /\ incoming \in [Nodes -> Seq([pkt : Packet, via : Conns])]
          /\ seen \in [Nodes -> Seq(Packet)]
          /\ \A m \in Nodes : Len(seen[m]) <= SeenCap
      BY DEF TypeOK
    <3>3. /\ <<>> \in Seq([pkt : Packet, via : Conns]) /\ <<>> \in Seq(Packet)
          /\ Len(<<>>) = 0
      OBVIOUS
    <3>4. incoming' \in [Nodes -> Seq([pkt : Packet, via : Conns])]
      BY <3>1, <3>2, <3>3
    <3>5. seen' \in [Nodes -> Seq(Packet)] /\ \A m \in Nodes : Len(seen'[m]) <= SeenCap
      BY BoundAssumption, <3>1, <3>2, <3>3
    <3> QED BY <3>4, <3>5
  <2>3. /\ routes' \in [Nodes -> [Addrs -> [ts : Nat, via : Conns \cup {NoConn}]]]
        /\ \A m \in Nodes, x \in Addrs : routes'[m][x].ts > 0 => routes'[m][x].via \in At(m)
    <3>1. routes' = [routes EXCEPT ![n] = [x \in Addrs |-> NoRoute]]
      BY <1>5 DEF Restart
    <3>2. /\ routes \in [Nodes -> [Addrs -> [ts : Nat, via : Conns \cup {NoConn}]]]
          /\ \A m \in Nodes, x \in Addrs : routes[m][x].ts > 0 => routes[m][x].via \in At(m)
      BY DEF TypeOK, HasRoute
    <3>3. /\ [x \in Addrs |-> NoRoute] \in [Addrs -> [ts : Nat, via : Conns \cup {NoConn}]]
          /\ \A x \in Addrs : ~ ([y \in Addrs |-> NoRoute][x].ts > 0)
      BY <1>0
    <3> QED BY <3>1, <3>2, <3>3
  <2> QED BY <1>5, <2>1, <2>2, <2>3 DEF Restart, TypeOK, HasRoute
<1>6. ASSUME NEW n \in Nodes, CleanBrokenSenders(n)
      PROVE  TypeOK'
  BY <1>6 DEF CleanBrokenSenders, TypeOK, HasRoute
<1>7. ASSUME NEW n \in Nodes, NEW x \in Addrs, Announce(n, x)
      PROVE  TypeOK'
  <2>1. Tracer(x, clock[n]) \in Packet
    BY TracerType DEF TypeOK
  <2>2. out' \in [Nodes -> [Conns -> Seq(Packet)]]
    BY <1>7, <2>1, BroadcastType DEF Announce
  <2> QED BY <1>7, <2>2 DEF Announce, TypeOK, HasRoute
<1>8. ASSUME NEW n \in Nodes, NEW x \in Addrs, NEW b \in Payloads,
             NEW i \in 1..MaxReads, TunRead(n, x, b, i)
      PROVE  TypeOK'
  <2>1. IpPacket(x, clock[n], b, i) \in Packet
    BY IpPacketType DEF TypeOK
  <2>2. out' \in [Nodes -> [Conns -> Seq(Packet)]]
    BY <1>8, <2>1, SendType DEF TunRead
  <2> QED BY <1>8, <2>1, <2>2 DEF TunRead, TypeOK, HasRoute
<1>9. ASSUME NEW n \in Nodes, NEW c \in Conns, Open(n, c)
      PROVE  TypeOK'
  BY <1>9 DEF Open, TypeOK, HasRoute
<1>10. ASSUME NEW n \in Nodes, NEW c \in Conns, Receive(n, c)
      PROVE  TypeOK'
  <2> DEFINE m == Peer(n, c)
  <2>1. m \in Nodes /\ out[m][c] \in Seq(Packet) /\ out[m][c] # <<>>
    BY <1>10, PeerFacts DEF Receive, TypeOK
  <2>2. Head(out[m][c]) \in Packet /\ Tail(out[m][c]) \in Seq(Packet)
    BY <2>1
  <2> HIDE DEF m
  <2>3. out' \in [Nodes -> [Conns -> Seq(Packet)]]
    BY <1>10, <2>1, <2>2 DEF Receive, TypeOK, m
  <2>4. [pkt |-> Head(out[m][c]), via |-> c] \in [pkt : Packet, via : Conns]
    BY <2>2
  <2>5. incoming' \in [Nodes -> Seq([pkt : Packet, via : Conns])]
    <3> DEFINE e == [pkt |-> Head(out[m][c]), via |-> c]
               E == [pkt : Packet, via : Conns]
    <3>1. incoming' = [incoming EXCEPT ![n] = Append(incoming[n], e)]
      BY <1>10 DEF Receive, m
    <3>2. incoming \in [Nodes -> Seq(E)]
      BY DEF TypeOK
    <3> HIDE DEF e
    <3>3. e \in E
      BY <2>4 DEF e
    <3> HIDE DEF E
    <3>4. Append(incoming[n], e) \in Seq(E)
      BY <3>2, <3>3
    <3>5. incoming' \in [Nodes -> Seq(E)]
      BY <3>1, <3>2, <3>4
    <3> QED BY <3>5 DEF E
  <2> QED BY <1>10, <2>3, <2>5 DEF Receive, TypeOK, HasRoute
<1>11. ASSUME NEW n \in Nodes, NEW c \in Conns, NEW k \in 0..Len(out[n][c]),
             CloseRust(n, c, k) \/ CloseDotNet(n, c, k)
      PROVE  TypeOK'
  <2>1. SubSeq(out[n][c], 1, k) \in Seq(Packet)
    <3>1. out[n][c] \in Seq(Packet)
      BY DEF TypeOK
    <3> QED BY <3>1, PrefixFacts
  <2>2. out' \in [Nodes -> [Conns -> Seq(Packet)]]
    <3>1. out' = [out EXCEPT ![n][c] = SubSeq(out[n][c], 1, k), ![Peer(n, c)][c] = <<>>]
      BY <1>11 DEF CloseRust, CloseDotNet, EndSession
    <3>2. <<>> \in Seq(Packet)
      OBVIOUS
    <3> QED BY <2>1, <3>1, <3>2 DEF TypeOK
  <2>3. conn' \in [Nodes -> [Conns -> {"new", "open", "closed"}]]
    <3>1. conn' = [conn EXCEPT ![n][c] = "closed"]
      BY <1>11 DEF CloseRust, CloseDotNet, EndSession
    <3> QED BY <3>1 DEF TypeOK
  <2>4. CASE CloseRust(n, c, k)
    BY <2>2, <2>3, <2>4 DEF CloseRust, EndSession, TypeOK, HasRoute
  <2>5. CASE CloseDotNet(n, c, k)
    <3>1. /\ routes' \in [Nodes -> [Addrs -> [ts : Nat, via : Conns \cup {NoConn}]]]
          /\ \A m \in Nodes, x \in Addrs : routes'[m][x].ts > 0 => routes'[m][x].via \in At(m)
      <4>1. routes' = [routes EXCEPT ![n] = DropRoutes(n, c)]
        BY <2>5 DEF CloseDotNet
      <4>2. DropRoutes(n, c) \in [Addrs -> [ts : Nat, via : Conns \cup {NoConn}]]
        BY <1>0 DEF DropRoutes, TypeOK
      <4>3. \A x \in Addrs : DropRoutes(n, c)[x].ts > 0 => DropRoutes(n, c)[x].via \in At(n)
        <5>1. \A x \in Addrs : routes[n][x].ts > 0 => routes[n][x].via \in At(n)
          BY DEF TypeOK, HasRoute
        <5> QED BY <1>0, <5>1 DEF DropRoutes
      <4>4. /\ routes \in [Nodes -> [Addrs -> [ts : Nat, via : Conns \cup {NoConn}]]]
            /\ \A m \in Nodes, x \in Addrs : routes[m][x].ts > 0 => routes[m][x].via \in At(m)
        BY DEF TypeOK, HasRoute
      <4> QED BY <4>1, <4>2, <4>3, <4>4
    <3> QED BY <2>2, <2>3, <2>5, <3>1 DEF CloseDotNet, EndSession, TypeOK, HasRoute
  <2> QED BY <1>11, <2>4, <2>5
<1>12. CASE UNCHANGED vars
  BY <1>12 DEF vars, TypeOK, HasRoute
<1> QED
  BY <1>1, <1>2, <1>3, <1>4, <1>5, <1>6, <1>7, <1>8, <1>9, <1>10, <1>11, <1>12
  DEF Next, Process

LEMMA NextSessions ==
  TypeOK /\ SessionsRegistered /\ [Next]_vars => SessionsRegistered'
<1> SUFFICES ASSUME TypeOK, SessionsRegistered, [Next]_vars
             PROVE  SessionsRegistered'
  OBVIOUS
<1>1. ASSUME NEW n \in Nodes, Pop(n), UNCHANGED <<conn, senders>>
      PROVE  SessionsRegistered'
  <2>1. /\ incoming' = [incoming EXCEPT ![n] = Tail(incoming[n])]
        /\ incoming[n] # <<>>
    BY <1>1, PopType
  <2>2. \A i \in 1..Len(Tail(incoming[n])) :
               /\ i + 1 \in 1..Len(incoming[n])
               /\ Tail(incoming[n])[i] = incoming[n][i + 1]
    BY <2>1, FirstType
  <2>3. incoming \in [Nodes -> Seq([pkt : Packet, via : Conns])]
    BY DEF TypeOK
  <2>4. ASSUME NEW m \in Nodes, NEW i \in 1..Len(incoming'[m])
        PROVE  \E j \in 1..Len(incoming[m]) : incoming'[m][i] = incoming[m][j]
    <3>1. CASE m = n
      BY <2>1, <2>2, <2>3, <2>4, <3>1
    <3>2. CASE m # n
      BY <2>1, <2>3, <2>4, <3>2
    <3> QED BY <3>1, <3>2
  <2>5. \A m \in Nodes : \A i \in 1..Len(incoming'[m]) :
          incoming'[m][i].via \in At(m) /\ conn'[m][incoming'[m][i].via] # "new"
    BY <1>1, <2>4 DEF SessionsRegistered
  <2>6. \A m \in Nodes, c \in Conns :
          conn'[m][c] = "open" => c \in senders'[m] /\ c \in At(m)
    BY <1>1 DEF SessionsRegistered
  <2> QED BY <2>5, <2>6 DEF SessionsRegistered
<1>2. ASSUME NEW n \in Nodes, Process(n) PROVE SessionsRegistered'
  BY <1>1, <1>2
  DEF Process, DropStale, DropDuplicate, HandleTracer, Deliver, Relay, Admit
<1>3. CASE UNCHANGED <<conn, senders, incoming>>
  BY <1>3 DEF SessionsRegistered
<1>4. ASSUME NEW n \in Nodes, Restart(n) PROVE SessionsRegistered'
  <2>1. /\ conn' = conn /\ \A c \in At(n) : conn[n][c] # "open"
        /\ senders' = [senders EXCEPT ![n] = {}]
        /\ incoming' = [incoming EXCEPT ![n] = <<>>]
    BY <1>4 DEF Restart
  <2>2. /\ senders \in [Nodes -> SUBSET Conns]
        /\ incoming \in [Nodes -> Seq([pkt : Packet, via : Conns])]
    BY DEF TypeOK
  <2>3. \A m \in Nodes : m # n => senders'[m] = senders[m] /\ incoming'[m] = incoming[m]
    BY <2>1, <2>2
  <2>4. 1..Len(incoming'[n]) = {}
    BY <2>1, <2>2
  <2>5. \A m \in Nodes, c \in Conns :
          conn'[m][c] = "open" => c \in senders'[m] /\ c \in At(m)
    BY <2>1, <2>3 DEF SessionsRegistered
  <2>6. \A m \in Nodes : \A i \in 1..Len(incoming'[m]) :
          incoming'[m][i].via \in At(m) /\ conn'[m][incoming'[m][i].via] # "new"
    BY <2>1, <2>3, <2>4 DEF SessionsRegistered
  <2> QED BY <2>5, <2>6 DEF SessionsRegistered
<1>5. ASSUME NEW n \in Nodes, CleanBrokenSenders(n) PROVE SessionsRegistered'
  <2>1. senders \in [Nodes -> SUBSET Conns]
    BY DEF TypeOK
  <2>2. /\ conn' = conn /\ incoming' = incoming
        /\ senders' = [senders EXCEPT ![n] = {c \in senders[n] : conn[n][c] = "open"}]
    BY <1>5 DEF CleanBrokenSenders
  <2>3. \A m \in Nodes, c \in Conns :
          c \in senders[m] /\ conn[m][c] = "open" => c \in senders'[m]
    BY <2>1, <2>2
  <2> QED BY <2>2, <2>3 DEF SessionsRegistered
<1>6. ASSUME NEW n \in Nodes, NEW c \in Conns, Open(n, c) PROVE SessionsRegistered'
  <2>1. /\ c \in At(n) /\ incoming' = incoming
        /\ conn' = [conn EXCEPT ![n][c] = "open"]
        /\ senders' = [senders EXCEPT ![n] = senders[n] \cup {c}]
    BY <1>6 DEF Open
  <2>2. /\ senders \in [Nodes -> SUBSET Conns]
        /\ conn \in [Nodes -> [Conns -> {"new", "open", "closed"}]]
    BY DEF TypeOK
  <2>3. \A m \in Nodes, d \in Conns :
          conn'[m][d] = IF m = n /\ d = c THEN "open" ELSE conn[m][d]
    BY <2>1, <2>2
  <2>4. \A m \in Nodes : senders[m] \subseteq senders'[m]
    BY <2>1, <2>2
  <2>5. c \in senders'[n]
    BY <2>1, <2>2
  <2>6. \A m \in Nodes : At(m) \subseteq Conns
    BY DEF At
  <2> QED BY <2>1, <2>3, <2>4, <2>5, <2>6 DEF SessionsRegistered
<1>7. ASSUME NEW n \in Nodes, NEW c \in Conns, Receive(n, c) PROVE SessionsRegistered'
  <2> DEFINE e == [pkt |-> Head(out[Peer(n, c)][c]), via |-> c]
  <2>1. /\ c \in At(n) /\ conn[n][c] = "open" /\ conn' = conn /\ senders' = senders
        /\ incoming' = [incoming EXCEPT ![n] = Append(incoming[n], e)]
    BY <1>7 DEF Receive
  <2>2. incoming \in [Nodes -> Seq([pkt : Packet, via : Conns])]
    BY DEF TypeOK
  <2>3. e.via = c
    OBVIOUS
  <2>5. e \in [pkt : Packet, via : Conns]
    <3>1. Peer(n, c) \in Nodes /\ out[Peer(n, c)][c] # <<>>
      BY <1>7, PeerFacts DEF Receive
    <3>2. out[Peer(n, c)][c] \in Seq(Packet)
      BY <3>1 DEF TypeOK
    <3>3. Head(out[Peer(n, c)][c]) \in Packet
      BY <3>1, <3>2
    <3> QED BY <3>3
  <2> HIDE DEF e
  <2>4. ASSUME NEW m \in Nodes, NEW i \in 1..Len(incoming'[m])
        PROVE  \/ \E j \in 1..Len(incoming[m]) : incoming'[m][i] = incoming[m][j]
               \/ m = n /\ incoming'[m][i] = e
    <3>1. CASE m = n
      <4>0. incoming[n] \in Seq([pkt : Packet, via : Conns]) /\ e \in [pkt : Packet, via : Conns]
        BY <2>2, <2>5
      <4>1. /\ incoming'[n] = Append(incoming[n], e)
            /\ Len(incoming'[n]) = Len(incoming[n]) + 1
            /\ incoming[n] \in Seq([pkt : Packet, via : Conns])
        BY <2>1, <2>2, <4>0
      <4>2. CASE i = Len(incoming[n]) + 1
        BY <3>1, <4>1, <4>2
      <4>3. CASE i # Len(incoming[n]) + 1
        <5>1. i \in 1..Len(incoming[n])
          BY <3>1, <4>1, <4>3
        <5>2. Append(incoming[n], e)[i] = incoming[n][i]
          BY <4>1, <5>1
        <5> QED BY <3>1, <4>1, <5>1, <5>2
      <4> QED BY <4>2, <4>3
    <3>2. CASE m # n
      BY <2>1, <2>2, <3>2
    <3> QED BY <3>1, <3>2
  <2> QED BY <2>1, <2>3, <2>4 DEF SessionsRegistered
<1>8. ASSUME NEW n \in Nodes, NEW c \in Conns, NEW k \in 0..Len(out[n][c]),
             CloseRust(n, c, k) \/ CloseDotNet(n, c, k)
      PROVE  SessionsRegistered'
  <2>1. /\ conn' = [conn EXCEPT ![n][c] = "closed"]
        /\ incoming' = incoming
        /\ senders' = senders \/ senders' = [senders EXCEPT ![n] = senders[n] \ {c}]
    BY <1>8 DEF CloseRust, CloseDotNet, EndSession
  <2>2. /\ senders \in [Nodes -> SUBSET Conns]
        /\ conn \in [Nodes -> [Conns -> {"new", "open", "closed"}]]
    BY DEF TypeOK
  <2>3. \A m \in Nodes, d \in Conns :
          conn'[m][d] = IF m = n /\ d = c THEN "closed" ELSE conn[m][d]
    BY <2>1, <2>2
  <2>4. \A m \in Nodes, d \in Conns :
          d \in senders[m] => d \in senders'[m] \/ (m = n /\ d = c)
    BY <2>1, <2>2
  <2>5. \A m \in Nodes, d \in Conns : conn[m][d] # "new" => conn'[m][d] # "new"
    BY <2>3
  <2>6. \A m \in Nodes, d \in Conns :
          conn'[m][d] = "open" => d \in senders'[m] /\ d \in At(m)
    BY <2>3, <2>4 DEF SessionsRegistered
  <2>7. \A m \in Nodes : \A i \in 1..Len(incoming'[m]) :
          incoming'[m][i].via \in At(m) /\ conn'[m][incoming'[m][i].via] # "new"
    BY <2>1, <2>5 DEF SessionsRegistered, At
  <2> QED BY <2>6, <2>7 DEF SessionsRegistered
<1>9. ASSUME NEW n \in Nodes, NEW x \in Addrs, Announce(n, x)
      PROVE  UNCHANGED <<conn, senders, incoming>>
  BY <1>9 DEF Announce
<1>10. ASSUME NEW n \in Nodes, NEW x \in Addrs, NEW b \in Payloads,
             NEW i \in 1..MaxReads, TunRead(n, x, b, i)
      PROVE  UNCHANGED <<conn, senders, incoming>>
  BY <1>10 DEF TunRead
<1>11. ASSUME NEW n \in Nodes, Tick(n)
      PROVE  UNCHANGED <<conn, senders, incoming>>
  BY <1>11 DEF Tick
<1>12. CASE UNCHANGED vars
  BY <1>3, <1>12 DEF vars
<1> QED
  BY <1>2, <1>3, <1>4, <1>5, <1>6, <1>7, <1>8, <1>9, <1>10, <1>11, <1>12
  DEF Next

-----------------------------------------------------------------------------
(* What is vouched for, as a relation between a node, a packet, the routes  *)
(* and the set of forgetful nodes, so that it can be moved from one state   *)
(* to the next.                                                             *)
V(m, p, R, F) ==
  p.cmd = "tracer" => m \in Owners(p.addr) \cup F \/ R[m][p.addr].ts >= p.ts

VouchedNow ==
  /\ \A m \in Nodes, c \in Conns : \A i \in 1..Len(out[m][c]) :
        V(m, out[m][c][i], routes, Forgetful)
  /\ \A n \in Nodes : \A i \in 1..Len(incoming[n]) :
        V(Peer(n, incoming[n][i].via), incoming[n][i].pkt, routes, Forgetful)

LEMMA VouchedNowIsVouched == TracersAreVouchedFor <=> VouchedNow
  BY DEF TracersAreVouchedFor, VouchedNow, Vouches, V

(* Nobody leaves the set of forgetful nodes.                                *)
LEMMA ForgetfulGrows ==
  ASSUME TypeOK, [Next]_vars
  PROVE  Forgetful \subseteq Forgetful'
<1>0. /\ conn \in [Nodes -> [Conns -> {"new", "open", "closed"}]]
      /\ restarts \in [Nodes -> Nat]
  BY DEF TypeOK
<1>1. SUFFICES /\ \A m \in Nodes : restarts'[m] >= restarts[m] /\ restarts'[m] \in Nat
               /\ \A m \in Nodes, d \in Conns :
                     conn[m][d] = "closed" => conn'[m][d] = "closed"
  BY TopologyAssumption, <1>0, <1>1 DEF Forgetful
<1>2. CASE UNCHANGED <<conn, restarts>>
  BY <1>0, <1>2
<1>3. ASSUME NEW n \in Nodes, Restart(n)
      PROVE  /\ \A m \in Nodes : restarts'[m] >= restarts[m] /\ restarts'[m] \in Nat
             /\ conn' = conn
  BY <1>0, <1>3 DEF Restart
<1>4. ASSUME NEW n \in Nodes, NEW c \in Conns, Open(n, c)
      PROVE  /\ restarts' = restarts
             /\ \A m \in Nodes, d \in Conns :
                  conn[m][d] = "closed" => conn'[m][d] = "closed"
  <2>1. /\ conn' = [conn EXCEPT ![n][c] = "open"] /\ conn[n][c] = "new"
        /\ restarts' = restarts
    BY <1>4 DEF Open
  <2> QED BY <1>0, <2>1
<1>5. ASSUME NEW n \in Nodes, NEW c \in Conns, NEW k \in 0..Len(out[n][c]),
             CloseRust(n, c, k) \/ CloseDotNet(n, c, k)
      PROVE  /\ restarts' = restarts
             /\ \A m \in Nodes, d \in Conns :
                  conn[m][d] = "closed" => conn'[m][d] = "closed"
  <2>1. conn' = [conn EXCEPT ![n][c] = "closed"] /\ restarts' = restarts
    BY <1>5 DEF CloseRust, CloseDotNet, EndSession
  <2> QED BY <1>0, <2>1
<1>6. ASSUME NEW n \in Nodes, Process(n) \/ Tick(n) \/ CleanBrokenSenders(n)
      PROVE  UNCHANGED <<conn, restarts>>
  BY <1>6 DEF Process, DropStale, DropDuplicate, HandleTracer, Deliver, Relay,
              Tick, CleanBrokenSenders
<1>7. ASSUME NEW n \in Nodes, NEW x \in Addrs, Announce(n, x)
      PROVE  UNCHANGED <<conn, restarts>>
  BY <1>7 DEF Announce
<1>8. ASSUME NEW n \in Nodes, NEW x \in Addrs, NEW b \in Payloads,
             NEW i \in 1..MaxReads, TunRead(n, x, b, i)
      PROVE  UNCHANGED <<conn, restarts>>
  BY <1>8 DEF TunRead
<1>9. ASSUME NEW n \in Nodes, NEW c \in Conns, Receive(n, c)
      PROVE  UNCHANGED <<conn, restarts>>
  BY <1>9 DEF Receive
<1>10. CASE UNCHANGED vars
  BY <1>2, <1>10 DEF vars
<1> QED
  BY <1>0, <1>2, <1>3, <1>4, <1>5, <1>6, <1>7, <1>8, <1>9, <1>10 DEF Next

(* A step that changes no route, except that it empties those of a node     *)
(* that is forgetful afterwards, closes no loop.                            *)
RoutesKept ==
  \A m \in Nodes, x \in Addrs :
    \/ routes'[m][x] = routes[m][x]
    \/ m \in Forgetful' /\ routes'[m][x].ts = 0

LEMMA KeptIsSafe ==
  ASSUME TypeOK, NextHopIsAhead, LoopFree, RoutesKept, Forgetful \subseteq Forgetful'
  PROVE  NextHopIsAhead' /\ LoopFree'
<1>1. NextHopIsAhead'
  <2> SUFFICES ASSUME NEW n \in Nodes, NEW x \in Addrs, routes'[n][x].ts > 0,
                      Peer(n, routes'[n][x].via) \notin Owners(x) \cup Forgetful'
               PROVE  routes'[Peer(n, routes'[n][x].via)][x].ts >= routes'[n][x].ts
    BY DEF NextHopIsAhead, NextHop, HasRoute
  <2>1. routes'[n][x] = routes[n][x]
    BY DEF RoutesKept
  <2> DEFINE m == Peer(n, routes[n][x].via)
  <2>2. m \in Nodes
    BY <2>1, PeerFacts DEF TypeOK, HasRoute
  <2>3. routes'[m][x] = routes[m][x]
    BY <2>1, <2>2 DEF RoutesKept
  <2>4. routes[m][x].ts >= routes[n][x].ts
    BY <2>1 DEF NextHopIsAhead, NextHop, HasRoute
  <2> QED BY <2>1, <2>3, <2>4
<1>2. LoopFree'
  <2> SUFFICES ASSUME NEW x \in Addrs,
                      NEW S \in SUBSET (Nodes \ (Owners(x) \cup Forgetful')),
                      S # {},
                      \A n \in S : routes'[n][x].ts > 0 /\ Peer(n, routes'[n][x].via) \in S
               PROVE  FALSE
    BY DEF LoopFree, NextHop, HasRoute
  <2>1. \A n \in S : routes'[n][x] = routes[n][x]
    BY DEF RoutesKept
  <2>2. S \in SUBSET (Nodes \ (Owners(x) \cup Forgetful))
    OBVIOUS
  <2> QED BY <2>1, <2>2 DEF LoopFree, NextHop, HasRoute
<1> QED BY <1>1, <1>2

(* The step that learns: node n takes a route of age t over session c, the  *)
(* node at the other end vouches for it, and it is newer than n's old one.  *)
(* A loop S through n would contain a smaller one already: the nodes of S   *)
(* with a route at least as recent as t, to which n did not belong.         *)
LEMMA LearnIsSafe ==
  ASSUME TypeOK, NextHopIsAhead, LoopFree, Forgetful' = Forgetful,
         NEW n \in Nodes, NEW c \in At(n), NEW y \in Addrs, NEW t \in Nat,
         routes' = [routes EXCEPT ![n] = [routes[n] EXCEPT ![y] = [ts |-> t, via |-> c]]],
         t > routes[n][y].ts,
         Peer(n, c) \in Owners(y) \cup Forgetful \/ routes[Peer(n, c)][y].ts >= t
  PROVE  NextHopIsAhead' /\ LoopFree'
<1> DEFINE mc == Peer(n, c)
<1>0. /\ mc \in Nodes /\ mc # n /\ c \in Conns
  BY PeerFacts
<1>1. routes \in [Nodes -> [Addrs -> [ts : Nat, via : Conns \cup {NoConn}]]]
  BY DEF TypeOK
<1>2. /\ \A m \in Nodes, x \in Addrs :
           ~ (m = n /\ x = y) => routes'[m][x] = routes[m][x]
      /\ routes'[n][y].ts = t /\ routes'[n][y].via = c
  BY <1>1
<1>3. \A m \in Nodes, x \in Addrs : routes[m][x].ts \in Nat /\ routes'[m][x].ts \in Nat
  BY <1>1, <1>2
<1>4. \A m \in Nodes, x \in Addrs : routes'[m][x].ts >= routes[m][x].ts
  BY <1>2, <1>3
<1>5. \A m \in Nodes, x \in Addrs :
        routes[m][x].ts > 0 =>
          LET h == Peer(m, routes[m][x].via) IN
          /\ h \in Nodes
          /\ h \in Owners(x) \cup Forgetful \/ routes[h][x].ts >= routes[m][x].ts
  BY PeerFacts DEF TypeOK, HasRoute, NextHopIsAhead, NextHop
<1>6. NextHopIsAhead'
  <2> SUFFICES ASSUME NEW m \in Nodes, NEW x \in Addrs, routes'[m][x].ts > 0,
                      Peer(m, routes'[m][x].via) \notin Owners(x) \cup Forgetful
               PROVE  routes'[Peer(m, routes'[m][x].via)][x].ts >= routes'[m][x].ts
    BY DEF NextHopIsAhead, NextHop, HasRoute
  <2>1. CASE m = n /\ x = y
    <3>1. routes[mc][y].ts >= t
      BY <1>2, <2>1
    <3>2. routes'[mc][y] = routes[mc][y]
      BY <1>0, <1>2
    <3> QED BY <1>2, <2>1, <3>1, <3>2
  <2>2. CASE ~ (m = n /\ x = y)
    <3> DEFINE h == Peer(m, routes[m][x].via)
    <3>1. routes'[m][x] = routes[m][x]
      BY <1>2, <2>2
    <3>2. h \in Nodes /\ routes[h][x].ts >= routes[m][x].ts
      BY <1>5, <3>1
    <3> HIDE DEF h
    <3>3. routes'[h][x].ts >= routes[m][x].ts
      BY <1>3, <1>4, <3>2
    <3> QED BY <3>1, <3>3 DEF h
  <2> QED BY <2>1, <2>2
<1>7. LoopFree'
  <2> SUFFICES ASSUME NEW x \in Addrs,
                      NEW S \in SUBSET (Nodes \ (Owners(x) \cup Forgetful)),
                      S # {},
                      \A m \in S : routes'[m][x].ts > 0 /\ Peer(m, routes'[m][x].via) \in S
               PROVE  FALSE
    BY DEF LoopFree, NextHop, HasRoute
  <2>0. ASSUME NEW T \in SUBSET (Nodes \ (Owners(x) \cup Forgetful)), T # {},
               \A m \in T : routes[m][x].ts > 0 /\ Peer(m, routes[m][x].via) \in T
        PROVE  FALSE
    BY <2>0 DEF LoopFree, NextHop, HasRoute
  <2>1. CASE ~ (n \in S /\ x = y)
    <3>1. \A m \in S : routes'[m][x] = routes[m][x]
      BY <1>2, <2>1
    <3> QED BY <2>0, <3>1
  <2>2. CASE n \in S /\ x = y
    <3> DEFINE T == {m \in S : routes[m][y].ts >= t}
    <3>1. mc \in T
      <4>1. mc \in S
        BY <1>2, <2>2
      <4> QED BY <2>2, <4>1
    <3>2. n \notin T
      BY <1>3
    <3>3. ASSUME NEW m \in T
          PROVE  routes[m][y].ts > 0 /\ Peer(m, routes[m][y].via) \in T
      <4> DEFINE h == Peer(m, routes[m][y].via)
      <4>1. m \in S /\ m # n /\ m \in Nodes
        BY <3>2, <3>3
      <4>2. routes'[m][y] = routes[m][y]
        BY <1>2, <4>1
      <4>3. routes[m][y].ts > 0 /\ h \in S
        BY <2>2, <4>1, <4>2
      <4>4. h \in Nodes /\ routes[h][y].ts >= routes[m][y].ts
        BY <1>5, <2>2, <4>1, <4>3
      <4>5. routes[m][y].ts >= t
        BY <3>3
      <4> HIDE DEF h
      <4>6. routes[h][y].ts >= t
        BY <1>3, <4>1, <4>4, <4>5
      <4>7. h \in T
        BY <4>3, <4>6
      <4> QED BY <4>3, <4>7 DEF h
    <3>4. T \in SUBSET (Nodes \ (Owners(x) \cup Forgetful)) /\ T # {}
      BY <3>1
    <3> HIDE DEF T
    <3> QED BY <2>0, <2>2, <3>3, <3>4
  <2> QED BY <2>1, <2>2
<1> QED BY <1>6, <1>7
-----------------------------------------------------------------------------
(* The one step that adds a route: n handles a tracer that is newer than    *)
(* its route, from a session that is still registered.                      *)
Learns(n) ==
  /\ HandleTracer(n)
  /\ First(n).pkt.ts > routes[n][First(n).pkt.addr].ts
  /\ n \in DotNet => First(n).via \in senders[n]

LEMMA TracerFacts ==
  ASSUME TypeOK, SessionsRegistered, NEW n \in Nodes, HandleTracer(n)
  PROVE  /\ First(n).pkt \in Packet
         /\ First(n).pkt.addr \in Addrs /\ First(n).pkt.ts \in Nat
         /\ First(n).via \in At(n) /\ conn[n][First(n).via] # "new"
         /\ First(n) = incoming[n][1] /\ 1 \in 1..Len(incoming[n])
         /\ incoming' = [incoming EXCEPT ![n] = Tail(incoming[n])]
         /\ incoming[n] # <<>>
<1>1. Pop(n)
  BY DEF HandleTracer, Admit
<1>2. /\ incoming[n] # <<>>
      /\ incoming' = [incoming EXCEPT ![n] = Tail(incoming[n])]
  BY <1>1, PopType
<1>3. /\ First(n) \in [pkt : Packet, via : Conns]
      /\ First(n) = incoming[n][1]
      /\ 1 \in 1..Len(incoming[n])
  BY <1>2, FirstType
<1>4. First(n).pkt \in Packet
  BY <1>3
<1>5. First(n).pkt.addr \in Addrs /\ First(n).pkt.ts \in Nat
  BY <1>4 DEF Packet
<1> QED BY <1>2, <1>3, <1>4, <1>5 DEF SessionsRegistered

LEMMA OtherStepsKeepRoutes ==
  ASSUME TypeOK, [Next]_vars, \A n \in Nodes : ~ Learns(n)
  PROVE  RoutesKept
<1>0. /\ routes \in [Nodes -> [Addrs -> [ts : Nat, via : Conns \cup {NoConn}]]]
      /\ conn \in [Nodes -> [Conns -> {"new", "open", "closed"}]]
      /\ restarts \in [Nodes -> Nat]
      /\ NoRoute.ts = 0
  BY DEF TypeOK, NoRoute
<1>1. CASE routes' = routes
  BY <1>1 DEF RoutesKept
<1>2. ASSUME NEW n \in Nodes, HandleTracer(n)
      PROVE  routes' = routes
  <2>1. Learn(n, First(n).pkt, First(n).via) = routes[n]
    BY <1>2 DEF Learn, Learns
  <2>2. routes' = [routes EXCEPT ![n] = routes[n]]
    BY <1>2, <2>1 DEF HandleTracer
  <2> QED BY <1>0, <2>2
<1>3. ASSUME NEW n \in Nodes, Restart(n)
      PROVE  RoutesKept
  <2>1. /\ restarts' = [restarts EXCEPT ![n] = restarts[n] + 1]
        /\ routes' = [routes EXCEPT ![n] = [x \in Addrs |-> NoRoute]]
    BY <1>3 DEF Restart
  <2>2. restarts'[n] > 0
    BY <1>0, <2>1
  <2>3. n \in Forgetful'
    BY <2>2 DEF Forgetful
  <2>4. \A m \in Nodes, x \in Addrs :
          routes'[m][x] = routes[m][x] \/ (m = n /\ routes'[m][x].ts = 0)
    BY <1>0, <2>1
  <2> QED BY <2>3, <2>4 DEF RoutesKept
<1>4. ASSUME NEW n \in Nodes, NEW c \in Conns, NEW k \in 0..Len(out[n][c]),
             CloseDotNet(n, c, k)
      PROVE  RoutesKept
  <2>1. /\ conn' = [conn EXCEPT ![n][c] = "closed"]
        /\ routes' = [routes EXCEPT ![n] = DropRoutes(n, c)]
        /\ n \in DotNet
    BY <1>4 DEF CloseDotNet, EndSession
  <2>2. conn'[n][c] = "closed"
    BY <1>0, <2>1
  <2>3. n \in Forgetful'
    BY <2>1, <2>2 DEF Forgetful
  <2>4. \A m \in Nodes, x \in Addrs :
          routes'[m][x] = routes[m][x] \/ (m = n /\ routes'[m][x].ts = 0)
    BY <1>0, <2>1 DEF DropRoutes
  <2> QED BY <2>3, <2>4 DEF RoutesKept
<1>5. ASSUME NEW n \in Nodes,
             DropStale(n) \/ DropDuplicate(n) \/ Deliver(n) \/ Relay(n) \/ Tick(n)
               \/ CleanBrokenSenders(n)
      PROVE  routes' = routes
  BY <1>5 DEF DropStale, DropDuplicate, Deliver, Relay, Tick, CleanBrokenSenders
<1>6. ASSUME NEW n \in Nodes, NEW c \in Conns, NEW k \in 0..Len(out[n][c]),
             CloseRust(n, c, k)
      PROVE  routes' = routes
  BY <1>6 DEF CloseRust
<1>7. ASSUME NEW n \in Nodes, NEW c \in Conns, Open(n, c) \/ Receive(n, c)
      PROVE  routes' = routes
  BY <1>7 DEF Open, Receive
<1>8. ASSUME NEW n \in Nodes, NEW x \in Addrs, Announce(n, x)
      PROVE  routes' = routes
  BY <1>8 DEF Announce
<1>9. ASSUME NEW n \in Nodes, NEW x \in Addrs, NEW b \in Payloads,
             NEW i \in 1..MaxReads, TunRead(n, x, b, i)
      PROVE  routes' = routes
  BY <1>9 DEF TunRead
<1>10. CASE UNCHANGED vars
  BY <1>1, <1>10 DEF vars
<1> QED
  BY <1>1, <1>2, <1>3, <1>4, <1>5, <1>6, <1>7, <1>8, <1>9, <1>10 DEF Next, Process

LEMMA LearnedRoute ==
  ASSUME TypeOK, SessionsRegistered, NEW n \in Nodes, Learns(n)
  PROVE  LET p == First(n).pkt IN
         /\ routes' = [routes EXCEPT ![n] =
              [routes[n] EXCEPT ![p.addr] = [ts |-> p.ts, via |-> First(n).via]]]
         /\ p.ts > routes[n][p.addr].ts
         /\ p.cmd = "tracer"
         /\ UNCHANGED <<conn, restarts>>
         /\ Forgetful' = Forgetful
<1>1. HandleTracer(n)
  BY DEF Learns
<1>2. UNCHANGED <<conn, restarts>>
  BY <1>1 DEF HandleTracer
<1>3. Forgetful' = Forgetful
  BY <1>2 DEF Forgetful
<1> QED BY <1>1, <1>2, <1>3 DEF Learns, HandleTracer, Learn

(* Whatever the step, a route of a node that is not forgetful only becomes  *)
(* more recent, and the two facts about routes survive.                     *)
LEMMA NextRoutes ==
  ASSUME TypeOK, SessionsRegistered, VouchedNow, NextHopIsAhead, LoopFree,
         [Next]_vars
  PROVE  /\ NextHopIsAhead' /\ LoopFree'
         /\ \A m \in Nodes, x \in Addrs :
               m \in Forgetful' \/ routes'[m][x].ts >= routes[m][x].ts
<1>0. routes \in [Nodes -> [Addrs -> [ts : Nat, via : Conns \cup {NoConn}]]]
  BY DEF TypeOK
<1>1. CASE \A n \in Nodes : ~ Learns(n)
  <2>1. RoutesKept
    BY <1>1, OtherStepsKeepRoutes
  <2>2. NextHopIsAhead' /\ LoopFree'
    BY <2>1, KeptIsSafe, ForgetfulGrows
  <2>3. \A m \in Nodes, x \in Addrs :
          m \in Forgetful' \/ routes'[m][x].ts >= routes[m][x].ts
    BY <1>0, <2>1 DEF RoutesKept
  <2> QED BY <2>2, <2>3
<1>2. ASSUME NEW n \in Nodes, Learns(n)
      PROVE  /\ NextHopIsAhead' /\ LoopFree'
             /\ \A m \in Nodes, x \in Addrs : routes'[m][x].ts >= routes[m][x].ts
  <2> DEFINE y == First(n).pkt.addr
             t == First(n).pkt.ts
             c == First(n).via
  <2>1. HandleTracer(n)
    BY <1>2 DEF Learns
  <2>2. /\ y \in Addrs /\ t \in Nat /\ c \in At(n)
        /\ First(n) = incoming[n][1] /\ 1 \in 1..Len(incoming[n])
    BY <2>1, TracerFacts
  <2>3. /\ routes' = [routes EXCEPT ![n] =
                        [routes[n] EXCEPT ![y] = [ts |-> t, via |-> c]]]
        /\ t > routes[n][y].ts
        /\ First(n).pkt.cmd = "tracer"
        /\ Forgetful' = Forgetful
    BY <1>2, LearnedRoute
  <2>4. V(Peer(n, c), First(n).pkt, routes, Forgetful)
    BY <2>2 DEF VouchedNow
  <2>5. Peer(n, c) \in Owners(y) \cup Forgetful \/ routes[Peer(n, c)][y].ts >= t
    BY <2>3, <2>4 DEF V
  <2> HIDE DEF y, t, c
  <2>6. NextHopIsAhead' /\ LoopFree'
    BY <2>2, <2>3, <2>5, LearnIsSafe
  <2>7. \A m \in Nodes, x \in Addrs : routes'[m][x].ts >= routes[m][x].ts
    BY <1>0, <2>2, <2>3
  <2> QED BY <2>6, <2>7
<1> QED BY <1>1, <1>2

-----------------------------------------------------------------------------
(* Where the packets come from.  q2 holds packets of q1, and copies of p.   *)
FromOrIs(q2, q1, p) ==
  \A i \in 1..Len(q2) : q2[i] = p \/ \E j \in 1..Len(q1) : q2[i] = q1[j]

From(q2, q1) ==
  \A i \in 1..Len(q2) : \E j \in 1..Len(q1) : q2[i] = q1[j]

LEMMA ElementType ==
  ASSUME NEW T, NEW q \in Seq(T), NEW i \in 1..Len(q)
  PROVE  q[i] \in T
  OBVIOUS

LEMMA AppendFrom ==
  ASSUME NEW T, NEW q \in Seq(T), NEW p \in T
  PROVE  FromOrIs(Append(q, p), q, p)
  BY DEF FromOrIs

LEMMA SameFrom == ASSUME NEW q PROVE From(q, q)
  BY DEF From

LEMMA TailFrom ==
  ASSUME NEW T, NEW q \in Seq(T), q # <<>>
  PROVE  From(Tail(q), q)
<1>1. ASSUME NEW i \in 1..Len(Tail(q))
      PROVE  i + 1 \in 1..Len(q) /\ Tail(q)[i] = q[i + 1]
  OBVIOUS
<1> QED BY <1>1 DEF From

LEMMA PrefixFrom ==
  ASSUME NEW T, NEW q \in Seq(T), NEW k \in 0..Len(q)
  PROVE  From(SubSeq(q, 1, k), q)
  BY PrefixFacts DEF From

LEMMA EmptyFrom == ASSUME NEW q PROVE From(<<>>, q)
  BY DEF From

LEMMA BroadcastFrom ==
  ASSUME TypeOK, NEW n \in Nodes, NEW p \in Packet,
         NEW m \in Nodes, NEW c \in Conns
  PROVE  \/ From(AfterBroadcast(n, p)[m][c], out[m][c])
         \/ m = n /\ FromOrIs(AfterBroadcast(n, p)[m][c], out[m][c], p)
<1>1. out \in [Nodes -> [Conns -> Seq(Packet)]]
  BY DEF TypeOK
<1>2. \/ AfterBroadcast(n, p)[m][c] = out[m][c]
      \/ m = n /\ AfterBroadcast(n, p)[m][c] = Append(out[m][c], p)
  BY <1>1 DEF AfterBroadcast
<1>3. FromOrIs(Append(out[m][c], p), out[m][c], p)
  BY <1>1, AppendFrom
<1> QED BY <1>2, <1>3, SameFrom

LEMMA SendFrom ==
  ASSUME TypeOK, NEW n \in Nodes, NEW p \in Packet,
         NEW m \in Nodes, NEW c \in Conns
  PROVE  FromOrIs(AfterSend(n, p)[m][c], out[m][c], p)
<1>1. out \in [Nodes -> [Conns -> Seq(Packet)]]
  BY DEF TypeOK
<1>2. \/ AfterSend(n, p)[m][c] = out[m][c]
      \/ AfterSend(n, p)[m][c] = Append(out[m][c], p)
  <2> DEFINE d == routes[n][p.addr].via
  <2>1. AfterSend(n, p) = out \/ AfterSend(n, p) = [out EXCEPT ![n][d] = Append(out[n][d], p)]
    BY DEF AfterSend
  <2> HIDE DEF d
  <2>2. CASE m = n /\ c = d
    BY <1>1, <2>1, <2>2
  <2>3. CASE ~ (m = n /\ c = d)
    <3>1. ASSUME NEW q PROVE [out EXCEPT ![n][d] = q][m][c] = out[m][c]
      <4>1. CASE m = n
        <5>1. [out EXCEPT ![n][d] = q][m] = [out[n] EXCEPT ![d] = q]
          BY <1>1, <4>1
        <5>2. [out[n] EXCEPT ![d] = q][c] = out[n][c]
          BY <1>1, <2>3, <4>1
        <5> QED BY <4>1, <5>1, <5>2
      <4>2. CASE m # n
        BY <1>1, <4>2
      <4> QED BY <4>1, <4>2
    <3> QED BY <2>1, <3>1
  <2> QED BY <2>2, <2>3
<1>3. FromOrIs(Append(out[m][c], p), out[m][c], p)
  BY <1>1, AppendFrom
<1>4. FromOrIs(out[m][c], out[m][c], p)
  BY SameFrom DEF From, FromOrIs
<1> QED BY <1>2, <1>3, <1>4

(* In a step after which routes are as recent as before, what was vouched   *)
(* for still is, and so are new packets that are vouched for.               *)
LEMMA VouchesOn ==
  ASSUME TypeOK, VouchedNow, Forgetful \subseteq Forgetful',
         \A m \in Nodes, x \in Addrs :
            m \in Forgetful' \/ routes'[m][x].ts >= routes[m][x].ts,
         TypeOK'
  PROVE  /\ \A m \in Nodes, c \in Conns : \A i \in 1..Len(out[m][c]) :
               V(m, out[m][c][i], routes', Forgetful')
         /\ SessionsRegistered =>
            \A n \in Nodes : \A i \in 1..Len(incoming[n]) :
               V(Peer(n, incoming[n][i].via), incoming[n][i].pkt, routes', Forgetful')
<1>1. ASSUME NEW m \in Nodes, NEW p \in Packet, V(m, p, routes, Forgetful)
      PROVE  V(m, p, routes', Forgetful')
  <2>1. p.addr \in Addrs /\ p.ts \in Nat
    BY DEF Packet
  <2>2. routes[m][p.addr].ts \in Nat /\ routes'[m][p.addr].ts \in Nat
    <3>1. /\ routes \in [Nodes -> [Addrs -> [ts : Nat, via : Conns \cup {NoConn}]]]
          /\ routes' \in [Nodes -> [Addrs -> [ts : Nat, via : Conns \cup {NoConn}]]]
      BY DEF TypeOK
    <3> QED BY <2>1, <3>1
  <2>3. m \in Forgetful' \/ routes'[m][p.addr].ts >= routes[m][p.addr].ts
    BY <2>1
  <2> QED BY <1>1, <2>1, <2>2, <2>3 DEF V
<1>2. ASSUME NEW m \in Nodes, NEW c \in Conns, NEW i \in 1..Len(out[m][c])
      PROVE  V(m, out[m][c][i], routes', Forgetful')
  <2>1. out[m][c] \in Seq(Packet)
    BY DEF TypeOK
  <2>2. out[m][c][i] \in Packet
    BY <2>1
  <2>3. V(m, out[m][c][i], routes, Forgetful)
    BY DEF VouchedNow
  <2> QED BY <1>1, <2>2, <2>3
<1>3. ASSUME SessionsRegistered, NEW n \in Nodes, NEW i \in 1..Len(incoming[n])
      PROVE  V(Peer(n, incoming[n][i].via), incoming[n][i].pkt, routes', Forgetful')
  <2>1. incoming[n] \in Seq([pkt : Packet, via : Conns])
    BY DEF TypeOK
  <2>2. incoming[n][i] \in [pkt : Packet, via : Conns]
    BY <2>1, ElementType
  <2>3. incoming[n][i].pkt \in Packet
    BY <2>2
  <2>4. Peer(n, incoming[n][i].via) \in Nodes
    <3>1. incoming[n][i].via \in At(n)
      BY <1>3 DEF SessionsRegistered
    <3> QED BY <3>1, PeerFacts
  <2>5. V(Peer(n, incoming[n][i].via), incoming[n][i].pkt, routes, Forgetful)
    BY DEF VouchedNow
  <2> QED BY <1>1, <2>3, <2>4, <2>5
<1> QED BY <1>2, <1>3

(* A node that has just handled a tracer vouches for it: it had, or has     *)
(* learned, a route as recent, unless it ignored the tracer because the     *)
(* session had been removed, and then it is forgetful.                      *)
LEMMA HandledIsVouched ==
  ASSUME TypeOK, SessionsRegistered, NEW n \in Nodes, HandleTracer(n)
  PROVE  V(n, First(n).pkt, routes', Forgetful')
<1> DEFINE p == First(n).pkt
           c == First(n).via
<1>1. /\ p \in Packet /\ p.addr \in Addrs /\ p.ts \in Nat
      /\ c \in At(n) /\ conn[n][c] # "new"
  BY TracerFacts
<1>2. /\ routes' = [routes EXCEPT ![n] = Learn(n, p, c)]
      /\ UNCHANGED <<conn, restarts>>
  BY DEF HandleTracer
<1>3. routes \in [Nodes -> [Addrs -> [ts : Nat, via : Conns \cup {NoConn}]]]
  BY DEF TypeOK
<1> HIDE DEF p, c
<1>4. routes'[n] = Learn(n, p, c)
  BY <1>2, <1>3
<1>5. routes[n] \in [Addrs -> [ts : Nat, via : Conns \cup {NoConn}]]
  BY <1>3
<1>6. CASE n \in DotNet /\ c \notin senders[n]
  <2>1. c \in Conns
    BY <1>1 DEF At
  <2>2. conn[n][c] = "closed"
    <3>1. conn[n][c] # "open"
      BY <1>6, <2>1 DEF SessionsRegistered
    <3>2. conn[n][c] \in {"new", "open", "closed"}
      BY <2>1 DEF TypeOK
    <3> QED BY <1>1, <3>1, <3>2
  <2>3. n \in Forgetful'
    BY <1>2, <1>6, <2>1, <2>2 DEF Forgetful
  <2> QED BY <2>3 DEF V, p
<1>7. CASE ~ (n \in DotNet /\ c \notin senders[n]) /\ p.ts > routes[n][p.addr].ts
  <2>1. Learn(n, p, c) = [routes[n] EXCEPT ![p.addr] = [ts |-> p.ts, via |-> c]]
    BY <1>7 DEF Learn
  <2>2. Learn(n, p, c)[p.addr].ts = p.ts
    BY <1>1, <1>5, <2>1
  <2>3. routes'[n][p.addr].ts >= p.ts
    BY <1>1, <1>4, <2>2
  <2> QED BY <2>3 DEF V, p
<1>8. CASE ~ (p.ts > routes[n][p.addr].ts)
  <2>1. Learn(n, p, c) = routes[n]
    BY <1>8 DEF Learn
  <2>2. routes'[n][p.addr].ts >= p.ts
    BY <1>1, <1>4, <1>5, <1>8, <2>1
  <2> QED BY <2>2 DEF V, p
<1> QED BY <1>6, <1>7, <1>8

LEMMA NextVouched ==
  ASSUME TypeOK, SessionsRegistered, VouchedNow, [Next]_vars, TypeOK',
         Forgetful \subseteq Forgetful',
         \A m \in Nodes, x \in Addrs :
            m \in Forgetful' \/ routes'[m][x].ts >= routes[m][x].ts
  PROVE  VouchedNow'
<1> DEFINE OutV(m, c) == \A i \in 1..Len(out'[m][c]) :
                            V(m, out'[m][c][i], routes', Forgetful')
           InV(n) == \A i \in 1..Len(incoming'[n]) :
                        V(Peer(n, incoming'[n][i].via), incoming'[n][i].pkt,
                          routes', Forgetful')
<1> SUFFICES (\A m \in Nodes, c \in Conns : OutV(m, c)) /\ (\A n \in Nodes : InV(n))
  BY DEF VouchedNow
<1>0. /\ out \in [Nodes -> [Conns -> Seq(Packet)]]
      /\ incoming \in [Nodes -> Seq([pkt : Packet, via : Conns])]
      /\ clock \in [Nodes -> Nat \ {0}]
  BY DEF TypeOK
<1>1. /\ \A m \in Nodes, c \in Conns : \A i \in 1..Len(out[m][c]) :
            V(m, out[m][c][i], routes', Forgetful')
      /\ \A n \in Nodes : \A i \in 1..Len(incoming[n]) :
            V(Peer(n, incoming[n][i].via), incoming[n][i].pkt, routes', Forgetful')
  BY VouchesOn
<1>2. ASSUME NEW m \in Nodes, NEW c \in Conns, From(out'[m][c], out[m][c])
      PROVE  OutV(m, c)
  BY <1>1, <1>2 DEF From
<1>3. ASSUME NEW m \in Nodes, NEW c \in Conns, NEW p,
             FromOrIs(out'[m][c], out[m][c], p), V(m, p, routes', Forgetful')
      PROVE  OutV(m, c)
  BY <1>1, <1>3 DEF FromOrIs
<1>4. ASSUME NEW n \in Nodes, From(incoming'[n], incoming[n])
      PROVE  InV(n)
  BY <1>1, <1>4 DEF From
<1> HIDE DEF OutV, InV
<1>5. ASSUME out' = out
      PROVE  \A m \in Nodes, c \in Conns : OutV(m, c)
  BY <1>2, <1>5, SameFrom
<1>6. ASSUME incoming' = incoming
      PROVE  \A n \in Nodes : InV(n)
  BY <1>4, <1>6, SameFrom
<1>7. ASSUME NEW n \in Nodes, Pop(n)
      PROVE  \A m \in Nodes : InV(m)
  <2>1. incoming' = [incoming EXCEPT ![n] = Tail(incoming[n])] /\ incoming[n] # <<>>
    BY <1>7, PopType
  <2>2. From(Tail(incoming[n]), incoming[n])
    <3>1. incoming[n] \in Seq([pkt : Packet, via : Conns])
      BY <1>0
    <3> QED BY <2>1, <3>1, TailFrom
  <2>3. \A m \in Nodes : From(incoming'[m], incoming[m])
    BY <1>0, <2>1, <2>2, SameFrom
  <2> QED BY <1>4, <2>3
<1>8. ASSUME NEW n \in Nodes, NEW p \in Packet, out' = AfterSend(n, p), p.cmd = "data"
      PROVE  \A m \in Nodes, c \in Conns : OutV(m, c)
  <2> TAKE m \in Nodes, c \in Conns
  <2>1. FromOrIs(out'[m][c], out[m][c], p)
    BY <1>8, SendFrom
  <2>2. V(m, p, routes', Forgetful')
    BY <1>8 DEF V
  <2> QED BY <1>3, <2>1, <2>2
<1>9. ASSUME NEW n \in Nodes, NEW p \in Packet, out' = AfterBroadcast(n, p),
             V(n, p, routes', Forgetful')
      PROVE  \A m \in Nodes, c \in Conns : OutV(m, c)
  <2> TAKE m \in Nodes, c \in Conns
  <2>1. \/ From(out'[m][c], out[m][c])
        \/ m = n /\ FromOrIs(out'[m][c], out[m][c], p)
    BY <1>9, BroadcastFrom
  <2> QED BY <1>2, <1>3, <1>9, <2>1
<1>10. ASSUME NEW n \in Nodes, DropStale(n) \/ DropDuplicate(n)
       PROVE  (\A m \in Nodes, c \in Conns : OutV(m, c)) /\ (\A m \in Nodes : InV(m))
  BY <1>5, <1>7, <1>10 DEF DropStale, DropDuplicate
<1>11. ASSUME NEW n \in Nodes, HandleTracer(n)
       PROVE  (\A m \in Nodes, c \in Conns : OutV(m, c)) /\ (\A m \in Nodes : InV(m))
  <2>1. Pop(n) /\ out' = AfterBroadcast(n, First(n).pkt)
    BY <1>11 DEF HandleTracer, Admit
  <2>2. First(n).pkt \in Packet /\ V(n, First(n).pkt, routes', Forgetful')
    BY <1>11, TracerFacts, HandledIsVouched
  <2> QED BY <1>7, <1>9, <2>1, <2>2
<1>12. ASSUME NEW n \in Nodes, Deliver(n)
       PROVE  (\A m \in Nodes, c \in Conns : OutV(m, c)) /\ (\A m \in Nodes : InV(m))
  BY <1>5, <1>7, <1>12 DEF Deliver, Admit
<1>13. ASSUME NEW n \in Nodes, Relay(n)
       PROVE  (\A m \in Nodes, c \in Conns : OutV(m, c)) /\ (\A m \in Nodes : InV(m))
  <2>1. Pop(n) /\ out' = AfterSend(n, First(n).pkt) /\ First(n).pkt.cmd = "data"
    BY <1>13 DEF Relay, Admit
  <2>2. First(n).pkt \in Packet
    BY <2>1, PopType, FirstType
  <2> QED BY <1>7, <1>8, <2>1, <2>2
<1>14. ASSUME NEW n \in Nodes, Tick(n) \/ CleanBrokenSenders(n)
       PROVE  UNCHANGED <<out, incoming>>
  BY <1>14 DEF Tick, CleanBrokenSenders
<1>15. ASSUME NEW n \in Nodes, Restart(n)
       PROVE  (\A m \in Nodes, c \in Conns : OutV(m, c)) /\ (\A m \in Nodes : InV(m))
  <2>1. out' = out /\ incoming' = [incoming EXCEPT ![n] = <<>>]
    BY <1>15 DEF Restart
  <2>2. \A m \in Nodes : From(incoming'[m], incoming[m])
    BY <1>0, <2>1, SameFrom, EmptyFrom
  <2> QED BY <1>4, <1>5, <2>1, <2>2
<1>16. ASSUME NEW n \in Nodes, NEW x \in Addrs, Announce(n, x)
       PROVE  (\A m \in Nodes, c \in Conns : OutV(m, c)) /\ (\A m \in Nodes : InV(m))
  <2>1. /\ out' = AfterBroadcast(n, Tracer(x, clock[n])) /\ incoming' = incoming
        /\ x \in Owns[n]
    BY <1>16 DEF Announce
  <2>2. Tracer(x, clock[n]) \in Packet
    BY <1>0, TracerType
  <2>3. V(n, Tracer(x, clock[n]), routes', Forgetful')
    BY <2>1 DEF V, Tracer, Owners
  <2> QED BY <1>6, <1>9, <2>1, <2>2, <2>3
<1>17. ASSUME NEW n \in Nodes, NEW x \in Addrs, NEW b \in Payloads,
             NEW i \in 1..MaxReads, TunRead(n, x, b, i)
       PROVE  (\A m \in Nodes, c \in Conns : OutV(m, c)) /\ (\A m \in Nodes : InV(m))
  <2>1. out' = AfterSend(n, IpPacket(x, clock[n], b, i)) /\ incoming' = incoming
    BY <1>17 DEF TunRead
  <2>2. IpPacket(x, clock[n], b, i) \in Packet /\ IpPacket(x, clock[n], b, i).cmd = "data"
    <3>1. clock[n] \in Nat /\ i \in Nat
      BY BoundAssumption, <1>0
    <3> QED BY <3>1, IpPacketType
  <2> QED BY <1>6, <1>8, <2>1, <2>2
<1>18. ASSUME NEW n \in Nodes, NEW c \in Conns, Open(n, c)
       PROVE  UNCHANGED <<out, incoming>>
  BY <1>18 DEF Open
<1>19. ASSUME NEW n \in Nodes, NEW c \in Conns, Receive(n, c)
       PROVE  (\A m \in Nodes, d \in Conns : OutV(m, d)) /\ (\A m \in Nodes : InV(m))
  <2> DEFINE h == Peer(n, c)
             e == [pkt |-> Head(out[h][c]), via |-> c]
  <2>1. /\ out' = [out EXCEPT ![h][c] = Tail(out[h][c])]
        /\ incoming' = [incoming EXCEPT ![n] = Append(incoming[n], e)]
        /\ out[h][c] # <<>>
        /\ c \in At(n)
    BY <1>19 DEF Receive
  <2>2. h \in Nodes
    BY <2>1, PeerFacts
  <2>3. e.via = c /\ e.pkt = Head(out[h][c])
    OBVIOUS
  <2> HIDE DEF h, e
  <2>4. out[h][c] \in Seq(Packet)
    BY <1>0, <2>2
  <2>5. Head(out[h][c]) = out[h][c][1] /\ 1 \in 1..Len(out[h][c])
    BY <2>1, <2>4
  <2>6. From(Tail(out[h][c]), out[h][c])
    BY <2>1, <2>4, TailFrom
  <2>7. \A m \in Nodes, d \in Conns : From(out'[m][d], out[m][d])
    <3>1. \A m \in Nodes, d \in Conns :
            out'[m][d] = IF m = h /\ d = c THEN Tail(out[h][c]) ELSE out[m][d]
      BY <1>0, <2>1, <2>2
    <3> QED BY <2>6, <3>1, SameFrom
  <2>8. V(Peer(n, e.via), e.pkt, routes', Forgetful')
    BY <1>1, <2>2, <2>3, <2>5 DEF h
  <2>9. ASSUME NEW m \in Nodes
        PROVE  InV(m)
    <3>1. CASE m # n
      <4>1. incoming'[m] = incoming[m]
        BY <1>0, <2>1, <3>1
      <4> QED BY <1>4, <4>1, SameFrom
    <3>2. CASE m = n
      <4>1. incoming'[n] = Append(incoming[n], e)
        BY <1>0, <2>1
      <4> DEFINE E == [pkt : Packet, via : Conns]
      <4>2. incoming[n] \in Seq(E)
        BY <1>0
      <4>3. e \in E
        <5>1. Head(out[h][c]) \in Packet
          BY <2>1, <2>4
        <5> QED BY <5>1 DEF e
      <4> HIDE DEF E
      <4>4. FromOrIs(incoming'[n], incoming[n], e)
        BY <4>1, <4>2, <4>3, AppendFrom
      <4> QED BY <1>1, <2>8, <3>2, <4>4 DEF FromOrIs, InV
    <3> QED BY <3>1, <3>2
  <2> QED BY <1>2, <2>7, <2>9
<1>20. ASSUME NEW n \in Nodes, NEW c \in Conns, NEW k \in 0..Len(out[n][c]),
              CloseRust(n, c, k) \/ CloseDotNet(n, c, k)
       PROVE  (\A m \in Nodes, d \in Conns : OutV(m, d)) /\ (\A m \in Nodes : InV(m))
  <2> DEFINE h == Peer(n, c)
  <2>1. /\ out' = [out EXCEPT ![n][c] = SubSeq(out[n][c], 1, k), ![h][c] = <<>>]
        /\ incoming' = incoming
        /\ c \in At(n)
    BY <1>20 DEF CloseRust, CloseDotNet, EndSession
  <2>2. h \in Nodes /\ h # n
    BY <2>1, PeerFacts
  <2> HIDE DEF h
  <2>3. From(SubSeq(out[n][c], 1, k), out[n][c])
    <3>1. out[n][c] \in Seq(Packet)
      BY <1>0
    <3> QED BY <3>1, PrefixFrom
  <2>4. \A m \in Nodes, d \in Conns :
          out'[m][d] = IF m = n /\ d = c THEN SubSeq(out[n][c], 1, k)
                       ELSE IF m = h /\ d = c THEN <<>> ELSE out[m][d]
    BY <1>0, <2>1, <2>2
  <2>5. \A m \in Nodes, d \in Conns : From(out'[m][d], out[m][d])
    BY <2>3, <2>4, SameFrom, EmptyFrom
  <2> QED BY <1>2, <1>6, <2>1, <2>5
<1>21. CASE UNCHANGED vars
  BY <1>5, <1>6, <1>21 DEF vars
<1> QED
  BY <1>5, <1>6, <1>10, <1>11, <1>12, <1>13, <1>14, <1>15, <1>16, <1>17, <1>18,
     <1>19, <1>20, <1>21
  DEF Next, Process

-----------------------------------------------------------------------------
(* The inductive invariant.  Absence of loops is not inductive: a step that *)
(* learns a route is safe only because the neighbour that sent the tracer   *)
(* is ahead of the learner (TracersAreVouchedFor), and so are the nodes     *)
(* behind that neighbour (NextHopIsAhead).                                  *)
IInv ==
  /\ TypeOK
  /\ SessionsRegistered
  /\ TracersAreVouchedFor
  /\ NextHopIsAhead
  /\ LoopFree

LEMMA InitIInv == Init => IInv
<1> SUFFICES ASSUME Init PROVE IInv
  OBVIOUS
<1>1. TypeOK /\ SessionsRegistered
  BY InitType
<1>2. /\ \A m \in Nodes, c \in Conns : out[m][c] = <<>>
      /\ \A n \in Nodes : incoming[n] = <<>>
      /\ \A n \in Nodes, x \in Addrs : routes[n][x] = NoRoute
  BY DEF Init
<1>3. Len(<<>>) = 0
  OBVIOUS
<1>4. TracersAreVouchedFor
  BY <1>2, <1>3 DEF TracersAreVouchedFor
<1>5. \A n \in Nodes, x \in Addrs : ~ HasRoute(n, x)
  BY <1>2 DEF HasRoute, NoRoute
<1>6. NextHopIsAhead /\ LoopFree
  BY <1>5 DEF NextHopIsAhead, LoopFree
<1> QED BY <1>1, <1>4, <1>6 DEF IInv

LEMMA NextIInv == IInv /\ [Next]_vars => IInv'
<1> SUFFICES ASSUME IInv, [Next]_vars PROVE IInv'
  OBVIOUS
<1>1. /\ TypeOK /\ SessionsRegistered /\ VouchedNow /\ NextHopIsAhead /\ LoopFree
  BY VouchedNowIsVouched DEF IInv
<1>2. TypeOK' /\ SessionsRegistered'
  BY <1>1, NextType, NextSessions
<1>3. Forgetful \subseteq Forgetful'
  BY <1>1, ForgetfulGrows
<1>4. /\ NextHopIsAhead' /\ LoopFree'
      /\ \A m \in Nodes, x \in Addrs :
            m \in Forgetful' \/ routes'[m][x].ts >= routes[m][x].ts
  BY <1>1, NextRoutes
<1>5. VouchedNow'
  BY <1>1, <1>2, <1>3, <1>4, NextVouched
<1>6. TracersAreVouchedFor'
  BY <1>5 DEF TracersAreVouchedFor, VouchedNow, Vouches, V
<1> QED BY <1>2, <1>4, <1>6 DEF IInv

LEMMA IInvAlways == Spec => []IInv
  BY InitIInv, NextIInv, PTL DEF Spec

(* Every state of a mesh of any size is well typed: no queue, route or      *)
(* filter of a node ever holds anything else, and the duplicate filter      *)
(* stays within its capacity (SeenPackets::add).                            *)
THEOREM TypeCorrect == Spec => []TypeOK
<1>1. IInv => TypeOK
  BY DEF IInv
<1> QED BY <1>1, IInvAlways, PTL

(* In a mesh of any size and shape, the routes that the tracer handlers     *)
(* learn (AddFastestTo, Routing.Learn) never form a loop of nodes that have *)
(* not forgotten a route.                                                   *)
THEOREM NoLoops == Spec => []LoopFree
<1>1. IInv => LoopFree
  BY DEF IInv
<1> QED BY <1>1, IInvAlways, PTL

(* The neighbour a route leads to always has a route at least as recent.    *)
THEOREM RoutesLeadAhead == Spec => []NextHopIsAhead
<1>1. IInv => NextHopIsAhead
  BY DEF IInv
<1> QED BY <1>1, IInvAlways, PTL

(* A tracer on its way is always vouched for by the node that sent it.      *)
THEOREM TracersVouched == Spec => []TracersAreVouchedFor
<1>1. IInv => TracersAreVouchedFor
  BY DEF IInv
<1> QED BY <1>1, IInvAlways, PTL

-----------------------------------------------------------------------------
(* Routes over removed peers.  In every step but a restart, the sessions a  *)
(* .NET node has registered only lose the one it closes, and the routes     *)
(* that use it go with it.                                                  *)
LEMMA NextNoDeadRoutes ==
  TypeOK /\ SessionsRegistered /\ NoDeadRoutes /\ [Next]_vars => NoDeadRoutes'
<1> SUFFICES ASSUME TypeOK, SessionsRegistered, NoDeadRoutes, [Next]_vars
             PROVE  NoDeadRoutes'
  OBVIOUS
<1>0. /\ routes \in [Nodes -> [Addrs -> [ts : Nat, via : Conns \cup {NoConn}]]]
      /\ senders \in [Nodes -> SUBSET Conns]
      /\ NoRoute.ts = 0
      /\ DotNet \subseteq Nodes
  BY TopologyAssumption DEF TypeOK, NoRoute
<1>1. \A n \in DotNet, x \in Addrs : routes[n][x].ts > 0 => routes[n][x].via \in senders[n]
  BY DEF NoDeadRoutes, HasRoute
<1>2. SUFFICES \A n \in DotNet, x \in Addrs :
                 routes'[n][x].ts > 0 => routes'[n][x].via \in senders'[n]
  BY <1>2 DEF NoDeadRoutes, HasRoute
<1>3. ASSUME routes' = routes, \A n \in DotNet : senders[n] \subseteq senders'[n]
      PROVE  \A n \in DotNet, x \in Addrs :
               routes'[n][x].ts > 0 => routes'[n][x].via \in senders'[n]
  BY <1>1, <1>3
<1>4. ASSUME NEW n \in Nodes, HandleTracer(n)
      PROVE  \A m \in DotNet, x \in Addrs :
               routes'[m][x].ts > 0 => routes'[m][x].via \in senders'[m]
  <2> DEFINE p == First(n).pkt
             c == First(n).via
  <2>1. /\ routes' = [routes EXCEPT ![n] = Learn(n, p, c)] /\ senders' = senders
    BY <1>4 DEF HandleTracer
  <2>2. p.addr \in Addrs /\ p.ts \in Nat
    BY <1>4, TracerFacts
  <2> HIDE DEF p, c
  <2>3. ASSUME NEW x \in Addrs, n \in DotNet, Learn(n, p, c)[x].ts > 0
        PROVE  Learn(n, p, c)[x].via \in senders[n]
    <3>0. routes[n] \in [Addrs -> [ts : Nat, via : Conns \cup {NoConn}]]
      BY <1>0
    <3>1. CASE Learn(n, p, c) = routes[n]
      BY <1>1, <2>3, <3>1
    <3>2. CASE Learn(n, p, c) # routes[n]
      <4>1. /\ Learn(n, p, c) = [routes[n] EXCEPT ![p.addr] = [ts |-> p.ts, via |-> c]]
            /\ c \in senders[n]
        BY <2>3, <3>2 DEF Learn
      <4>2. CASE x = p.addr
        BY <3>0, <4>1, <4>2
      <4>3. CASE x # p.addr
        <5>1. Learn(n, p, c)[x] = routes[n][x]
          BY <3>0, <4>1, <4>3
        <5> QED BY <1>1, <2>3, <5>1
      <4> QED BY <4>2, <4>3
    <3> QED BY <3>1, <3>2
  <2>4. \A m \in DotNet : m # n => routes'[m] = routes[m]
    BY <1>0, <2>1
  <2>5. routes'[n] = Learn(n, p, c)
    BY <1>0, <2>1
  <2> QED BY <1>1, <2>1, <2>3, <2>4, <2>5
<1>5. ASSUME NEW n \in Nodes, NEW c \in Conns, NEW k \in 0..Len(out[n][c]),
             CloseDotNet(n, c, k)
      PROVE  \A m \in DotNet, x \in Addrs :
               routes'[m][x].ts > 0 => routes'[m][x].via \in senders'[m]
  <2>1. /\ routes' = [routes EXCEPT ![n] = DropRoutes(n, c)]
        /\ senders' = [senders EXCEPT ![n] = senders[n] \ {c}]
    BY <1>5 DEF CloseDotNet
  <2>2. \A m \in DotNet : m # n => routes'[m] = routes[m] /\ senders'[m] = senders[m]
    BY <1>0, <2>1
  <2>3. routes'[n] = DropRoutes(n, c) /\ senders'[n] = senders[n] \ {c}
    BY <1>0, <2>1
  <2>4. \A x \in Addrs : DropRoutes(n, c)[x].ts > 0 =>
          /\ DropRoutes(n, c)[x].via = routes[n][x].via
          /\ routes[n][x].ts > 0 /\ routes[n][x].via # c
    BY <1>0 DEF DropRoutes
  <2> QED BY <1>1, <2>2, <2>3, <2>4
<1>6. ASSUME NEW n \in Nodes, Restart(n)
      PROVE  \A m \in DotNet, x \in Addrs :
               routes'[m][x].ts > 0 => routes'[m][x].via \in senders'[m]
  <2>1. /\ routes' = [routes EXCEPT ![n] = [x \in Addrs |-> NoRoute]]
        /\ senders' = [senders EXCEPT ![n] = {}]
    BY <1>6 DEF Restart
  <2>2. \A m \in DotNet : m # n => routes'[m] = routes[m] /\ senders'[m] = senders[m]
    BY <1>0, <2>1
  <2>3. \A x \in Addrs : routes'[n][x].ts = 0
    BY <1>0, <2>1
  <2> QED BY <1>1, <2>2, <2>3
<1>7. ASSUME NEW n \in Nodes, CleanBrokenSenders(n)
      PROVE  routes' = routes /\ \A m \in DotNet : senders[m] \subseteq senders'[m]
  <2>1. /\ routes' = routes /\ n \notin DotNet
        /\ senders' = [senders EXCEPT ![n] = {c \in senders[n] : conn[n][c] = "open"}]
    BY <1>7 DEF CleanBrokenSenders
  <2> QED BY <1>0, <2>1
<1>8. ASSUME NEW n \in Nodes, NEW c \in Conns, Open(n, c)
      PROVE  routes' = routes /\ \A m \in DotNet : senders[m] \subseteq senders'[m]
  <2>1. routes' = routes /\ senders' = [senders EXCEPT ![n] = senders[n] \cup {c}]
    BY <1>8 DEF Open
  <2> QED BY <1>0, <2>1
<1>9. ASSUME NEW n \in Nodes,
             DropStale(n) \/ DropDuplicate(n) \/ Deliver(n) \/ Relay(n) \/ Tick(n)
      PROVE  routes' = routes /\ senders' = senders
  BY <1>9 DEF DropStale, DropDuplicate, Deliver, Relay, Tick
<1>10. ASSUME NEW n \in Nodes, NEW c \in Conns, NEW k \in 0..Len(out[n][c]),
              CloseRust(n, c, k)
       PROVE  routes' = routes /\ senders' = senders
  BY <1>10 DEF CloseRust
<1>11. ASSUME NEW n \in Nodes, NEW c \in Conns, Receive(n, c)
       PROVE  routes' = routes /\ senders' = senders
  BY <1>11 DEF Receive
<1>12. ASSUME NEW n \in Nodes, NEW x \in Addrs, Announce(n, x)
       PROVE  routes' = routes /\ senders' = senders
  BY <1>12 DEF Announce
<1>13. ASSUME NEW n \in Nodes, NEW x \in Addrs, NEW b \in Payloads,
             NEW i \in 1..MaxReads, TunRead(n, x, b, i)
       PROVE  routes' = routes /\ senders' = senders
  BY <1>13 DEF TunRead
<1>14. CASE UNCHANGED vars
  BY <1>3, <1>14 DEF vars
<1> QED
  BY <1>3, <1>4, <1>5, <1>6, <1>7, <1>8, <1>9, <1>10, <1>11, <1>12, <1>13, <1>14
  DEF Next, Process

(* A .NET node never has a route over a peer it has removed, whatever is    *)
(* still queued from that peer (Routing.Learn, Routing.Remove).             *)
THEOREM RemovedPeersCarryNoRoute == Spec => []NoDeadRoutes
<1>1. Init => NoDeadRoutes
  BY TopologyAssumption DEF Init, NoDeadRoutes, HasRoute, NoRoute
<1>2. IInv /\ NoDeadRoutes /\ [Next]_vars => NoDeadRoutes'
  BY NextNoDeadRoutes DEF IInv
<1> QED BY <1>1, <1>2, IInvAlways, PTL DEF Spec

-----------------------------------------------------------------------------
(* IP packets are not duplicated                                            *)

(* A packet in a sequence of packets, and in a queue of packets with the    *)
(* session each came from.                                                  *)
Has(q, p) == \E i \in 1..Len(q) : q[i] = p
Once(q, p) == \A i, j \in 1..Len(q) : q[i] = p /\ q[j] = p => i = j
HasPkt(q, p) == \E i \in 1..Len(q) : q[i].pkt = p
OncePkt(q, p) == \A i, j \in 1..Len(q) : q[i].pkt = p /\ q[j].pkt = p => i = j

(* p is in at most one place of the links o, the queues q and the TUN       *)
(* devices d.                                                               *)
Lone(p, o, q, d) ==
  /\ \A m \in Nodes, c \in Conns : Once(o[m][c], p)
  /\ \A n \in Nodes : OncePkt(q[n], p) /\ Once(d[n], p)
  /\ \A m, k \in Nodes, c, e \in Conns :
        Has(o[m][c], p) /\ Has(o[k][e], p) => m = k /\ c = e
  /\ \A m, k \in Nodes : HasPkt(q[m], p) /\ HasPkt(q[k], p) => m = k
  /\ \A m, k \in Nodes : Has(d[m], p) /\ Has(d[k], p) => m = k
  /\ \A m, k \in Nodes, c \in Conns :
        Has(o[m][c], p) => ~ HasPkt(q[k], p) /\ ~ Has(d[k], p)
  /\ \A m, k \in Nodes : HasPkt(q[m], p) => ~ Has(d[k], p)

Somewhere(p, o, q, d) ==
  \/ \E m \in Nodes, c \in Conns : Has(o[m][c], p)
  \/ \E n \in Nodes : HasPkt(q[n], p) \/ Has(d[n], p)

LEMMA AppendHas ==
  ASSUME NEW T, NEW q \in Seq(T), NEW x \in T, NEW p
  PROVE  /\ Has(Append(q, x), p) <=> Has(q, p) \/ x = p
         /\ Once(q, p) /\ (x = p => ~ Has(q, p)) => Once(Append(q, x), p)
<1>1. /\ Len(Append(q, x)) = Len(q) + 1 /\ Len(q) \in Nat
      /\ \A i \in 1..Len(q) : Append(q, x)[i] = q[i]
      /\ Append(q, x)[Len(q) + 1] = x
  OBVIOUS
<1> QED BY <1>1 DEF Has, Once

LEMMA AppendHasPkt ==
  ASSUME NEW T, NEW q \in Seq(T), NEW x \in T, NEW p
  PROVE  /\ HasPkt(Append(q, x), p) <=> HasPkt(q, p) \/ x.pkt = p
         /\ OncePkt(q, p) /\ (x.pkt = p => ~ HasPkt(q, p)) => OncePkt(Append(q, x), p)
<1>1. /\ Len(Append(q, x)) = Len(q) + 1 /\ Len(q) \in Nat
      /\ \A i \in 1..Len(q) : Append(q, x)[i] = q[i]
      /\ Append(q, x)[Len(q) + 1] = x
  OBVIOUS
<1> QED BY <1>1 DEF HasPkt, OncePkt

LEMMA TailHas ==
  ASSUME NEW T, NEW q \in Seq(T), q # <<>>, NEW p
  PROVE  /\ Has(Tail(q), p) => Has(q, p)
         /\ Once(q, p) => Once(Tail(q), p)
         /\ Has(q, Head(q))
         /\ Once(q, p) /\ Head(q) = p => ~ Has(Tail(q), p)
<1>1. /\ Len(Tail(q)) = Len(q) - 1 /\ Len(q) \in Nat \ {0} /\ Head(q) = q[1]
      /\ \A i \in 1..(Len(q) - 1) : Tail(q)[i] = q[i + 1]
  OBVIOUS
<1>2. /\ 1 \in 1..Len(q)
      /\ \A i \in 1..(Len(q) - 1) : i + 1 \in 1..Len(q) /\ i + 1 # 1
  BY <1>1
<1>3. Once(q, p) => Once(Tail(q), p)
  BY <1>1, <1>2 DEF Once
<1> QED BY <1>1, <1>2, <1>3 DEF Has, Once

LEMMA TailHasPkt ==
  ASSUME NEW T, NEW q \in Seq(T), q # <<>>, NEW p
  PROVE  /\ HasPkt(Tail(q), p) => HasPkt(q, p)
         /\ OncePkt(q, p) => OncePkt(Tail(q), p)
         /\ HasPkt(q, Head(q).pkt)
         /\ OncePkt(q, p) /\ Head(q).pkt = p => ~ HasPkt(Tail(q), p)
<1>1. /\ Len(Tail(q)) = Len(q) - 1 /\ Len(q) \in Nat \ {0} /\ Head(q) = q[1]
      /\ \A i \in 1..(Len(q) - 1) : Tail(q)[i] = q[i + 1]
  OBVIOUS
<1>2. /\ 1 \in 1..Len(q)
      /\ \A i \in 1..(Len(q) - 1) : i + 1 \in 1..Len(q) /\ i + 1 # 1
  BY <1>1
<1>3. OncePkt(q, p) => OncePkt(Tail(q), p)
  BY <1>1, <1>2 DEF OncePkt
<1> QED BY <1>1, <1>2, <1>3 DEF HasPkt, OncePkt

LEMMA PrefixHas ==
  ASSUME NEW T, NEW q \in Seq(T), NEW k \in 0..Len(q), NEW p
  PROVE  /\ Has(SubSeq(q, 1, k), p) => Has(q, p)
         /\ Once(q, p) => Once(SubSeq(q, 1, k), p)
  BY PrefixFacts DEF Has, Once

LEMMA EmptyHas ==
  ASSUME NEW p
  PROVE  ~ Has(<<>>, p) /\ Once(<<>>, p) /\ ~ HasPkt(<<>>, p) /\ OncePkt(<<>>, p)
  BY DEF Has, Once, HasPkt, OncePkt

(* Fewer places than before.                                                *)
LEMMA FewerPlaces ==
  ASSUME NEW p, NEW o, NEW q, NEW d, NEW o2, NEW q2, NEW d2, Lone(p, o, q, d),
         \A m \in Nodes, c \in Conns :
            (Has(o2[m][c], p) => Has(o[m][c], p)) /\ Once(o2[m][c], p),
         \A n \in Nodes :
            (HasPkt(q2[n], p) => HasPkt(q[n], p)) /\ OncePkt(q2[n], p),
         \A n \in Nodes : (Has(d2[n], p) => Has(d[n], p)) /\ Once(d2[n], p)
  PROVE  /\ Lone(p, o2, q2, d2)
         /\ Somewhere(p, o2, q2, d2) => Somewhere(p, o, q, d)
  BY DEF Lone, Somewhere

(* What SendToFastest and SendToAll append.                                 *)
LEMMA SendEffect ==
  ASSUME TypeOK, NEW n \in Nodes, NEW p \in Packet
  PROVE  \/ AfterSend(n, p) = out
         \/ \E d \in Conns : \A m \in Nodes, c \in Conns :
               AfterSend(n, p)[m][c] =
                 IF m = n /\ c = d THEN Append(out[m][c], p) ELSE out[m][c]
<1> DEFINE d == routes[n][p.addr].via
<1>1. CASE HasRoute(n, p.addr) /\ Live(n, d)
  <2>1. p.addr \in Addrs
    BY DEF Packet
  <2>2. d \in Conns
    BY <1>1, <2>1 DEF TypeOK, At
  <2>3. AfterSend(n, p) = [out EXCEPT ![n][d] = Append(out[n][d], p)]
    BY <1>1 DEF AfterSend
  <2> HIDE DEF d
  <2>4. out \in [Nodes -> [Conns -> Seq(Packet)]]
    BY DEF TypeOK
  <2>5. \A m \in Nodes, c \in Conns :
           AfterSend(n, p)[m][c] =
             IF m = n /\ c = d THEN Append(out[m][c], p) ELSE out[m][c]
    BY <2>2, <2>3, <2>4
  <2> QED BY <2>2, <2>5
<1>2. CASE ~ (HasRoute(n, p.addr) /\ Live(n, d))
  BY <1>2 DEF AfterSend
<1> QED BY <1>1, <1>2

LEMMA BroadcastEffect ==
  ASSUME TypeOK, NEW n \in Nodes, NEW p \in Packet,
         NEW m \in Nodes, NEW c \in Conns
  PROVE  AfterBroadcast(n, p)[m][c] =
            IF m = n /\ c \in senders[n] /\ Live(n, c) THEN Append(out[m][c], p)
                                                       ELSE out[m][c]
  BY DEF TypeOK, AfterBroadcast

(* Flooding a tracer adds no IP packet.                                     *)
LEMMA BroadcastHas ==
  ASSUME TypeOK, NEW n \in Nodes, NEW x \in Packet, NEW p, p # x,
         NEW m \in Nodes, NEW c \in Conns
  PROVE  /\ Has(AfterBroadcast(n, x)[m][c], p) => Has(out[m][c], p)
         /\ Once(out[m][c], p) => Once(AfterBroadcast(n, x)[m][c], p)
<1>1. out[m][c] \in Seq(Packet)
  BY DEF TypeOK
<1> QED BY <1>1, BroadcastEffect, AppendHas

(* A node sends on a packet that is nowhere but at the place it is taken    *)
(* from: it is then in one link, or gone.                                   *)
LEMMA SentIsLone ==
  ASSUME TypeOK, NEW n \in Nodes, NEW p \in Packet, NEW q, NEW d,
         \A m \in Nodes, c \in Conns : ~ Has(out[m][c], p),
         \A m \in Nodes : ~ HasPkt(q[m], p) /\ ~ Has(d[m], p)
  PROVE  Lone(p, AfterSend(n, p), q, d)
<1>0. \A m \in Nodes, c \in Conns : out[m][c] \in Seq(Packet)
  BY DEF TypeOK
<1>1. /\ \A m \in Nodes, c \in Conns : Once(out[m][c], p)
      /\ \A m \in Nodes : OncePkt(q[m], p) /\ Once(d[m], p)
  BY DEF Has, Once, HasPkt, OncePkt
<1>2. CASE AfterSend(n, p) = out
  BY <1>1, <1>2 DEF Lone
<1>3. ASSUME NEW e \in Conns,
             \A m \in Nodes, c \in Conns : AfterSend(n, p)[m][c] =
                IF m = n /\ c = e THEN Append(out[m][c], p) ELSE out[m][c]
      PROVE  Lone(p, AfterSend(n, p), q, d)
  <2>1. \A m \in Nodes, c \in Conns :
           /\ Has(AfterSend(n, p)[m][c], p) => m = n /\ c = e
           /\ Once(AfterSend(n, p)[m][c], p)
    BY <1>0, <1>1, <1>3, AppendHas
  <2> QED BY <1>1, <2>1 DEF Lone
<1> QED BY <1>2, <1>3, SendEffect

(* Sending on another packet.                                               *)
LEMMA SendHas ==
  ASSUME TypeOK, NEW n \in Nodes, NEW x \in Packet, NEW p, p # x,
         NEW m \in Nodes, NEW c \in Conns
  PROVE  /\ Has(AfterSend(n, x)[m][c], p) => Has(out[m][c], p)
         /\ Once(out[m][c], p) => Once(AfterSend(n, x)[m][c], p)
<1>1. out[m][c] \in Seq(Packet)
  BY DEF TypeOK
<1>2. CASE AfterSend(n, x) = out
  BY <1>2
<1>3. ASSUME NEW d \in Conns,
             \A k \in Nodes, e \in Conns : AfterSend(n, x)[k][e] =
                IF k = n /\ e = d THEN Append(out[k][e], x) ELSE out[k][e]
      PROVE  /\ Has(AfterSend(n, x)[m][c], p) => Has(out[m][c], p)
             /\ Once(out[m][c], p) => Once(AfterSend(n, x)[m][c], p)
  <2>1. AfterSend(n, x)[m][c] = out[m][c] \/ AfterSend(n, x)[m][c] = Append(out[m][c], x)
    BY <1>3
  <2>2. /\ Has(Append(out[m][c], x), p) => Has(out[m][c], p)
        /\ Once(out[m][c], p) => Once(Append(out[m][c], x), p)
    BY <1>1, AppendHas
  <2> QED BY <2>1, <2>2
<1> QED BY <1>2, <1>3, SendEffect

(* The main loop takes a packet off its queue.                              *)
LEMMA PopHas ==
  ASSUME TypeOK, NEW n \in Nodes, Pop(n), NEW p, Lone(p, out, incoming, delivered)
  PROVE  /\ \A m \in Nodes : /\ HasPkt(incoming'[m], p) => HasPkt(incoming[m], p)
                             /\ OncePkt(incoming'[m], p)
         /\ First(n).pkt = p =>
              /\ HasPkt(incoming[n], p)
              /\ \A m \in Nodes, c \in Conns : ~ Has(out[m][c], p)
              /\ \A m \in Nodes : ~ HasPkt(incoming'[m], p) /\ ~ Has(delivered[m], p)
<1>1. incoming' = [incoming EXCEPT ![n] = Tail(incoming[n])] /\ incoming[n] # <<>>
  BY PopType
<1>2. \A m \in Nodes : incoming'[m] = IF m = n THEN Tail(incoming[m]) ELSE incoming[m]
  BY <1>1 DEF TypeOK
<1>3. incoming[n] \in Seq([pkt : Packet, via : Conns])
  BY DEF TypeOK
<1>4. /\ HasPkt(Tail(incoming[n]), p) => HasPkt(incoming[n], p)
      /\ OncePkt(incoming[n], p) => OncePkt(Tail(incoming[n]), p)
      /\ HasPkt(incoming[n], First(n).pkt)
      /\ OncePkt(incoming[n], p) /\ First(n).pkt = p => ~ HasPkt(Tail(incoming[n]), p)
  BY <1>1, <1>3, TailHasPkt DEF First
<1>5. \A m \in Nodes : OncePkt(incoming[m], p)
  BY DEF Lone
<1>6. \A m \in Nodes : /\ HasPkt(incoming'[m], p) => HasPkt(incoming[m], p)
                       /\ OncePkt(incoming'[m], p)
  BY <1>2, <1>4, <1>5
<1>7. ASSUME First(n).pkt = p
      PROVE  /\ HasPkt(incoming[n], p)
             /\ \A m \in Nodes, c \in Conns : ~ Has(out[m][c], p)
             /\ \A m \in Nodes : ~ HasPkt(incoming'[m], p) /\ ~ Has(delivered[m], p)
  <2>1. HasPkt(incoming[n], p) /\ ~ HasPkt(Tail(incoming[n]), p)
    BY <1>4, <1>5, <1>7
  <2> QED BY <1>2, <2>1 DEF Lone
<1> QED BY <1>6, <1>7

(* An IP packet is in at most one place, and was read from a TUN interface. *)
Tracked(p) == /\ Lone(p, out, incoming, delivered)
              /\ Somewhere(p, out, incoming, delivered) => p \in sent

IpInv == /\ \A p \in sent : p.cmd = "data"
         /\ \A p \in Packet : p.cmd = "data" => Tracked(p)

LEMMA NextTracked ==
  ASSUME TypeOK, SessionsRegistered, [Next]_vars,
         NEW p \in Packet, p.cmd = "data", Tracked(p)
  PROVE  Tracked(p)'
<1> DEFINE Less == \A m \in Nodes, c \in Conns :
                      /\ Has(out'[m][c], p) => Has(out[m][c], p)
                      /\ Once(out'[m][c], p)
           LessIn == \A n \in Nodes :
                      /\ HasPkt(incoming'[n], p) => HasPkt(incoming[n], p)
                      /\ OncePkt(incoming'[n], p)
<1> SUFFICES /\ Lone(p, out', incoming', delivered')
             /\ Somewhere(p, out', incoming', delivered') => p \in sent'
  BY DEF Tracked
<1>0. /\ Lone(p, out, incoming, delivered)
      /\ Somewhere(p, out, incoming, delivered) => p \in sent
  BY DEF Tracked
<1>1. /\ \A m \in Nodes, c \in Conns : Once(out[m][c], p)
      /\ \A n \in Nodes : OncePkt(incoming[n], p) /\ Once(delivered[n], p)
  BY <1>0 DEF Lone
<1>2. out' = out => Less
  BY <1>1
<1>3. incoming' = incoming => LessIn
  BY <1>1
<1>4. ASSUME Less, LessIn, delivered' = delivered, sent \subseteq sent'
      PROVE  /\ Lone(p, out', incoming', delivered')
             /\ Somewhere(p, out', incoming', delivered') => p \in sent'
  BY <1>0, <1>1, <1>4, FewerPlaces
<1> HIDE DEF Less, LessIn
<1>5. ASSUME NEW n \in Nodes, DropStale(n) \/ DropDuplicate(n)
      PROVE  Less /\ LessIn /\ delivered' = delivered /\ sent' = sent
  BY <1>0, <1>2, <1>5, PopHas DEF DropStale, DropDuplicate, LessIn
<1>6. ASSUME NEW n \in Nodes, HandleTracer(n)
      PROVE  Less /\ LessIn /\ delivered' = delivered /\ sent' = sent
  <2>1. Pop(n) /\ out' = AfterBroadcast(n, First(n).pkt) /\ First(n).pkt.cmd = "tracer"
        /\ delivered' = delivered /\ sent' = sent
    BY <1>6 DEF HandleTracer, Admit
  <2>2. First(n).pkt \in Packet /\ First(n).pkt # p
    BY <1>6, <2>1, TracerFacts
  <2>3. Less
    BY <1>1, <2>1, <2>2, BroadcastHas DEF Less
  <2> QED BY <1>0, <2>1, <2>3, PopHas DEF LessIn
<1>7. ASSUME NEW n \in Nodes, Deliver(n)
      PROVE  /\ Lone(p, out', incoming', delivered')
             /\ Somewhere(p, out', incoming', delivered') => p \in sent'
  <2>1. Pop(n) /\ out' = out /\ sent' = sent
        /\ delivered' = [delivered EXCEPT ![n] = Append(delivered[n], First(n).pkt)]
    BY <1>7 DEF Deliver, Admit
  <2>2. First(n).pkt \in Packet
    BY <2>1, PopType, FirstType
  <2>3. \A m \in Nodes : delivered[m] \in Seq(Packet) /\
           delivered'[m] = IF m = n THEN Append(delivered[m], First(n).pkt) ELSE delivered[m]
    BY <2>1 DEF TypeOK
  <2>4. CASE First(n).pkt # p
    <3>1. \A m \in Nodes : (Has(delivered'[m], p) => Has(delivered[m], p)) /\ Once(delivered'[m], p)
      BY <1>1, <2>2, <2>3, <2>4, AppendHas
    <3>2. \A m \in Nodes : /\ HasPkt(incoming'[m], p) => HasPkt(incoming[m], p)
                           /\ OncePkt(incoming'[m], p)
      BY <1>0, <2>1, PopHas
    <3> QED BY <1>0, <1>1, <2>1, <3>1, <3>2, FewerPlaces
  <2>5. CASE First(n).pkt = p
    <3>1. /\ \A m \in Nodes, c \in Conns : ~ Has(out[m][c], p)
          /\ \A m \in Nodes : ~ HasPkt(incoming'[m], p) /\ ~ Has(delivered[m], p)
                              /\ OncePkt(incoming'[m], p)
          /\ p \in sent
      BY <1>0, <2>1, <2>5, PopHas DEF Somewhere
    <3>2. \A m \in Nodes : (Has(delivered'[m], p) => m = n) /\ Once(delivered'[m], p)
      BY <1>1, <2>2, <2>3, <2>5, <3>1, AppendHas
    <3> QED BY <1>1, <2>1, <3>1, <3>2 DEF Lone
  <2> QED BY <2>4, <2>5
<1>8. ASSUME NEW n \in Nodes, Relay(n)
      PROVE  /\ Lone(p, out', incoming', delivered')
             /\ Somewhere(p, out', incoming', delivered') => p \in sent'
  <2>1. Pop(n) /\ out' = AfterSend(n, First(n).pkt) /\ sent' = sent
        /\ delivered' = delivered
    BY <1>8 DEF Relay, Admit
  <2>2. First(n).pkt \in Packet
    BY <2>1, PopType, FirstType
  <2>3. CASE First(n).pkt # p
    <3>1. Less
      BY <1>1, <2>1, <2>2, <2>3, SendHas DEF Less
    <3> QED BY <1>0, <1>4, <2>1, <3>1, PopHas DEF LessIn
  <2>4. CASE First(n).pkt = p
    <3>1. /\ \A m \in Nodes, c \in Conns : ~ Has(out[m][c], p)
          /\ \A m \in Nodes : ~ HasPkt(incoming'[m], p) /\ ~ Has(delivered[m], p)
          /\ p \in sent
      BY <1>0, <2>1, <2>4, PopHas DEF Somewhere
    <3> QED BY <2>1, <2>2, <2>4, <3>1, SentIsLone
  <2> QED BY <2>3, <2>4
<1>9. ASSUME NEW n \in Nodes, Tick(n) \/ CleanBrokenSenders(n)
      PROVE  Less /\ LessIn /\ delivered' = delivered /\ sent' = sent
  BY <1>2, <1>3, <1>9 DEF Tick, CleanBrokenSenders
<1>10. ASSUME NEW n \in Nodes, Restart(n)
       PROVE  Less /\ LessIn /\ delivered' = delivered /\ sent' = sent
  <2>1. out' = out /\ incoming' = [incoming EXCEPT ![n] = <<>>]
        /\ delivered' = delivered /\ sent' = sent
    BY <1>10 DEF Restart
  <2>2. \A m \in Nodes : incoming'[m] = IF m = n THEN <<>> ELSE incoming[m]
    BY <2>1 DEF TypeOK
  <2>3. LessIn
    BY <1>1, <2>2, EmptyHas DEF LessIn
  <2> QED BY <1>2, <2>1, <2>3
<1>11. ASSUME NEW n \in Nodes, NEW x \in Addrs, Announce(n, x)
       PROVE  Less /\ LessIn /\ delivered' = delivered /\ sent' = sent
  <2>1. /\ out' = AfterBroadcast(n, Tracer(x, clock[n])) /\ incoming' = incoming
        /\ delivered' = delivered /\ sent' = sent
    BY <1>11 DEF Announce
  <2>2. Tracer(x, clock[n]) \in Packet /\ Tracer(x, clock[n]) # p
    <3>1. clock[n] \in Nat
      BY DEF TypeOK
    <3>2. Tracer(x, clock[n]).cmd = "tracer"
      BY DEF Tracer
    <3> QED BY <3>1, <3>2, TracerType
  <2>3. Less
    BY <1>1, <2>1, <2>2, BroadcastHas DEF Less
  <2> QED BY <1>3, <2>1, <2>3
<1>12. ASSUME NEW n \in Nodes, NEW x \in Addrs, NEW b \in Payloads,
             NEW i \in 1..MaxReads, TunRead(n, x, b, i)
       PROVE  /\ Lone(p, out', incoming', delivered')
              /\ Somewhere(p, out', incoming', delivered') => p \in sent'
  <2> DEFINE r == IpPacket(x, clock[n], b, i)
  <2>1. /\ out' = AfterSend(n, r) /\ incoming' = incoming /\ delivered' = delivered
        /\ r \notin sent /\ sent' = sent \cup {r}
    BY <1>12 DEF TunRead
  <2>2. r \in Packet
    BY IpPacketType DEF TypeOK
  <2> HIDE DEF r
  <2>3. CASE r # p
    <3>1. Less
      BY <1>1, <2>1, <2>2, <2>3, SendHas DEF Less
    <3> QED BY <1>3, <1>4, <2>1, <3>1
  <2>4. CASE r = p
    <3>1. /\ \A m \in Nodes, c \in Conns : ~ Has(out[m][c], p)
          /\ \A m \in Nodes : ~ HasPkt(incoming[m], p) /\ ~ Has(delivered[m], p)
      BY <1>0, <2>1, <2>4 DEF Somewhere
    <3> QED BY <2>1, <2>2, <2>4, <3>1, SentIsLone
  <2> QED BY <2>3, <2>4
<1>13. ASSUME NEW n \in Nodes, NEW c \in Conns, Open(n, c)
       PROVE  Less /\ LessIn /\ delivered' = delivered /\ sent' = sent
  BY <1>2, <1>3, <1>13 DEF Open
<1>14. ASSUME NEW n \in Nodes, NEW c \in Conns, Receive(n, c)
       PROVE  /\ Lone(p, out', incoming', delivered')
              /\ Somewhere(p, out', incoming', delivered') => p \in sent'
  <2> DEFINE h == Peer(n, c)
             e == [pkt |-> Head(out[h][c]), via |-> c]
             E == [pkt : Packet, via : Conns]
  <2>1. /\ out' = [out EXCEPT ![h][c] = Tail(out[h][c])]
        /\ incoming' = [incoming EXCEPT ![n] = Append(incoming[n], e)]
        /\ out[h][c] # <<>> /\ c \in At(n)
        /\ delivered' = delivered /\ sent' = sent
    BY <1>14 DEF Receive
  <2>2. h \in Nodes
    BY <2>1, PeerFacts
  <2>3. out[h][c] \in Seq(Packet) /\ incoming[n] \in Seq(E)
    BY <2>2 DEF TypeOK
  <2>4. e \in E /\ e.pkt = Head(out[h][c])
    <3>1. Head(out[h][c]) \in Packet
      BY <2>1, <2>3
    <3> QED BY <3>1
  <2> HIDE DEF h, e, E
  <2>5. \A m \in Nodes, d \in Conns :
          out'[m][d] = IF m = h /\ d = c THEN Tail(out[h][c]) ELSE out[m][d]
    BY <2>1, <2>2 DEF TypeOK
  <2>6. \A m \in Nodes : incoming'[m] = IF m = n THEN Append(incoming[n], e) ELSE incoming[m]
    BY <2>1 DEF TypeOK
  <2>7. /\ Has(Tail(out[h][c]), p) => Has(out[h][c], p)
        /\ Once(Tail(out[h][c]), p)
        /\ Has(out[h][c], Head(out[h][c]))
        /\ Head(out[h][c]) = p => ~ Has(Tail(out[h][c]), p)
    BY <1>1, <2>1, <2>2, <2>3, TailHas
  <2>8. Less
    BY <1>1, <2>5, <2>7 DEF Less
  <2>9. CASE e.pkt # p
    <3>1. LessIn
      BY <1>1, <2>3, <2>4, <2>6, <2>9, AppendHasPkt DEF LessIn
    <3> QED BY <1>4, <2>1, <2>8, <3>1
  <2>10. CASE e.pkt = p
    <3>1. Has(out[h][c], p) /\ ~ Has(Tail(out[h][c]), p)
      BY <2>4, <2>7, <2>10
    <3>2. /\ \A m \in Nodes, d \in Conns : Has(out[m][d], p) => m = h /\ d = c
          /\ \A m \in Nodes : ~ HasPkt(incoming[m], p) /\ ~ Has(delivered[m], p)
          /\ p \in sent
      BY <1>0, <2>2, <3>1 DEF Lone, Somewhere
    <3>3. \A m \in Nodes, d \in Conns : ~ Has(out'[m][d], p)
      BY <2>5, <3>1, <3>2
    <3>4. \A m \in Nodes : (HasPkt(incoming'[m], p) => m = n) /\ OncePkt(incoming'[m], p)
      BY <1>1, <2>3, <2>4, <2>6, <3>2, AppendHasPkt
    <3>5. \A m \in Nodes, d \in Conns : Once(out'[m][d], p)
      BY <2>8 DEF Less
    <3> QED BY <1>1, <2>1, <3>2, <3>3, <3>4, <3>5 DEF Lone
  <2> QED BY <2>9, <2>10
<1>15. ASSUME NEW n \in Nodes, NEW c \in Conns, NEW k \in 0..Len(out[n][c]),
              CloseRust(n, c, k) \/ CloseDotNet(n, c, k)
       PROVE  Less /\ LessIn /\ delivered' = delivered /\ sent' = sent
  <2> DEFINE h == Peer(n, c)
  <2>1. /\ out' = [out EXCEPT ![n][c] = SubSeq(out[n][c], 1, k), ![h][c] = <<>>]
        /\ incoming' = incoming /\ delivered' = delivered /\ sent' = sent
        /\ c \in At(n)
    BY <1>15 DEF CloseRust, CloseDotNet, EndSession
  <2>2. h \in Nodes /\ h # n
    BY <2>1, PeerFacts
  <2> HIDE DEF h
  <2>3. \A m \in Nodes, d \in Conns :
          out'[m][d] = IF m = n /\ d = c THEN SubSeq(out[n][c], 1, k)
                       ELSE IF m = h /\ d = c THEN <<>> ELSE out[m][d]
    BY <2>1, <2>2 DEF TypeOK
  <2>4. /\ Has(SubSeq(out[n][c], 1, k), p) => Has(out[n][c], p)
        /\ Once(SubSeq(out[n][c], 1, k), p)
    <3>1. out[n][c] \in Seq(Packet)
      BY DEF TypeOK
    <3> QED BY <1>1, <3>1, PrefixHas
  <2>5. Less
    BY <1>1, <2>3, <2>4, EmptyHas DEF Less
  <2> QED BY <1>3, <2>1, <2>5
<1>16. CASE UNCHANGED vars
  BY <1>2, <1>3, <1>4, <1>16 DEF vars
<1> QED
  BY <1>4, <1>5, <1>6, <1>7, <1>8, <1>9, <1>10, <1>11, <1>12, <1>13, <1>14,
     <1>15, <1>16
  DEF Next, Process

LEMMA InitIp == Init => IpInv
<1> SUFFICES ASSUME Init PROVE IpInv
  OBVIOUS
<1>1. /\ \A m \in Nodes, c \in Conns : out[m][c] = <<>>
      /\ \A n \in Nodes : incoming[n] = <<>> /\ delivered[n] = <<>>
      /\ sent = {}
  BY DEF Init
<1>2. ASSUME NEW p \in Packet PROVE Tracked(p)
  <2>1. /\ \A m \in Nodes, c \in Conns : ~ Has(out[m][c], p) /\ Once(out[m][c], p)
        /\ \A n \in Nodes : /\ ~ HasPkt(incoming[n], p) /\ OncePkt(incoming[n], p)
                            /\ ~ Has(delivered[n], p) /\ Once(delivered[n], p)
    BY <1>1, EmptyHas
  <2> QED BY <2>1 DEF Tracked, Lone, Somewhere
<1> QED BY <1>1, <1>2 DEF IpInv

LEMMA NextIp ==
  TypeOK /\ SessionsRegistered /\ IpInv /\ [Next]_vars => IpInv'
<1> SUFFICES ASSUME TypeOK, SessionsRegistered, IpInv, [Next]_vars PROVE IpInv'
  OBVIOUS
<1>1. \A p \in Packet : p.cmd = "data" => Tracked(p)'
  BY NextTracked DEF IpInv
<1>2. ASSUME NEW p \in sent', p \notin sent PROVE p.cmd = "data"
  <2>1. PICK n \in Nodes, x \in Addrs, b \in Payloads, i \in 1..MaxReads : TunRead(n, x, b, i)
    BY <1>2 DEF Next, vars, Process, DropStale, DropDuplicate, HandleTracer, Deliver,
                Relay, Tick, Restart, CleanBrokenSenders, Announce, Open, Receive,
                CloseRust, CloseDotNet
  <2> QED BY <1>2, <2>1 DEF TunRead, IpPacket
<1> QED BY <1>1, <1>2 DEF IpInv

(* An IP packet that a node read from its TUN interface is never in two     *)
(* places of the mesh, whatever the routes are and however links come and   *)
(* go: SendToFastest sends it over one link, and the queue it is taken from *)
(* no longer has it.                                                        *)
THEOREM IpPacketsStaySingle == Spec => []IpPacketsNotDuplicated
<1>1. IInv /\ IpInv => IpPacketsNotDuplicated
  <2> SUFFICES ASSUME IInv, IpInv, NEW p \in sent, NEW a \in Places(p), NEW b \in Places(p)
               PROVE  a = b
    BY DEF IpPacketsNotDuplicated
  <2>1. Lone(p, out, incoming, delivered)
    BY DEF IInv, TypeOK, IpInv, Tracked
  <2> DEFINE InOut(y) == \E m \in Nodes, c \in Conns : \E i \in 1..Len(out[m][c]) :
                            y = <<"out", m, c, i>> /\ out[m][c][i] = p
             InQueue(y) == \E n \in Nodes : \E i \in 1..Len(incoming[n]) :
                            y = <<"in", n, i>> /\ incoming[n][i].pkt = p
             InTun(y) == \E n \in Nodes : \E i \in 1..Len(delivered[n]) :
                            y = <<"tun", n, i>> /\ delivered[n][i] = p
  <2>2. \A y \in Places(p) : InOut(y) \/ InQueue(y) \/ InTun(y)
    <3>1. ASSUME NEW y \in OutPlaces(p) PROVE InOut(y)
      BY <3>1 DEF OutPlaces
    <3>2. ASSUME NEW y \in InPlaces(p) PROVE InQueue(y)
      BY <3>2 DEF InPlaces
    <3>3. ASSUME NEW y \in TunPlaces(p) PROVE InTun(y)
      BY <3>3 DEF TunPlaces
    <3> HIDE DEF InOut, InQueue, InTun
    <3> QED BY <3>1, <3>2, <3>3 DEF Places
  <2>3. CASE InOut(a)
    BY <2>1, <2>2, <2>3 DEF Lone, Has, HasPkt, Once
  <2>4. CASE InQueue(a)
    <3>1. PICK n \in Nodes : \E i \in 1..Len(incoming[n]) :
            a = <<"in", n, i>> /\ incoming[n][i].pkt = p
      BY <2>4
    <3>2. HasPkt(incoming[n], p) /\ OncePkt(incoming[n], p)
      BY <2>1, <3>1 DEF HasPkt, Lone
    <3>3. ~ InOut(b) /\ ~ InTun(b)
      BY <2>1, <3>2 DEF Lone, Has
    <3>4. PICK m \in Nodes : \E j \in 1..Len(incoming[m]) :
            b = <<"in", m, j>> /\ incoming[m][j].pkt = p
      BY <2>2, <3>3
    <3>5. m = n
      BY <2>1, <3>2, <3>4 DEF Lone, HasPkt
    <3> QED BY <3>1, <3>2, <3>4, <3>5 DEF OncePkt
  <2>5. CASE InTun(a)
    BY <2>1, <2>2, <2>5 DEF Lone, Has, HasPkt, Once
  <2> QED BY <2>2, <2>3, <2>4, <2>5
<1>2. Init => IpInv
  BY InitIp
<1>3. IInv /\ IpInv /\ [Next]_vars => IpInv'
  BY NextIp DEF IInv
<1> QED BY <1>1, <1>2, <1>3, IInvAlways, PTL DEF Spec

-----------------------------------------------------------------------------
(* The mesh uses its links as Session describes them                        *)

LEMMA SideFacts ==
  ASSUME NEW n \in Nodes, NEW c \in At(n)
  PROVE  \E e \in {"I", "L"} :
           /\ EndAt(c, e) = n /\ EndAt(c, Contract!Opposite(e)) = Peer(n, c)
           /\ Contract!Opposite(e) \in {"I", "L"} /\ Contract!Opposite(e) # e
           /\ \A f \in {"I", "L"} : f = e \/ f = Contract!Opposite(e)
<1>1. CASE n = Connector[c]
  BY <1>1 DEF EndAt, Peer, Contract!Opposite
<1>2. CASE n # Connector[c]
  BY <1>2 DEF EndAt, Peer, At, Contract!Opposite
<1> QED BY <1>1, <1>2

LEMMA EndType ==
  ASSUME NEW c \in Conns, NEW e \in {"I", "L"}
  PROVE  EndAt(c, e) \in Nodes
  BY TopologyAssumption DEF EndAt

(* A session that a step does not touch.                                    *)
Untouched(s) == \A e \in {"I", "L"} : /\ conn'[EndAt(s, e)][s] = conn[EndAt(s, e)][s]
                                      /\ out'[EndAt(s, e)][s] = out[EndAt(s, e)][s]

LEMMA OpensSession ==
  ASSUME TypeOK, NEW n \in Nodes, NEW c \in Conns, Open(n, c)
  PROVE  Contract!Step(c)
<1>1. c \in At(n) /\ conn[n][c] = "new" /\ conn' = [conn EXCEPT ![n][c] = "open"] /\ out' = out
  BY DEF Open
<1>2. PICK e \in {"I", "L"} :
           /\ EndAt(c, e) = n /\ EndAt(c, Contract!Opposite(e)) = Peer(n, c)
           /\ Contract!Opposite(e) \in {"I", "L"} /\ Contract!Opposite(e) # e
           /\ \A f \in {"I", "L"} : f = e \/ f = Contract!Opposite(e)
  BY <1>1, SideFacts
<1>3. Peer(n, c) \in Nodes /\ Peer(n, c) # n
  BY <1>1, PeerFacts
<1>4. conn'[n][c] = "open" /\ conn'[Peer(n, c)][c] = conn[Peer(n, c)][c]
  BY <1>1, <1>3 DEF TypeOK
<1>5. Contract!Open(c, e)
  BY <1>1, <1>2, <1>3, <1>4 DEF Contract!Open, Contract!Becomes, EndAt
<1> QED BY <1>2, <1>5 DEF Contract!Step, Contract!Sides

LEMMA ClosesSession ==
  ASSUME TypeOK, NEW n \in Nodes, NEW c \in At(n), NEW k \in 0..Len(out[n][c]),
         EndSession(n, c, k)
  PROVE  Contract!Step(c)
<1>1. /\ conn[n][c] = "open" /\ conn' = [conn EXCEPT ![n][c] = "closed"]
      /\ out' = [out EXCEPT ![n][c] = SubSeq(out[n][c], 1, k), ![Peer(n, c)][c] = <<>>]
  BY DEF EndSession
<1>2. PICK e \in {"I", "L"} :
           /\ EndAt(c, e) = n /\ EndAt(c, Contract!Opposite(e)) = Peer(n, c)
           /\ Contract!Opposite(e) \in {"I", "L"} /\ Contract!Opposite(e) # e
           /\ \A f \in {"I", "L"} : f = e \/ f = Contract!Opposite(e)
  BY SideFacts
<1>3. Peer(n, c) \in Nodes /\ Peer(n, c) # n /\ c \in Conns
  BY PeerFacts
<1>4. conn'[n][c] = "closed" /\ conn'[Peer(n, c)][c] = conn[Peer(n, c)][c]
  BY <1>1, <1>3 DEF TypeOK
<1>5. out'[n][c] = SubSeq(out[n][c], 1, k) /\ out'[Peer(n, c)][c] = <<>>
  BY <1>1, <1>3 DEF TypeOK
<1>6. Contract!Close(c, e)
  <2> DEFINE F == [f \in {"I", "L"} |-> out[EndAt(c, f)][c]]
             o == Contract!Opposite(e)
  <2>1. Contract!Becomes(c, e, "closed")
    BY <1>2, <1>3, <1>4 DEF Contract!Becomes
  <2>2. F' = [F EXCEPT ![e] = SubSeq(F[e], 1, k), ![o] = <<>>] /\ k \in 0..Len(F[e])
    <3>1. F' = [f \in {"I", "L"} |-> out'[EndAt(c, f)][c]]
      BY DEF EndAt
    <3>2. F[e] = out[n][c] /\ F[o] = out[Peer(n, c)][c]
      BY <1>2
    <3> HIDE DEF F
    <3>4. F'[e] = SubSeq(F[e], 1, k) /\ F'[o] = <<>>
      BY <1>2, <1>5, <3>1, <3>2
    <3>5. DOMAIN F' = {"I", "L"} /\ DOMAIN F = {"I", "L"}
      BY <3>1 DEF F
    <3>6. F' = [f \in {"I", "L"} |-> IF f = e THEN SubSeq(F[e], 1, k) ELSE <<>>]
      BY <1>2, <3>1, <3>4
    <3>7. [F EXCEPT ![e] = SubSeq(F[e], 1, k), ![o] = <<>>]
            = [f \in {"I", "L"} |-> IF f = e THEN SubSeq(F[e], 1, k) ELSE <<>>]
      BY <1>2, <3>5 DEF F
    <3> QED BY <3>2, <3>6, <3>7
  <2> QED BY <1>1, <1>2, <1>3, <2>1, <2>2 DEF Contract!Close
<1> QED BY <1>2, <1>6 DEF Contract!Step, Contract!Sides

LEMMA SendsOnSession ==
  ASSUME TypeOK, NEW n \in Nodes, NEW c \in At(n), NEW p \in Packet,
         conn[n][c] = "open", conn' = conn,
         out'[n][c] = Append(out[n][c], p), out'[Peer(n, c)][c] = out[Peer(n, c)][c]
  PROVE  Contract!Step(c)
<1>1. PICK e \in {"I", "L"} :
           /\ EndAt(c, e) = n /\ EndAt(c, Contract!Opposite(e)) = Peer(n, c)
           /\ Contract!Opposite(e) \in {"I", "L"} /\ Contract!Opposite(e) # e
           /\ \A f \in {"I", "L"} : f = e \/ f = Contract!Opposite(e)
  BY SideFacts
<1>2. Peer(n, c) \in Nodes /\ c \in Conns
  BY PeerFacts
<1>3. out[n][c] \in Seq(Packet)
  BY <1>2 DEF TypeOK
<1>4. /\ Len(out'[n][c]) = Len(out[n][c]) + 1
      /\ SubSeq(out'[n][c], 1, Len(out[n][c])) = out[n][c]
  <2> DEFINE q == out[n][c]
  <2>1. Len(Append(q, p)) = Len(q) + 1 /\ SubSeq(Append(q, p), 1, Len(q)) = q
    <3> HIDE DEF q
    <3>1. q \in Seq(Packet)
      BY <1>3 DEF q
    <3> QED BY <3>1
  <2> QED BY <2>1
<1>5. Contract!Send(c, e)
  BY <1>1, <1>2, <1>4 DEF Contract!Send
<1> QED BY <1>1, <1>5 DEF Contract!Step, Contract!Sides

LEMMA TakesFromSession ==
  ASSUME TypeOK, NEW n \in Nodes, NEW c \in Conns, Receive(n, c)
  PROVE  Contract!Step(c)
<1>1. /\ c \in At(n) /\ conn[n][c] = "open" /\ out[Peer(n, c)][c] # <<>> /\ conn' = conn
      /\ out' = [out EXCEPT ![Peer(n, c)][c] = Tail(out[Peer(n, c)][c])]
  BY DEF Receive
<1>2. PICK e \in {"I", "L"} :
           /\ EndAt(c, e) = n /\ EndAt(c, Contract!Opposite(e)) = Peer(n, c)
           /\ Contract!Opposite(e) \in {"I", "L"} /\ Contract!Opposite(e) # e
           /\ \A f \in {"I", "L"} : f = e \/ f = Contract!Opposite(e)
  BY <1>1, SideFacts
<1>3. Peer(n, c) \in Nodes /\ Peer(n, c) # n
  BY <1>1, PeerFacts
<1>4. out'[Peer(n, c)][c] = Tail(out[Peer(n, c)][c]) /\ out'[n][c] = out[n][c]
  BY <1>1, <1>3 DEF TypeOK
<1>5. Contract!Take(c, e)
  BY <1>1, <1>2, <1>3, <1>4 DEF Contract!Take
<1> QED BY <1>2, <1>5 DEF Contract!Step, Contract!Sides

(* Flooding sends on some open sessions, and leaves the others alone.       *)
LEMMA BroadcastOnSessions ==
  ASSUME TypeOK, SessionsRegistered, NEW n \in Nodes, NEW p \in Packet,
         out' = AfterBroadcast(n, p), conn' = conn, NEW s \in Conns
  PROVE  Contract!Step(s) \/ Untouched(s)
<1>1. \A m \in Nodes : out'[m][s] =
         IF m = n /\ s \in senders[n] /\ Live(n, s) THEN Append(out[m][s], p) ELSE out[m][s]
  BY BroadcastEffect
<1>2. CASE s \in senders[n] /\ Live(n, s)
  <2>1. conn[n][s] = "open" /\ s \in At(n)
    BY <1>2 DEF Live, SessionsRegistered
  <2>2. Peer(n, s) \in Nodes /\ Peer(n, s) # n
    BY <2>1, PeerFacts
  <2> QED BY <1>1, <1>2, <2>1, <2>2, SendsOnSession
<1>3. CASE ~ (s \in senders[n] /\ Live(n, s))
  BY <1>1, <1>3, EndType DEF Untouched
<1> QED BY <1>2, <1>3

LEMMA SendOnSessions ==
  ASSUME TypeOK, NEW n \in Nodes, NEW p \in Packet,
         out' = AfterSend(n, p), conn' = conn, NEW s \in Conns
  PROVE  Contract!Step(s) \/ Untouched(s)
<1> DEFINE d == routes[n][p.addr].via
<1>1. CASE HasRoute(n, p.addr) /\ Live(n, d)
  <2>1. p.addr \in Addrs
    BY DEF Packet
  <2>2. d \in At(n) /\ d \in Conns
    BY <1>1, <2>1 DEF TypeOK, At
  <2>3. out' = [out EXCEPT ![n][d] = Append(out[n][d], p)] /\ conn[n][d] = "open"
    BY <1>1 DEF AfterSend, Live
  <2> HIDE DEF d
  <2>4. \A m \in Nodes, c \in Conns :
           out'[m][c] = IF m = n /\ c = d THEN Append(out[m][c], p) ELSE out[m][c]
    BY <2>2, <2>3 DEF TypeOK
  <2>5. Peer(n, d) \in Nodes /\ Peer(n, d) # n
    BY <2>2, PeerFacts
  <2>6. CASE s = d
    BY <2>2, <2>3, <2>4, <2>5, <2>6, SendsOnSession
  <2>7. CASE s # d
    BY <2>4, <2>7, EndType DEF Untouched
  <2> QED BY <2>6, <2>7
<1>2. CASE ~ (HasRoute(n, p.addr) /\ Live(n, d))
  BY <1>2 DEF AfterSend, Untouched
<1> QED BY <1>1, <1>2

LEMMA StepsAreSessionSteps ==
  ASSUME TypeOK, SessionsRegistered, Next, NEW s \in Conns
  PROVE  Contract!Step(s) \/ Untouched(s)
<1>1. ASSUME conn' = conn, out' = out PROVE Untouched(s)
  BY <1>1 DEF Untouched
<1>2. ASSUME NEW n \in Nodes,
             \/ DropStale(n) \/ DropDuplicate(n) \/ Deliver(n) \/ Tick(n)
             \/ Restart(n) \/ CleanBrokenSenders(n)
      PROVE  conn' = conn /\ out' = out
  BY <1>2 DEF DropStale, DropDuplicate, Deliver, Tick, Restart, CleanBrokenSenders
<1>3. ASSUME NEW n \in Nodes, HandleTracer(n) PROVE Contract!Step(s) \/ Untouched(s)
  <2>1. First(n).pkt \in Packet /\ out' = AfterBroadcast(n, First(n).pkt) /\ conn' = conn
    BY <1>3, TracerFacts DEF HandleTracer
  <2> QED BY <2>1, BroadcastOnSessions
<1>4. ASSUME NEW n \in Nodes, Relay(n) PROVE Contract!Step(s) \/ Untouched(s)
  <2>1. Pop(n) /\ out' = AfterSend(n, First(n).pkt) /\ conn' = conn
    BY <1>4 DEF Relay, Admit
  <2>2. First(n).pkt \in Packet
    BY <2>1, PopType, FirstType
  <2> QED BY <2>1, <2>2, SendOnSessions
<1>5. ASSUME NEW n \in Nodes, NEW x \in Addrs, Announce(n, x)
      PROVE  Contract!Step(s) \/ Untouched(s)
  <2>1. Tracer(x, clock[n]) \in Packet
    BY TracerType DEF TypeOK
  <2>2. out' = AfterBroadcast(n, Tracer(x, clock[n])) /\ conn' = conn
    BY <1>5 DEF Announce
  <2> QED BY <2>1, <2>2, BroadcastOnSessions
<1>6. ASSUME NEW n \in Nodes, NEW x \in Addrs, NEW b \in Payloads,
             NEW i \in 1..MaxReads, TunRead(n, x, b, i)
      PROVE  Contract!Step(s) \/ Untouched(s)
  <2>1. IpPacket(x, clock[n], b, i) \in Packet
    BY IpPacketType DEF TypeOK
  <2>2. out' = AfterSend(n, IpPacket(x, clock[n], b, i)) /\ conn' = conn
    BY <1>6 DEF TunRead
  <2> QED BY <2>1, <2>2, SendOnSessions
<1>7. ASSUME NEW n \in Nodes, NEW c \in Conns, Open(n, c)
      PROVE  Contract!Step(s) \/ Untouched(s)
  <2>1. CASE s = c
    BY <1>7, <2>1, OpensSession
  <2>2. CASE s # c
    <3>1. conn' = [conn EXCEPT ![n][c] = "open"] /\ out' = out
      BY <1>7 DEF Open
    <3>2. \A m \in Nodes : conn'[m][s] = conn[m][s]
      BY <2>2, <3>1 DEF TypeOK
    <3> QED BY <3>1, <3>2, EndType DEF Untouched
  <2> QED BY <2>1, <2>2
<1>8. ASSUME NEW n \in Nodes, NEW c \in Conns, Receive(n, c)
      PROVE  Contract!Step(s) \/ Untouched(s)
  <2>1. CASE s = c
    BY <1>8, <2>1, TakesFromSession
  <2>2. CASE s # c
    <3>1. conn' = conn /\ c \in At(n)
          /\ out' = [out EXCEPT ![Peer(n, c)][c] = Tail(out[Peer(n, c)][c])]
      BY <1>8 DEF Receive
    <3>2. \A m \in Nodes : out'[m][s] = out[m][s]
      BY <2>2, <3>1 DEF TypeOK
    <3> QED BY <3>1, <3>2, EndType DEF Untouched
  <2> QED BY <2>1, <2>2
<1>9. ASSUME NEW n \in Nodes, NEW c \in Conns, NEW k \in 0..Len(out[n][c]),
             CloseRust(n, c, k) \/ CloseDotNet(n, c, k)
      PROVE  Contract!Step(s) \/ Untouched(s)
  <2>1. EndSession(n, c, k) /\ c \in At(n)
    BY <1>9 DEF CloseRust, CloseDotNet
  <2>2. CASE s = c
    BY <2>1, <2>2, ClosesSession
  <2>3. CASE s # c
    <3>1. /\ conn' = [conn EXCEPT ![n][c] = "closed"]
          /\ out' = [out EXCEPT ![n][c] = SubSeq(out[n][c], 1, k), ![Peer(n, c)][c] = <<>>]
      BY <2>1 DEF EndSession
    <3>2. \A m \in Nodes : conn'[m][s] = conn[m][s] /\ out'[m][s] = out[m][s]
      BY <2>3, <3>1 DEF TypeOK
    <3> QED BY <3>2, EndType DEF Untouched
  <2> QED BY <2>2, <2>3
<1> QED BY <1>1, <1>2, <1>3, <1>4, <1>5, <1>6, <1>7, <1>8, <1>9 DEF Next, Process

(* Every behaviour of the mesh uses its sessions as Session allows: what is *)
(* on its way in a session is only what an open end has sent, and is read   *)
(* in that order (Link is shown to provide such sessions).                  *)
THEOREM MeshUsesSessions == Spec => UsesSessions
<1>1. Init => Contract!Init
  <2> SUFFICES ASSUME Init PROVE Contract!Init
    OBVIOUS
  <2>1. \A m \in Nodes, c \in Conns : out[m][c] = <<>>
    BY DEF Init
  <2> QED BY <2>1, EndType DEF Contract!Init, Contract!Sides
<1>2. IInv /\ [Next]_vars => [Contract!Next]_(Contract!vars)
  <2> SUFFICES ASSUME IInv, [Next]_vars PROVE [Contract!Next]_(Contract!vars)
    OBVIOUS
  <2>1. CASE UNCHANGED vars
    BY <2>1 DEF vars, Contract!vars, EndAt
  <2>2. CASE Next
    <3>1. \A s \in Conns : Contract!Step(s) \/ Untouched(s)
      BY <2>2, StepsAreSessionSteps DEF IInv
    <3>2. Contract!Next
      BY <3>1 DEF Contract!Next, Untouched, EndAt
    <3> QED BY <3>2
  <2> QED BY <2>1, <2>2
<1> QED BY <1>1, <1>2, IInvAlways, PTL DEF Spec, UsesSessions, Contract!Spec

-----------------------------------------------------------------------------
(* A tracer is passed on over a session once, unless the duplicate filter   *)
(* forgets it                                                               *)

(* No filter evicts a packet; it may still lose all in a restart.           *)
KeepsSeen ==
  \A n \in Nodes : restarts'[n] = restarts[n] =>
     \A i \in 1..Len(seen[n]) : Has(seen'[n], seen[n][i])

NothingEvicted == [][KeepsSeen]_vars

(* m passes p on, over c, once: when it remembers p, or cannot send any     *)
(* more, as its end of c is closed.                                         *)
Entry(p, c) == [pkt |-> p, via |-> c]
Copied(m, c, p) == Has(out[m][c], p) \/ Has(incoming[Peer(m, c)], Entry(p, c))
Done(m, c, p) ==
  conn[m][c] = "closed" \/ (conn[m][c] = "open" /\ Has(seen[m], Bytes(p)))

PassedOn(m, c, p) ==
  /\ Once(out[m][c], p) /\ Once(incoming[Peer(m, c)], Entry(p, c))
  /\ ~ (Has(out[m][c], p) /\ Has(incoming[Peer(m, c)], Entry(p, c)))
  /\ Copied(m, c, p) => Done(m, c, p)

FloodInv ==
  \A m \in Nodes, c \in Conns, p \in Packet :
    c \in At(m) /\ p.cmd = "tracer" /\ p.addr \notin Owns[m] => PassedOn(m, c, p)

LEMMA RestartsOnlyByRestart ==
  ASSUME TypeOK, [Next]_vars, NEW m \in Nodes, restarts'[m] # restarts[m]
  PROVE  Restart(m)
<1>1. PICK n \in Nodes : Restart(n)
  <2>1. ASSUME NEW n \in Nodes, Process(n) PROVE restarts' = restarts
    BY <2>1 DEF Process, DropStale, DropDuplicate, HandleTracer, Deliver, Relay
  <2>2. ASSUME NEW n \in Nodes,
               \/ Tick(n) \/ CleanBrokenSenders(n)
               \/ \E x \in Addrs : Announce(n, x)
               \/ \E x \in Addrs, b \in Payloads, i \in 1..MaxReads : TunRead(n, x, b, i)
        PROVE  restarts' = restarts
    BY <2>2 DEF Tick, CleanBrokenSenders, Announce, TunRead
  <2>3. ASSUME NEW n \in Nodes, NEW c \in Conns,
               \/ Open(n, c) \/ Receive(n, c)
               \/ \E k \in 0..Len(out[n][c]) : CloseRust(n, c, k) \/ CloseDotNet(n, c, k)
        PROVE  restarts' = restarts
    BY <2>3 DEF Open, Receive, CloseRust, CloseDotNet
  <2> QED BY <2>1, <2>2, <2>3 DEF Next, vars
<1>2. m = n
  BY <1>1 DEF Restart, TypeOK
<1> QED BY <1>1, <1>2

LEMMA EndsOnlyClose ==
  ASSUME TypeOK, [Next]_vars, NEW m \in Nodes, NEW c \in Conns, conn[m][c] # "new"
  PROVE  conn'[m][c] = conn[m][c] \/ conn'[m][c] = "closed"
<1>1. CASE conn' = conn
  BY <1>1
<1>2. ASSUME NEW n \in Nodes, NEW d \in Conns, Open(n, d)
      PROVE  conn'[m][c] = conn[m][c]
  BY <1>2 DEF Open, TypeOK
<1>3. ASSUME NEW n \in Nodes, NEW d \in Conns, NEW k \in 0..Len(out[n][d]),
             EndSession(n, d, k)
      PROVE  conn'[m][c] = conn[m][c] \/ conn'[m][c] = "closed"
  <2>1. conn' = [conn EXCEPT ![n][d] = "closed"]
    BY <1>3 DEF EndSession
  <2> QED BY <2>1 DEF TypeOK
<1>4. ASSUME NEW n \in Nodes,
             \/ DropStale(n) \/ DropDuplicate(n) \/ HandleTracer(n) \/ Deliver(n)
             \/ Relay(n) \/ Tick(n) \/ CleanBrokenSenders(n) \/ Restart(n)
      PROVE  conn' = conn
  BY <1>4 DEF DropStale, DropDuplicate, HandleTracer, Deliver, Relay, Tick,
              CleanBrokenSenders, Restart
<1>5. ASSUME NEW n \in Nodes,
             \/ \E x \in Addrs : Announce(n, x)
             \/ \E x \in Addrs, b \in Payloads, i \in 1..MaxReads : TunRead(n, x, b, i)
             \/ \E d \in Conns : Receive(n, d)
      PROVE  conn' = conn
  BY <1>5 DEF Announce, TunRead, Receive
<1>6. CASE UNCHANGED vars
  BY <1>6 DEF vars
<1> QED
  BY <1>1, <1>2, <1>3, <1>4, <1>5, <1>6 DEF Next, Process, CloseRust, CloseDotNet

(* A node that is done with a packet stays done.                            *)
LEMMA DoneStays ==
  ASSUME TypeOK, [Next]_vars, [KeepsSeen]_vars, NEW m \in Nodes, NEW c \in At(m), NEW p,
         Done(m, c, p)
  PROVE  Done(m, c, p)'
<1>0. c \in Conns /\ conn[m][c] # "new"
  BY DEF At, Done
<1>1. conn'[m][c] = conn[m][c] \/ conn'[m][c] = "closed"
  BY <1>0, EndsOnlyClose
<1>2. CASE conn[m][c] = "closed"
  BY <1>1, <1>2 DEF Done
<1>3. CASE conn[m][c] = "open" /\ Has(seen[m], Bytes(p))
  <2>1. restarts'[m] = restarts[m]
    BY <1>3, RestartsOnlyByRestart DEF Restart
  <2>2. Has(seen'[m], Bytes(p))
    BY <1>3, <2>1 DEF KeepsSeen, Has, vars
  <2> QED BY <1>1, <1>3, <2>2 DEF Done
<1> QED BY <1>2, <1>3 DEF Done

LEMMA FewerCopies ==
  ASSUME TypeOK, [Next]_vars, [KeepsSeen]_vars, NEW m \in Nodes, NEW c \in At(m), NEW p,
         PassedOn(m, c, p),
         Has(out'[m][c], p) => Has(out[m][c], p), Once(out'[m][c], p),
         Has(incoming'[Peer(m, c)], Entry(p, c)) => Has(incoming[Peer(m, c)], Entry(p, c)),
         Once(incoming'[Peer(m, c)], Entry(p, c))
  PROVE  PassedOn(m, c, p)'
<1>1. Copied(m, c, p)' => Copied(m, c, p)
  BY DEF Copied, Peer, Entry
<1>2. Copied(m, c, p)' => Done(m, c, p)'
  BY <1>1, DoneStays DEF PassedOn
<1> QED BY <1>2 DEF PassedOn, Peer, Entry

LEMMA NextPassedOn ==
  ASSUME TypeOK, SessionsRegistered, [Next]_vars, [KeepsSeen]_vars,
         NEW m \in Nodes, NEW c \in At(m), NEW p \in Packet,
         p.cmd = "tracer", p.addr \notin Owns[m], PassedOn(m, c, p)
  PROVE  PassedOn(m, c, p)'
<1> DEFINE h == Peer(m, c)
           e == Entry(p, c)
           E == [pkt : Packet, via : Conns]
           Less == (Has(out'[m][c], p) => Has(out[m][c], p)) /\ Once(out'[m][c], p)
           LessIn == (Has(incoming'[h], e) => Has(incoming[h], e)) /\ Once(incoming'[h], e)
<1>0. /\ h \in Nodes /\ h # m /\ c \in Conns
      /\ out[m][c] \in Seq(Packet) /\ incoming[h] \in Seq(E) /\ e \in E
      /\ Once(out[m][c], p) /\ Once(incoming[h], e)
  <2>1. h \in Nodes /\ h # m /\ c \in Conns
    BY PeerFacts
  <2>2. out[m][c] \in Seq(Packet) /\ incoming[h] \in Seq(E)
    <3> HIDE DEF h
    <3>1. /\ out \in [Nodes -> [Conns -> Seq(Packet)]]
          /\ incoming \in [Nodes -> Seq(E)]
      BY DEF TypeOK
    <3> HIDE DEF E
    <3> QED BY <2>1, <3>1
  <2>3. e \in E
    BY <2>1 DEF Entry
  <2> QED BY <2>1, <2>2, <2>3 DEF PassedOn
<1>1. ASSUME Less, LessIn PROVE PassedOn(m, c, p)'
  BY <1>1, FewerCopies
<1>2. out'[m][c] = out[m][c] => Less
  BY <1>0
<1>3. incoming'[h] = incoming[h] => LessIn
  BY <1>0
<1> HIDE DEF h, e, E, Less, LessIn
<1>4. ASSUME NEW n \in Nodes, Pop(n) PROVE LessIn /\ (n # h => incoming'[h] = incoming[h])
  <2>1. incoming' = [incoming EXCEPT ![n] = Tail(incoming[n])] /\ incoming[n] # <<>>
    BY <1>4, PopType
  <2>2. incoming'[h] = IF n = h THEN Tail(incoming[h]) ELSE incoming[h]
    BY <1>0, <2>1 DEF TypeOK
  <2>3. n = h => /\ Has(Tail(incoming[h]), e) => Has(incoming[h], e)
                 /\ Once(Tail(incoming[h]), e)
    BY <1>0, <2>1, TailHas
  <2> QED BY <1>0, <1>3, <2>2, <2>3 DEF LessIn
<1>5. ASSUME NEW n \in Nodes, DropStale(n) \/ DropDuplicate(n) \/ Deliver(n)
      PROVE  Less /\ LessIn
  BY <1>2, <1>4, <1>5 DEF DropStale, DropDuplicate, Deliver, Admit
<1>6. ASSUME NEW n \in Nodes, NEW x \in Packet, x # p, out' = AfterSend(n, x) PROVE Less
  BY <1>0, <1>6, SendHas DEF Less
<1>7. ASSUME NEW n \in Nodes, NEW x \in Packet, x # p \/ n # m, out' = AfterBroadcast(n, x)
      PROVE  Less
  <2>1. CASE x # p
    BY <1>0, <1>7, <2>1, BroadcastHas DEF Less
  <2>2. CASE n # m
    BY <1>0, <1>2, <1>7, <2>2, BroadcastEffect
  <2> QED BY <1>7, <2>1, <2>2
<1>8. ASSUME NEW n \in Nodes, HandleTracer(n) PROVE PassedOn(m, c, p)'
  <2>1. /\ Pop(n) /\ out' = AfterBroadcast(n, First(n).pkt) /\ conn' = conn
        /\ ~ Seen(n, First(n).pkt)
        /\ seen' = [seen EXCEPT ![n] = Remember(n, First(n).pkt)]
    BY <1>8 DEF HandleTracer, Admit
  <2>2. First(n).pkt \in Packet
    BY <1>8, TracerFacts
  <2>3. CASE First(n).pkt # p \/ n # m
    BY <1>1, <1>4, <1>7, <2>1, <2>2, <2>3
  <2>4. CASE First(n).pkt = p /\ n = m
    <3>1. out'[m][c] = IF c \in senders[m] /\ Live(m, c) THEN Append(out[m][c], p)
                                                         ELSE out[m][c]
      BY <1>0, <2>1, <2>4, BroadcastEffect
    <3>2. CASE ~ (c \in senders[m] /\ Live(m, c))
      BY <1>1, <1>2, <1>4, <2>1, <3>1, <3>2
    <3>3. CASE c \in senders[m] /\ Live(m, c)
      <4>1. conn[m][c] = "open" /\ ~ Has(seen[m], Bytes(p))
        BY <2>1, <2>4, <3>3 DEF Live, Seen, Has
      <4>2. ~ Has(out[m][c], p) /\ ~ Has(incoming[h], e)
        BY <4>1 DEF PassedOn, Copied, Done, h, e
      <4>3. incoming'[h] = incoming[h]
        BY <1>0, <1>4, <2>1, <2>4
      <4>4. Once(out'[m][c], p)
        BY <1>0, <3>1, <3>3, <4>2, AppendHas
      <4>5. Has(seen'[m], Bytes(p))
        <5>1. seen'[m] = Remember(m, p)
          BY <2>1, <2>4 DEF TypeOK
        <5>2. seen[m] \in Seq(Packet) /\ Len(seen[m]) <= SeenCap /\ Bytes(p) \in Packet
          BY BytesType DEF TypeOK
        <5>3. CASE Len(seen[m]) < SeenCap
          BY <5>1, <5>2, <5>3, AppendHas DEF Remember
        <5>4. CASE ~ (Len(seen[m]) < SeenCap)
          <6>1. seen[m] # <<>>
            BY <5>2, <5>4, BoundAssumption
          <6>2. Tail(seen[m]) \in Seq(Packet)
            BY <5>2, <6>1
          <6>3. Has(Append(Tail(seen[m]), Bytes(p)), Bytes(p))
            BY <5>2, <6>2, AppendHas
          <6> QED BY <5>1, <5>4, <6>3 DEF Remember
        <5> QED BY <5>3, <5>4
      <4>6. conn'[m][c] = "open"
        BY <2>1, <4>1
      <4> QED BY <1>0, <4>2, <4>3, <4>4, <4>5, <4>6 DEF PassedOn, Copied, Done, Peer, h, e, Entry
    <3> QED BY <3>2, <3>3
  <2> QED BY <2>3, <2>4
<1>9. ASSUME NEW n \in Nodes, Relay(n) PROVE Less /\ LessIn
  <2>1. Pop(n) /\ out' = AfterSend(n, First(n).pkt) /\ First(n).pkt.cmd = "data"
    BY <1>9 DEF Relay, Admit
  <2>2. First(n).pkt \in Packet /\ First(n).pkt # p
    BY <2>1, PopType, FirstType
  <2> QED BY <1>4, <1>6, <2>1, <2>2
<1>10. ASSUME NEW n \in Nodes, Tick(n) \/ CleanBrokenSenders(n) PROVE Less /\ LessIn
  BY <1>2, <1>3, <1>10 DEF Tick, CleanBrokenSenders
<1>11. ASSUME NEW n \in Nodes, Restart(n) PROVE Less /\ LessIn
  <2>1. out' = out /\ incoming' = [incoming EXCEPT ![n] = <<>>]
    BY <1>11 DEF Restart
  <2>2. incoming'[h] = <<>> \/ incoming'[h] = incoming[h]
    BY <1>0, <2>1 DEF TypeOK
  <2> QED BY <1>2, <1>3, <2>1, <2>2, EmptyHas DEF LessIn
<1>12. ASSUME NEW n \in Nodes, NEW x \in Addrs, Announce(n, x) PROVE Less /\ LessIn
  <2>1. /\ out' = AfterBroadcast(n, Tracer(x, clock[n])) /\ incoming' = incoming
        /\ x \in Owns[n]
    BY <1>12 DEF Announce
  <2>2. Tracer(x, clock[n]) \in Packet /\ Tracer(x, clock[n]).addr = x
    BY TracerType DEF TypeOK, Tracer
  <2>3. Tracer(x, clock[n]) # p \/ n # m
    BY <2>1, <2>2
  <2> QED BY <1>3, <1>7, <2>1, <2>2, <2>3
<1>13. ASSUME NEW n \in Nodes, NEW x \in Addrs, NEW b \in Payloads,
             NEW i \in 1..MaxReads, TunRead(n, x, b, i)
       PROVE  Less /\ LessIn
  <2>1. out' = AfterSend(n, IpPacket(x, clock[n], b, i)) /\ incoming' = incoming
    BY <1>13 DEF TunRead
  <2>2. IpPacket(x, clock[n], b, i) \in Packet /\ IpPacket(x, clock[n], b, i).cmd = "data"
    BY IpPacketType DEF TypeOK
  <2> QED BY <1>3, <1>6, <2>1, <2>2
<1>14. ASSUME NEW n \in Nodes, NEW d \in Conns, Open(n, d) PROVE Less /\ LessIn
  BY <1>2, <1>3, <1>14 DEF Open
<1>15. ASSUME NEW n \in Nodes, NEW d \in Conns, Receive(n, d) PROVE PassedOn(m, c, p)'
  <2> DEFINE g == Peer(n, d)
             x == [pkt |-> Head(out[g][d]), via |-> d]
  <2>1. /\ out' = [out EXCEPT ![g][d] = Tail(out[g][d])]
        /\ incoming' = [incoming EXCEPT ![n] = Append(incoming[n], x)]
        /\ out[g][d] # <<>> /\ d \in At(n) /\ conn' = conn
    BY <1>15 DEF Receive
  <2>2. g \in Nodes /\ g # n
    BY <2>1, PeerFacts
  <2>3. out[g][d] \in Seq(Packet)
    BY <2>2 DEF TypeOK
  <2>4. x \in E /\ x.via = d /\ x.pkt = Head(out[g][d])
    <3>1. Head(out[g][d]) \in Packet
      BY <2>1, <2>3
    <3> QED BY <3>1 DEF E
  <2>5. d = c /\ n = h => g = m
    BY DEF g, h, Peer, At
  <2>6. d = c /\ g = m => n = h
    BY <2>1 DEF g, h, Peer, At
  <2> HIDE DEF g, x
  <2>7. out'[m][c] = IF m = g /\ c = d THEN Tail(out[m][c]) ELSE out[m][c]
    BY <1>0, <2>1, <2>2 DEF TypeOK
  <2>8. incoming'[h] = IF n = h THEN Append(incoming[h], x) ELSE incoming[h]
    BY <1>0, <2>1 DEF TypeOK
  <2>9. e.via = c /\ e.pkt = p
    BY DEF e, Entry
  <2>10. CASE ~ (d = c /\ n = h)
    <3>1. Less
      BY <1>2, <2>6, <2>7, <2>10
    <3>2. x = e => d = c
      BY <2>4, <2>9
    <3>3. LessIn
      BY <1>0, <2>4, <2>8, <2>10, <3>2, AppendHas DEF LessIn
    <3> QED BY <1>1, <3>1, <3>3
  <2>11. CASE d = c /\ n = h /\ x.pkt # p
    <3>1. Less
      BY <1>0, <1>2, <2>1, <2>5, <2>7, <2>11, TailHas DEF Less
    <3>2. LessIn
      BY <1>0, <2>4, <2>8, <2>9, <2>11, AppendHas DEF LessIn
    <3> QED BY <1>1, <3>1, <3>2
  <2>12. CASE d = c /\ n = h /\ x.pkt = p
    <3>1. g = m /\ out'[m][c] = Tail(out[m][c]) /\ out[m][c] # <<>> /\ Head(out[m][c]) = p
      BY <2>1, <2>4, <2>5, <2>7, <2>12
    <3>2. Has(out[m][c], p) /\ ~ Has(out'[m][c], p) /\ Once(out'[m][c], p)
      BY <1>0, <3>1, TailHas
    <3>3. ~ Has(incoming[h], e)
      BY <3>2 DEF PassedOn, h, e
    <3>4. Once(incoming'[h], e)
      BY <1>0, <2>4, <2>8, <2>12, <3>3, AppendHas
    <3>5. Done(m, c, p)'
      BY <3>2, DoneStays DEF PassedOn, Copied
    <3> QED BY <3>2, <3>4, <3>5 DEF PassedOn, Peer, h, e, Entry
  <2> QED BY <2>10, <2>11, <2>12
<1>16. ASSUME NEW n \in Nodes, NEW d \in Conns, NEW k \in 0..Len(out[n][d]),
              CloseRust(n, d, k) \/ CloseDotNet(n, d, k)
       PROVE  Less /\ LessIn
  <2> DEFINE g == Peer(n, d)
  <2>1. /\ out' = [out EXCEPT ![n][d] = SubSeq(out[n][d], 1, k), ![g][d] = <<>>]
        /\ incoming' = incoming /\ d \in At(n)
    BY <1>16 DEF CloseRust, CloseDotNet, EndSession
  <2>2. g \in Nodes /\ g # n
    BY <2>1, PeerFacts
  <2> HIDE DEF g
  <2>3. out'[m][c] = IF m = n /\ c = d THEN SubSeq(out[m][c], 1, k)
                     ELSE IF m = g /\ c = d THEN <<>> ELSE out[m][c]
    BY <1>0, <2>1, <2>2 DEF TypeOK
  <2>4. m = n /\ c = d => /\ Has(SubSeq(out[m][c], 1, k), p) => Has(out[m][c], p)
                          /\ Once(SubSeq(out[m][c], 1, k), p)
    BY <1>0, PrefixHas
  <2> QED BY <1>0, <1>2, <1>3, <2>1, <2>3, <2>4, EmptyHas DEF Less
<1>17. CASE UNCHANGED vars
  BY <1>1, <1>2, <1>3, <1>17 DEF vars
<1> QED
  BY <1>1, <1>5, <1>8, <1>9, <1>10, <1>11, <1>12, <1>13, <1>14, <1>15, <1>16, <1>17
  DEF Next, Process

(* In a mesh with cycles a flood does not become a storm: while no          *)
(* duplicate filter evicts a packet, a node that does not own the address   *)
(* of a tracer sends it over a session only once, through restarts of nodes *)
(* and ends of sessions (SeenPackets, the tracer handlers).                 *)
THEOREM TracersPassedOnOnce == Spec /\ NothingEvicted => []TracerPassedOnOnce
<1>1. Init => FloodInv
  <2> SUFFICES ASSUME Init, NEW m \in Nodes, NEW c \in Conns, NEW p \in Packet, c \in At(m)
               PROVE  PassedOn(m, c, p)
    BY DEF FloodInv
  <2>1. out[m][c] = <<>> /\ incoming[Peer(m, c)] = <<>>
    BY PeerFacts DEF Init
  <2>2. \A x : ~ Has(<<>>, x) /\ Once(<<>>, x)
    BY EmptyHas
  <2> QED BY <2>1, <2>2 DEF PassedOn, Copied
<1>2. IInv /\ FloodInv /\ [Next]_vars /\ [KeepsSeen]_vars => FloodInv'
  BY NextPassedOn DEF FloodInv, IInv, At
<1>3. IInv /\ FloodInv => TracerPassedOnOnce
  <2> SUFFICES ASSUME IInv, FloodInv, NEW m \in Nodes, NEW c \in At(m),
                      NEW a \in Carried(m, c), NEW b \in Carried(m, c),
                      a[3] = b[3], a[3].cmd = "tracer", a[3].addr \notin Owns[m]
               PROVE  a = b
    BY DEF TracerPassedOnOnce
  <2> DEFINE h == Peer(m, c)
             p == a[3]
             e == Entry(p, c)
             E == [pkt : Packet, via : Conns]
             InLink(y) == \E i \in 1..Len(out[m][c]) : y = <<"link", i, p>> /\ out[m][c][i] = p
             InQueue(y) == \E i \in 1..Len(incoming[h]) :
                              y = <<"queue", i, p>> /\ incoming[h][i] = e
  <2>1. h \in Nodes /\ c \in Conns
    BY PeerFacts
  <2>2. out[m][c] \in Seq(Packet) /\ incoming[h] \in Seq(E)
    <3>1. out \in [Nodes -> [Conns -> Seq(Packet)]] /\ incoming \in [Nodes -> Seq(E)]
      BY DEF IInv, TypeOK
    <3> HIDE DEF h, E
    <3> QED BY <2>1, <3>1
  <2>3. \A i \in 1..Len(incoming[h]) : incoming[h][i] \in E
    BY <2>2, ElementType
  <2>4. ASSUME NEW y \in Carried(m, c), y[3] = p PROVE InLink(y) \/ InQueue(y)
    <3>1. CASE y \in {<<"link", i, out[m][c][i]>> : i \in 1..Len(out[m][c])}
      BY <2>4, <3>1
    <3>2. CASE y \in {<<"queue", i, incoming[h][i].pkt>> :
                        i \in {j \in 1..Len(incoming[h]) : incoming[h][j].via = c}}
      <4>1. PICK i \in 1..Len(incoming[h]) :
               y = <<"queue", i, incoming[h][i].pkt>> /\ incoming[h][i].via = c
        BY <3>2
      <4>2. incoming[h][i].pkt = p
        BY <2>4, <4>1
      <4>3. incoming[h][i] = e
        BY <2>3, <4>1, <4>2 DEF Entry
      <4> QED BY <4>1, <4>2, <4>3
    <3> QED BY <3>1, <3>2 DEF Carried
  <2>5. p \in Packet
    <3>1. CASE InLink(a)
      BY <2>2, <3>1
    <3>2. CASE InQueue(a)
      BY <2>3, <3>2 DEF Entry
    <3> QED BY <2>4, <3>1, <3>2
  <2>6. PassedOn(m, c, p)
    BY <2>1, <2>5 DEF FloodInv
  <2>7. /\ Once(out[m][c], p) /\ Once(incoming[h], e)
        /\ ~ (Has(out[m][c], p) /\ Has(incoming[h], e))
    BY <2>6 DEF PassedOn
  <2>8. (InLink(a) \/ InQueue(a)) /\ (InLink(b) \/ InQueue(b))
    BY <2>4
  <2> HIDE DEF h, e, p, E
  <2> QED BY <2>7, <2>8 DEF Once, Has
<1> QED BY <1>1, <1>2, <1>3, IInvAlways, PTL DEF Spec, NothingEvicted
=============================================================================
