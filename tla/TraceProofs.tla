----------------------------- MODULE TraceProofs -----------------------------
(***************************************************************************)
(* The rows of a hop table are right, for every mesh, every route table     *)
(* (loops included) and every time to live.                                 *)
(*                                                                          *)
(* Route(x) is a recursive function; that it satisfies its own equation is  *)
(* proved first, from the least number at which it would not.  The          *)
(* invariant then says of every packet on its way what the row made of it   *)
(* will say: a probe with time to live t is handled by the node that is     *)
(* TraceTtl - t + 1 hops away, and a reply with t names that node.          *)
(***************************************************************************)
EXTENDS Trace, Integers, FiniteSetTheorems, TLAPS

(* A nonempty set of natural numbers has a least element.                   *)
LEMMA LeastNumber ==
  ASSUME NEW T \in SUBSET Nat, T # {}
  PROVE  \E m \in T : \A k \in T : m <= k
<1> DEFINE U == {0 .. (n - 1) : n \in T}
           F == FiniteSubsetsOf(Nat)
<1>1. U \subseteq F /\ U # {}
  <2>1. ASSUME NEW n \in T
        PROVE  0 .. (n - 1) \in F
    <3>1. IsFiniteSet(0 .. (n - 1))
      <4>1. n - 1 \in Int /\ 0 \in Int
        OBVIOUS
      <4> QED BY <4>1, FS_Interval
    <3> QED BY <3>1 DEF FiniteSubsetsOf
  <2> QED BY <2>1
<1>2. IsWellFoundedOn(StrictSubsetOrdering(Nat), F)
  BY FS_StrictSubsetOrderingWellFounded
<1>3. PICK x \in U : \A y \in U : ~ (<<y, x>> \in StrictSubsetOrdering(Nat))
  <2> HIDE DEF U, F
  <2> QED BY <1>1, <1>2, WFMin
<1>4. PICK m \in T : x = 0 .. (m - 1)
  OBVIOUS
<1>5. ASSUME NEW k \in T, k < m PROVE FALSE
  <2>1. 0 .. (k - 1) \in U
    OBVIOUS
  <2>2. 0 .. (k - 1) \subseteq x /\ k \in x /\ k \notin 0 .. (k - 1)
    BY <1>4, <1>5
  <2>3. <<0 .. (k - 1), x>> \in StrictSubsetOrdering(Nat)
    BY <2>2, <1>4 DEF StrictSubsetOrdering
  <2> QED BY <2>1, <2>3, <1>3
<1> QED BY <1>4, <1>5

-----------------------------------------------------------------------------
Places == Nodes \cup {NoHop}

(* The node after n on the route to x.                                      *)
After(n, x) == IF n \in {NoHop, x} THEN NoHop ELSE hop[n][x]

(* The route to x as far as its first i nodes after the origin.             *)
IsRoute(f, x, i) ==
  /\ f \in [0 .. i -> Places]
  /\ f[0] = Origin
  /\ \A j \in 1 .. i : f[j] = After(f[j - 1], x)

LEMMA AfterIsAPlace ==
  ASSUME hop \in RouteTables, NEW n \in Places, NEW x \in Nodes
  PROVE  After(n, x) \in Places
BY TraceAssumption DEF After, Places

(* A route can be followed for any number of hops.                          *)
LEMMA RouteExists ==
  ASSUME hop \in RouteTables, NEW x \in Nodes, NEW i \in Nat
  PROVE  \E f : IsRoute(f, x, i)
<1> DEFINE T == {n \in Nat : ~ \E f : IsRoute(f, x, n)}
<1>1. SUFFICES ASSUME T # {} PROVE FALSE
  OBVIOUS
<1>2. PICK m \in T : \A k \in T : m <= k
  <2>1. T \in SUBSET Nat
    OBVIOUS
  <2> HIDE DEF T
  <2> QED BY <1>1, <2>1, LeastNumber
<1>3. m # 0
  <2> DEFINE f == [j \in 0 .. 0 |-> Origin]
  <2>1. IsRoute(f, x, 0)
    BY TraceAssumption DEF IsRoute, Places
  <2> QED BY <2>1, <1>2
<1>4. m - 1 \in Nat /\ m - 1 \notin T
  BY <1>2, <1>3
<1>5. PICK g : IsRoute(g, x, m - 1)
  BY <1>4
<1> DEFINE f == [j \in 0 .. m |-> IF j = m THEN After(g[m - 1], x) ELSE g[j]]
<1>6. f \in [0 .. m -> Places]
  <2>1. g[m - 1] \in Places
    BY <1>4, <1>5 DEF IsRoute
  <2>2. After(g[m - 1], x) \in Places
    BY <2>1, AfterIsAPlace
  <2>3. \A j \in 0 .. m : j # m => g[j] \in Places
    BY <1>2, <1>5 DEF IsRoute
  <2> QED BY <2>2, <2>3
<1>7. f[0] = Origin
  BY <1>2, <1>3, <1>5 DEF IsRoute
<1>8. ASSUME NEW j \in 1 .. m PROVE f[j] = After(f[j - 1], x)
  <2>1. j - 1 \in 0 .. m /\ j - 1 # m /\ f[j - 1] = g[j - 1]
    BY <1>2
  <2>2. CASE j = m
    BY <2>1, <2>2
  <2>3. CASE j # m
    <3>1. j \in 1 .. (m - 1) /\ f[j] = g[j]
      BY <1>2, <2>3
    <3> QED BY <2>1, <3>1, <1>5 DEF IsRoute
  <2> QED BY <2>2, <2>3
<1>9. IsRoute(f, x, m)
  <2> HIDE DEF f
  <2> QED BY <1>6, <1>7, <1>8 DEF IsRoute
<1> QED BY <1>9, <1>2

(* Route(x) follows the routes of the nodes, hop by hop.                    *)
LEMMA RouteUnfolds ==
  ASSUME hop \in RouteTables, NEW x \in Nodes
  PROVE  IsRoute(Route(x), x, TraceTtl)
<1> DEFINE D(at) == [i \in 0 .. TraceTtl |->
                       IF i = 0 THEN Origin
                       ELSE IF at[i - 1] \in {NoHop, x} THEN NoHop ELSE hop[at[i - 1]][x]]
<1>1. TraceTtl \in Nat
  BY TraceAssumption
<1>2. PICK f : IsRoute(f, x, TraceTtl)
  BY <1>1, RouteExists
<1>3. f = D(f)
  BY <1>1, <1>2 DEF IsRoute, After
<1>4. Route(x) = CHOOSE at : at = D(at)
  BY DEF Route
<1>5. Route(x) = D(Route(x))
  <2> HIDE DEF D
  <2> QED BY <1>3, <1>4
<1> DEFINE R == Route(x)
           T == {i \in 0 .. TraceTtl : R[i] \notin Places}
<1>6. /\ DOMAIN R = 0 .. TraceTtl /\ R = [i \in 0 .. TraceTtl |-> R[i]]
      /\ R[0] = Origin
      /\ \A j \in 1 .. TraceTtl : R[j] = After(R[j - 1], x)
  <2> HIDE DEF R
  <2>1. R = D(R)
    BY <1>5 DEF R
  <2> QED BY <1>1, <2>1 DEF After
<1>7. ASSUME NEW i \in T PROVE FALSE
  <2>1. PICK m \in T : \A k \in T : m <= k
    <3>1. T \in SUBSET Nat /\ T # {}
      BY <1>1, <1>7
    <3> HIDE DEF T
    <3> QED BY <3>1, LeastNumber
  <2>2. m # 0
    BY <2>1, <1>6, TraceAssumption DEF Places
  <2>3. m \in 1 .. TraceTtl /\ m - 1 \in 0 .. TraceTtl /\ m - 1 \notin T
    BY <1>1, <2>1, <2>2
  <2>4. R[m - 1] \in Places
    BY <2>3
  <2>5. R[m] \in Places
    <3> HIDE DEF R
    <3> QED BY <1>6, <2>3, <2>4, AfterIsAPlace
  <2> QED BY <2>1, <2>5
<1>8. \A i \in 0 .. TraceTtl : R[i] \in Places
  BY <1>7
<1> HIDE DEF R
<1>9. IsRoute(R, x, TraceTtl)
  BY <1>6, <1>8 DEF IsRoute
<1> QED BY <1>9 DEF R

-----------------------------------------------------------------------------
Row == Nodes \X (1 .. TraceTtl)

(* The node that answers, with time to live t, a probe for x.               *)
Answering(x, t) == Route(x)[TraceTtl - t + 1]

(* A probe of trace k, and the node that will handle it.                    *)
ProbeOf(m, k, t) ==
  m = [at |-> Answering(target[k], t), pkt |-> Probe(k, t, target[k])]

(* A reply to a probe of trace k.                                           *)
ReplyOf(m, k, t) ==
  \E n \in Nodes : m = [at |-> n, pkt |-> Reply(k, t, Answering(target[k], t))]

(* What is on its way belongs to a trace, and is right about its route.     *)
Rightful(m) ==
  \E k \in 1 .. Len(target) : \E t \in 1 .. TraceTtl :
    /\ Answering(target[k], t) \in Nodes
    /\ ProbeOf(m, k, t) \/ ReplyOf(m, k, t)

(* The inductive invariant.                                                 *)
IInv ==
  /\ hop \in RouteTables
  /\ target \in Seq(Nodes) /\ table \in Seq(SUBSET Row) /\ Len(table) = Len(target)
  /\ open \in 0 .. Len(target)
  /\ \A m \in net : Rightful(m)
  /\ TableIsRight

(* A packet that Sent puts on its way is handled by a neighbour.            *)
LEMMA SentTo ==
  ASSUME hop \in RouteTables, NEW n \in Nodes, NEW x \in Nodes, NEW p, NEW m \in Sent(n, x, p)
  PROVE  hop[n][x] \in Nodes /\ m = [at |-> hop[n][x], pkt |-> p]
BY TraceAssumption DEF Sent

(* The probe's next hop is the next node of the route.                      *)
LEMMA NextAnswering ==
  ASSUME hop \in RouteTables, NEW x \in Nodes, NEW t \in 2 .. TraceTtl,
         Answering(x, t) \in Nodes, Answering(x, t) # x
  PROVE  Answering(x, t - 1) = hop[Answering(x, t)][x]
<1> DEFINE j == TraceTtl - t + 2
<1>1. TraceTtl \in Nat /\ NoHop \notin Nodes
  BY TraceAssumption
<1>2. /\ j \in 1 .. TraceTtl /\ j - 1 = TraceTtl - t + 1
      /\ j = TraceTtl - (t - 1) + 1
  BY <1>1
<1>3. Route(x)[j] = After(Route(x)[j - 1], x)
  <2> HIDE DEF j
  <2> QED BY <1>2, RouteUnfolds DEF IsRoute
<1> QED BY <1>1, <1>2, <1>3 DEF Answering, After

(* The first probe goes to the first node of the route.                     *)
LEMMA FirstAnswering ==
  ASSUME hop \in RouteTables, NEW x \in Nodes \ {Origin}
  PROVE  Answering(x, TraceTtl) = hop[Origin][x]
<1>1. TraceTtl \in Nat /\ 1 \in 1 .. TraceTtl /\ TraceTtl - TraceTtl + 1 = 1 /\ 1 - 1 = 0
  BY TraceAssumption
<1>2. Route(x)[1] = After(Route(x)[1 - 1], x) /\ Route(x)[0] = Origin
  BY <1>1, RouteUnfolds DEF IsRoute
<1>3. Route(x)[1] = After(Origin, x)
  BY <1>1, <1>2
<1> QED BY <1>1, <1>3, TraceAssumption DEF Answering, After

(* While the routes stand, and the traces so far keep their targets, what   *)
(* was rightful stays so.                                                   *)
LEMMA StaysRightful ==
  ASSUME UNCHANGED hop, Len(target) \in Nat, Len(target') \in Nat,
         Len(target) <= Len(target'),
         \A k \in 1 .. Len(target) : target'[k] = target[k],
         NEW m, Rightful(m)
  PROVE  Rightful(m)'
<1>1. \A x : Route(x)' = Route(x)
  BY DEF Route
<1>2. \A x, t : Answering(x, t)' = Answering(x, t)
  BY <1>1 DEF Answering
<1>3. PICK k \in 1 .. Len(target), t \in 1 .. TraceTtl :
         Answering(target[k], t) \in Nodes /\ (ProbeOf(m, k, t) \/ ReplyOf(m, k, t))
  BY DEF Rightful
<1>4. k \in 1 .. Len(target') /\ target'[k] = target[k]
  BY <1>3
<1>5. Route(target[k])' = Route(target[k])
  BY <1>4 DEF Route
<1>6. Answering(target[k], t)' = Answering(target[k], t)
  BY <1>5 DEF Answering
<1>7. (ProbeOf(m, k, t) => ProbeOf(m, k, t)') /\ (ReplyOf(m, k, t) => ReplyOf(m, k, t)')
  BY <1>4, <1>6 DEF ProbeOf, ReplyOf, Probe, Reply
<1> QED BY <1>3, <1>4, <1>6, <1>7 DEF Rightful

(* A row that was right stays right while the routes stand.                 *)
LEMMA RowStaysRight ==
  ASSUME UNCHANGED hop, NEW k, target'[k] = target[k]
  PROVE  Route(target[k])' = Route(target[k])
BY DEF Route

(* The steps of a trace keep the invariant.                                 *)
LEMMA NextIInv ==
  ASSUME IInv, [Next]_vars
  PROVE  IInv'
<1> USE DEF IInv
<1>1. TraceTtl \in Nat /\ TraceTtl \in 1 .. TraceTtl /\ Origin \in Nodes
  BY TraceAssumption
<1>2. Len(target) \in Nat
  OBVIOUS
<1>3. ASSUME UNCHANGED <<hop, target>>
      PROVE  /\ \A m : Rightful(m) => Rightful(m)'
             /\ (\A m \in net' : m \in net) => \A m \in net' : Rightful(m)'
             /\ UNCHANGED table => TableIsRight'
  <2>1. \A m : Rightful(m) => Rightful(m)'
    BY <1>2, <1>3, StaysRightful
  <2>2. UNCHANGED table => TableIsRight'
    BY <1>3, RowStaysRight DEF TableIsRight
  <2> QED BY <2>1, <2>2
<1>4. CASE \E x \in Nodes \ {Origin} : StartTrace(x)
  <2>1. PICK x \in Nodes \ {Origin} : StartTrace(x)
    BY <1>4
  <2>2. PICK k \in Nat : k = Len(target) + 1
    BY <1>2
  <2> DEFINE p == Probe(k, TraceTtl, x)
  <2>3. /\ target' = Append(target, x) /\ table' = Append(table, {}) /\ open' = k
        /\ net' = net \cup Sent(Origin, x, p) /\ hop' = hop
    BY <2>1, <2>2 DEF StartTrace
  <2>4. /\ target' \in Seq(Nodes) /\ Len(target') = k /\ target'[k] = x
        /\ \A j \in 1 .. Len(target) : target'[j] = target[j]
    BY <2>2, <2>3
  <2>5. /\ table' \in Seq(SUBSET Row) /\ Len(table') = k /\ table'[k] = {}
        /\ \A j \in 1 .. Len(target) : table'[j] = table[j]
    BY <2>2, <2>3
  <2>6. \A m \in net : Rightful(m)'
    BY <1>2, <2>2, <2>3, <2>4, StaysRightful
  <2>7. ASSUME NEW m \in Sent(Origin, x, p) PROVE Rightful(m)'
    <3>1. hop[Origin][x] \in Nodes /\ m = [at |-> hop[Origin][x], pkt |-> p]
      BY <1>1, <2>7, SentTo
    <3>2. Answering(x, TraceTtl) = hop[Origin][x]
      BY FirstAnswering
    <3>3. Answering(target[k], TraceTtl)' = Answering(x, TraceTtl)
      BY <2>3, <2>4 DEF Answering, Route
    <3>4. ProbeOf(m, k, TraceTtl)'
      BY <2>4, <3>1, <3>2, <3>3 DEF ProbeOf, Probe
    <3>5. k \in 1 .. Len(target')
      BY <1>2, <2>2, <2>4
    <3> HIDE DEF p
    <3> QED BY <1>1, <3>1, <3>2, <3>3, <3>4, <3>5 DEF Rightful
  <2>8. TableIsRight'
    <3> SUFFICES ASSUME NEW j \in 1 .. Len(table'), NEW r \in table'[j]
                 PROVE  Route(target[j])'[TraceTtl - r[2] + 1] = r[1]
      BY DEF TableIsRight
    <3>1. j \in 1 .. Len(target)
      BY <2>2, <2>5
    <3>2. Route(target[j])' = Route(target[j]) /\ r \in table[j]
      BY <2>3, <2>4, <2>5, <3>1, RowStaysRight
    <3> QED BY <3>1, <3>2 DEF TableIsRight
  <2> HIDE DEF p
  <2> QED BY <2>2, <2>3, <2>4, <2>5, <2>6, <2>7, <2>8
<1>5. CASE EndTrace
  BY <1>2, <1>3, <1>5 DEF EndTrace
<1>6. ASSUME NEW m \in net, HandleProbe(m) PROVE IInv'
  <2>1. UNCHANGED <<hop, target, open, table>>
    BY <1>6 DEF HandleProbe
  <2>2. PICK k \in 1 .. Len(target), t \in 1 .. TraceTtl :
           Answering(target[k], t) \in Nodes /\ (ProbeOf(m, k, t) \/ ReplyOf(m, k, t))
    BY DEF Rightful
  <2> DEFINE n == Answering(target[k], t)
             x == target[k]
  <2>3. x \in Nodes /\ n \in Nodes
    BY <2>2
  <2>4. m.at = n /\ m.pkt = Probe(k, t, x)
    BY <1>6, <2>2 DEF HandleProbe, ProbeOf, ReplyOf, Reply
  <2>5. m.pkt.nonce = k /\ m.pkt.ttl = t /\ m.pkt.target = x
    BY <2>4 DEF Probe
  <2>6. ASSUME NEW q \in Sent(n, Origin, Reply(k, t, n)) PROVE Rightful(q)
    <3>1. hop[n][Origin] \in Nodes /\ q = [at |-> hop[n][Origin], pkt |-> Reply(k, t, n)]
      BY <1>1, <2>3, <2>6, SentTo
    <3>2. ReplyOf(q, k, t)
      BY <3>1 DEF ReplyOf
    <3> QED BY <2>2, <3>2 DEF Rightful
  <2>7. ASSUME t > 1, n # x, NEW q \in Sent(n, x, Probe(k, t - 1, x)) PROVE Rightful(q)
    <3>1. hop[n][x] \in Nodes /\ q = [at |-> hop[n][x], pkt |-> Probe(k, t - 1, x)]
      BY <2>3, <2>7, SentTo
    <3>2. t \in 2 .. TraceTtl /\ t - 1 \in 1 .. TraceTtl
      BY <1>1, <2>7
    <3>3. Answering(x, t - 1) = hop[n][x]
      BY <2>3, <2>7, <3>2, NextAnswering
    <3>4. ProbeOf(q, k, t - 1)
      BY <3>1, <3>3 DEF ProbeOf
    <3> QED BY <3>1, <3>2, <3>3, <3>4 DEF Rightful
  <2>8. \A q \in net' : q \in net \/ q \in Sent(n, Origin, Reply(k, t, n))
                          \/ (t > 1 /\ n # x /\ q \in Sent(n, x, Probe(k, t - 1, x)))
    <3> HIDE DEF n, x
    <3> QED BY <1>6, <2>4, <2>5 DEF HandleProbe, NextTtl
  <2>9. \A q \in net' : Rightful(q)
    <3> HIDE DEF n, x
    <3> QED BY <2>6, <2>7, <2>8
  <2>10. \A q \in net' : Rightful(q)'
    BY <1>3, <2>1, <2>9
  <2> QED BY <1>3, <2>1, <2>10
<1>7. ASSUME NEW m \in net, HandleReply(m) PROVE IInv'
  <2>1. UNCHANGED <<hop, target, open>> /\ net' \subseteq net
    BY <1>7 DEF HandleReply
  <2>2. \A q \in net' : Rightful(q)'
    BY <1>3, <2>1
  <2>3. CASE ~ IsTrace(m.at, m.pkt.nonce)
    <3>1. table' = table
      BY <1>7, <2>3 DEF HandleReply
    <3> QED BY <1>3, <2>1, <2>2, <3>1
  <2>4. CASE IsTrace(m.at, m.pkt.nonce)
    <3>1. PICK k \in 1 .. Len(target), t \in 1 .. TraceTtl :
             Answering(target[k], t) \in Nodes /\ (ProbeOf(m, k, t) \/ ReplyOf(m, k, t))
      BY DEF Rightful
    <3> DEFINE n == Answering(target[k], t)
    <3>2. m.pkt = Reply(k, t, n)
      BY <1>7, <3>1 DEF HandleReply, ProbeOf, ReplyOf, Probe
    <3>3. m.pkt.nonce = k /\ m.pkt.ttl = t /\ m.pkt.name = n /\ open = k
      BY <2>4, <3>2 DEF Reply, IsTrace
    <3>4. table' = [table EXCEPT ![k] = @ \cup {<<n, t>>}]
      BY <1>7, <2>4, <3>3 DEF HandleReply
    <3>5. k \in 1 .. Len(table) /\ <<n, t>> \in Row
      BY <3>1 DEF Row
    <3>6. /\ table' \in Seq(SUBSET Row) /\ Len(table') = Len(table)
          /\ table'[k] = table[k] \cup {<<n, t>>}
          /\ \A j \in 1 .. Len(table) : j # k => table'[j] = table[j]
      <4> HIDE DEF n
      <4>1. table[k] \cup {<<n, t>>} \in SUBSET Row
        BY <3>5
      <4> QED BY <3>4, <3>5, <4>1
    <3>7. TableIsRight'
      <4> SUFFICES ASSUME NEW j \in 1 .. Len(table'), NEW r \in table'[j]
                   PROVE  Route(target[j])'[TraceTtl - r[2] + 1] = r[1]
        BY DEF TableIsRight
      <4>1. Route(target[j])' = Route(target[j]) /\ j \in 1 .. Len(table)
        BY <2>1, <3>6, RowStaysRight
      <4>2. CASE r \in table[j]
        BY <4>1, <4>2 DEF TableIsRight
      <4>3. CASE j = k /\ r = <<n, t>>
        BY <4>1, <4>3 DEF Answering
      <4> QED BY <3>6, <4>1, <4>2, <4>3
    <3> QED BY <2>1, <2>2, <3>6, <3>7
  <2> QED BY <2>3, <2>4
<1>8. ASSUME NEW m \in net, UnknownCommand(m) \/ Lose(m) PROVE IInv'
  <2>1. UNCHANGED <<hop, target, open, table>> /\ net' \subseteq net
    BY <1>8 DEF UnknownCommand, Lose
  <2> QED BY <1>3, <2>1
<1>9. CASE UNCHANGED vars
  <2>1. UNCHANGED <<hop, target, open, table>> /\ net' \subseteq net
    BY <1>9 DEF vars
  <2> QED BY <1>3, <2>1
<1> QED BY <1>4, <1>5, <1>6, <1>7, <1>8, <1>9 DEF Next, Handle

(* A row of a hop table is right: the node it names is as many hops away on *)
(* the route to the target as its time to live says, whatever loops the     *)
(* routes form, whatever is lost and however late replies arrive            *)
(* (HandleProbe, HandleReply, Trace).                                       *)
THEOREM HopTableIsRight == Spec => []TableIsRight
<1>1. Init => IInv
  <2> SUFFICES ASSUME Init PROVE IInv
    OBVIOUS
  <2>1. <<>> \in Seq(Nodes) /\ <<>> \in Seq(SUBSET Row) /\ Len(<<>>) = 0
    OBVIOUS
  <2> QED BY <2>1 DEF Init, IInv, TableIsRight
<1>2. IInv /\ [Next]_vars => IInv'
  BY NextIInv
<1>3. IInv => TableIsRight
  BY DEF IInv
<1> QED BY <1>1, <1>2, <1>3, PTL DEF Spec
=============================================================================
