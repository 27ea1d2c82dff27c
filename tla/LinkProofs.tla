----------------------------- MODULE LinkProofs -----------------------------
(***************************************************************************)
(* What a link delivers, and that each of its sessions is a Session, for    *)
(* every mix of implementations, every set of keys, all packet lengths      *)
(* (longer than the length field can say too), buffer and socket sizes and  *)
(* any number of sessions and failures.                                     *)
(*                                                                          *)
(* ReceivedIsPrefix is not inductive: that the next packet passed on is the *)
(* next one that was given to the sender depends on every unit in between.  *)
(* The invariant Stream says what they are: the units of the frame being    *)
(* read, those on the wire and those still to be written are, concatenated, *)
(* the encoding of the packets that are due.  An end that is over has       *)
(* dropped what it would have written, so they are then the first part of   *)
(* it only.  Setup, the order of the handshake, tells which unit on the     *)
(* wire is no part of a frame.                                              *)
(*                                                                          *)
(* That the link implements Session needs one invariant more: Greeted, by   *)
(* which the first unit that an end in its handshake reads is a handshake,  *)
(* which carries no packet.  The packets in flight are those that end in    *)
(* the units on the way; PacketsOf of two stretches of units is PacketsOf   *)
(* of the one followed by that of the other, so that moving units from the  *)
(* queue to the buffer, to the wire and to the frame changes nothing, and   *)
(* what is left when an end drops its buffers is a first part of it.        *)
(*                                                                          *)
(* Encoded, Units and PacketsOf are recursive functions.  That they compute *)
(* what their definitions say is proved by induction over sets of numbers   *)
(* (UpTo), which needs no operator as a parameter.                          *)
(***************************************************************************)
EXTENDS Link, Integers, SequenceTheorems, FiniteSetTheorems, TLAPS

(* A nonempty set of natural numbers has a least element.                   *)
LEMMA LeastNumber ==
  ASSUME NEW T \in SUBSET Nat, T # {}
  PROVE  \E m \in T : \A k \in T : m <= k
<1> DEFINE U == {0 .. (n - 1) : n \in T}
           F == FiniteSubsetsOf(Nat)
<1>1. U \subseteq F /\ U # {}
  <2>1. ASSUME NEW n \in T
        PROVE  0 .. (n - 1) \in F
    <3>1. IsFiniteSet(0 .. (n - 1))
      <4>1. n - 1 \in Int /\ 0 \in Int
        OBVIOUS
      <4> QED BY <4>1, FS_Interval
    <3> QED BY <3>1 DEF FiniteSubsetsOf
  <2> QED BY <2>1
<1>2. IsWellFoundedOn(StrictSubsetOrdering(Nat), F)
  BY FS_StrictSubsetOrderingWellFounded
<1>3. PICK x \in U : \A y \in U : ~ (<<y, x>> \in StrictSubsetOrdering(Nat))
  <2> HIDE DEF U, F
  <2> QED BY <1>1, <1>2, WFMin
<1>4. PICK m \in T : x = 0 .. (m - 1)
  OBVIOUS
<1>5. ASSUME NEW k \in T, k < m PROVE FALSE
  <2>1. 0 .. (k - 1) \in U
    OBVIOUS
  <2>2. 0 .. (k - 1) \subseteq x /\ k \in x /\ k \notin 0 .. (k - 1)
    BY <1>4, <1>5
  <2>3. <<0 .. (k - 1), x>> \in StrictSubsetOrdering(Nat)
    BY <2>2, <1>4 DEF StrictSubsetOrdering
  <2> QED BY <2>1, <2>3, <1>3
<1> QED BY <1>4, <1>5

(* Induction up to n, for a set of numbers.                                 *)
LEMMA UpTo ==
  ASSUME NEW n \in Nat, NEW T, 0 \in T, \A k \in 0 .. n : k \in T => k + 1 \in T
  PROVE  \A k \in 0 .. n : k \in T
<1> DEFINE W == {k \in 0 .. n : k \notin T}
<1> SUFFICES ASSUME W # {} PROVE FALSE
  OBVIOUS
<1>1. PICK m \in W : \A k \in W : m <= k
  <2>1. W \in SUBSET Nat
    OBVIOUS
  <2> HIDE DEF W
  <2> QED BY <2>1, LeastNumber
<1>2. m - 1 \in 0 .. n /\ m - 1 \notin W
  BY <1>1
<1> QED BY <1>1, <1>2

-----------------------------------------------------------------------------
(* Sequences joined end to end                                              *)

(* f[i] is g[1] to g[i], joined.                                            *)
IsJoin(f, T, g, k) ==
  /\ f \in [0 .. k -> Seq(T)]
  /\ f[0] = <<>>
  /\ \A i \in 1 .. k : f[i] = f[i - 1] \o g[i]

(* Sequences can be joined, one after the other.                            *)
LEMMA JoinExists ==
  ASSUME NEW T, NEW k \in Nat, NEW g, \A i \in 1 .. k : g[i] \in Seq(T)
  PROVE  \E f : IsJoin(f, T, g, k)
<1> DEFINE W == {i \in 0 .. k : \E f : IsJoin(f, T, g, i)} \cup {k + 1}
<1>1. 0 \in W
  <2>1. IsJoin([i \in 0 .. 0 |-> <<>>], T, g, 0)
    BY DEF IsJoin
  <2> QED BY <2>1
<1>2. ASSUME NEW i \in 0 .. k, i \in W, i # k PROVE i + 1 \in W
  <2>1. PICK h : IsJoin(h, T, g, i)
    BY <1>2
  <2> DEFINE f == [j \in 0 .. i + 1 |-> IF j = i + 1 THEN h[i] \o g[i + 1] ELSE h[j]]
  <2>2. g[i + 1] \in Seq(T) /\ h[i] \in Seq(T)
    BY <1>2, <2>1 DEF IsJoin
  <2>3. h[i] \o g[i + 1] \in Seq(T)
    BY <2>2, ConcatProperties
  <2>4. \A j \in 0 .. i : h[j] \in Seq(T) /\ j # i + 1 /\ j \in 0 .. i + 1
    BY <2>1 DEF IsJoin
  <2>5. f \in [0 .. i + 1 -> Seq(T)] /\ f[0] = <<>>
    BY <2>1, <2>3, <2>4 DEF IsJoin
  <2>6. ASSUME NEW j \in 1 .. i + 1 PROVE f[j] = f[j - 1] \o g[j]
    <3>1. j - 1 \in 0 .. i /\ f[j - 1] = h[j - 1]
      BY <2>4
    <3>2. CASE j = i + 1
      <4>1. j - 1 = i /\ j \in 0 .. i + 1
        BY <3>2
      <4>2. f[j] = h[i] \o g[i + 1]
        BY <3>2, <4>1, Zenon
      <4> QED BY <3>1, <3>2, <4>1, <4>2
    <3>3. CASE j # i + 1
      <4>1. j \in 1 .. i /\ f[j] = h[j]
        BY <3>3
      <4> QED BY <2>1, <3>1, <4>1 DEF IsJoin
    <3> QED BY <3>2, <3>3
  <2>7. IsJoin(f, T, g, i + 1)
    <3> HIDE DEF f
    <3> QED BY <2>5, <2>6 DEF IsJoin
  <2> QED BY <1>2, <2>7
<1>3. ASSUME NEW i \in 0 .. k, i = k PROVE i + 1 \in W
  BY <1>3
<1>4. k \in W
  <2>1. \A i \in 0 .. k : i \in W => i + 1 \in W
    BY <1>2, <1>3
  <2>2. k \in 0 .. k
    OBVIOUS
  <2> HIDE DEF W
  <2> QED BY <1>1, <2>1, <2>2, UpTo
<1> QED BY <1>4

(* Joins of the same sequences are the same.                                *)
LEMMA JoinUnique ==
  ASSUME NEW T, NEW k \in Nat, NEW l \in Nat, k <= l, NEW f, NEW g, NEW a, NEW b,
         IsJoin(f, T, a, k), IsJoin(g, T, b, l), \A i \in 1 .. k : a[i] = b[i]
  PROVE  f[k] = g[k]
<1> DEFINE W == {i \in 0 .. k : f[i] = g[i]} \cup {k + 1}
<1>1. 0 \in W
  BY DEF IsJoin
<1>2. ASSUME NEW i \in 0 .. k, i \in W PROVE i + 1 \in W
  <2>1. CASE i = k
    BY <2>1
  <2>2. CASE i # k
    <3>1. PICK j \in 1 .. k : j = i + 1
      BY <2>2
    <3>2. j \in 1 .. l /\ j - 1 = i /\ f[i] = g[i]
      BY <1>2, <2>2, <3>1
    <3>3. f[j] = f[j - 1] \o a[j]
      BY DEF IsJoin
    <3>4. g[j] = g[j - 1] \o b[j]
      BY <3>2 DEF IsJoin
    <3>5. f[j] = g[j]
      BY <3>2, <3>3, <3>4
    <3> QED BY <3>1, <3>5
  <2> QED BY <2>1, <2>2
<1>3. k \in W
  <2> HIDE DEF W
  <2> QED BY <1>1, <1>2, UpTo
<1> QED BY <1>3

(* A function that is defined by joining has sequences as its values.       *)
LEMMA JoinTyped ==
  ASSUME NEW T, NEW k \in Nat, NEW g, \A i \in 1 .. k : g[i] \in Seq(T), NEW f,
         f = [i \in 0 .. k |-> f[i]], f[0] = <<>>,
         \A i \in 1 .. k : f[i] = f[i - 1] \o g[i]
  PROVE  IsJoin(f, T, g, k)
<1> DEFINE W == {i \in 0 .. k : f[i] \in Seq(T)} \cup {k + 1}
<1>1. 0 \in W
  <2>1. <<>> \in Seq(T) /\ 0 \in 0 .. k
    OBVIOUS
  <2> QED BY <2>1, Zenon
<1>2. ASSUME NEW i \in 0 .. k, i \in W PROVE i + 1 \in W
  <2>1. CASE i = k
    BY <2>1
  <2>2. CASE i # k
    <3>1. PICK j \in 1 .. k : j = i + 1
      BY <2>2
    <3>2. j - 1 = i /\ f[i] \in Seq(T) /\ g[j] \in Seq(T)
      BY <1>2, <2>2, <3>1
    <3>3. f[j] = f[j - 1] \o g[j]
      OBVIOUS
    <3>4. f[j] \in Seq(T)
      BY <3>2, <3>3, ConcatProperties
    <3> QED BY <3>1, <3>4
  <2> QED BY <2>1, <2>2
<1>3. \A i \in 0 .. k : i \in W
  <2> HIDE DEF W
  <2> QED BY <1>1, <1>2, UpTo
<1>4. \A i \in 0 .. k : f[i] \in Seq(T)
  BY <1>3
<1> QED BY <1>4 DEF IsJoin

-----------------------------------------------------------------------------
(* Units and frames                                                         *)
Item == Packets \cup {Empty}

Unit == [unit : {"hello"}, key : Keys \cup KeysL] \cup [unit : {"len"}, n : Nat]
          \cup [unit : {"byte"}, pkt : Packets, i : Nat] \cup [unit : {"mac"}, pkt : Packets]

(* Concatenating units is associative.                                      *)
LEMMA Associative ==
  ASSUME NEW a \in Seq(Unit), NEW b \in Seq(Unit), NEW c \in Seq(Unit)
  PROVE  (a \o b) \o c = a \o (b \o c)
BY ConcatAssociative

(* The bytes of packet p, and the units that an item of the channel makes.  *)
Bytes(p) == [i \in 1 .. Size[p] |-> [unit |-> "byte", pkt |-> p, i |-> i]]
UnitsOf(x) == IF x = Empty THEN <<>> ELSE FrameOf(x)

(* What a frame looks like, unit by unit.                                   *)
LEMMA FrameShape ==
  ASSUME NEW p \in Packets
  PROVE  /\ FrameOf(p) \in Seq(Unit) /\ Len(FrameOf(p)) = Size[p] + 2
         /\ Size[p] \in Nat \ {0}
         /\ FrameOf(p)[1] = [unit |-> "len", n |-> Size[p] % LenMod]
         /\ \A i \in 2 .. Size[p] + 1 :
              FrameOf(p)[i] = [unit |-> "byte", pkt |-> p, i |-> i - 1]
         /\ FrameOf(p)[Size[p] + 2] = [unit |-> "mac", pkt |-> p]
<1> DEFINE l == [unit |-> "len", n |-> Size[p] % LenMod]
           m == [unit |-> "mac", pkt |-> p]
           b == Bytes(p)
<1>1. Size[p] \in Nat \ {0} /\ Size[p] % LenMod \in Nat
  BY LinkAssumption
<1>2. l \in Unit /\ m \in Unit
  BY <1>1 DEF Unit
<1>3. \A i \in 1 .. Size[p] : [unit |-> "byte", pkt |-> p, i |-> i] \in Unit
  BY <1>1 DEF Unit
<1>4. b \in Seq(Unit) /\ Len(b) = Size[p]
      /\ \A i \in 1 .. Size[p] : b[i] = [unit |-> "byte", pkt |-> p, i |-> i]
  BY <1>1, <1>3 DEF Bytes
<1>5. FrameOf(p) = (<<l>> \o b) \o <<m>>
  BY DEF FrameOf, Bytes
<1> HIDE DEF l, m, b
<1>6. /\ <<l>> \o b \in Seq(Unit) /\ Len(<<l>> \o b) = Size[p] + 1
      /\ (<<l>> \o b)[1] = l
      /\ \A i \in 2 .. Size[p] + 1 : (<<l>> \o b)[i] = b[i - 1]
  BY <1>1, <1>2, <1>4
<1> DEFINE c == <<l>> \o b
           k == Size[p] + 1
<1>7. c \in Seq(Unit) /\ Len(c) = k /\ k \in Nat /\ k + 1 = Size[p] + 2
  BY <1>1, <1>6
<1> HIDE DEF c, k
<1>8. /\ c \o <<m>> \in Seq(Unit) /\ Len(c \o <<m>>) = k + 1
      /\ (c \o <<m>>)[k + 1] = m
      /\ \A i \in 1 .. k : (c \o <<m>>)[i] = c[i]
  BY <1>2, <1>7
<1>9. /\ c \o <<m>> \in Seq(Unit) /\ Len(c \o <<m>>) = Size[p] + 2
      /\ (c \o <<m>>)[Size[p] + 2] = m
      /\ \A i \in 1 .. Size[p] + 1 : (c \o <<m>>)[i] = c[i]
  <2> HIDE DEF m
  <2> QED BY <1>7, <1>8 DEF k
<1>10. c[1] = l /\ \A i \in 2 .. Size[p] + 1 : c[i] = [unit |-> "byte", pkt |-> p, i |-> i - 1]
  <2>1. \A i \in 2 .. Size[p] + 1 : i - 1 \in 1 .. Size[p]
    BY <1>1
  <2> QED BY <1>4, <1>6, <2>1 DEF c
<1>11. FrameOf(p) = c \o <<m>>
  BY <1>5 DEF c
<1>12. FrameOf(p)[1] = l
  BY <1>1, <1>9, <1>10, <1>11
<1>13. \A i \in 2 .. Size[p] + 1 : FrameOf(p)[i] = [unit |-> "byte", pkt |-> p, i |-> i - 1]
  BY <1>1, <1>9, <1>10, <1>11
<1> QED BY <1>1, <1>9, <1>11, <1>12, <1>13 DEF l, m

(* An item of the channel makes units.                                      *)
LEMMA UnitsOfType ==
  ASSUME NEW x \in Item
  PROVE  UnitsOf(x) \in Seq(Unit)
<1>1. CASE x = Empty
  BY <1>1 DEF UnitsOf
<1>2. CASE x # Empty
  <2>1. x \in Packets
    BY <1>2 DEF Item
  <2> QED BY <1>2, <2>1, FrameShape DEF UnitsOf
<1> QED BY <1>1, <1>2

-----------------------------------------------------------------------------
(* Encoding a queue                                                         *)

(* What each item of q is encoded as.                                       *)
Encodings(q) == [i \in 1 .. Len(q) |-> UnitsOf(q[i])]

(* Encoded joins them.                                                      *)
LEMMA EncodedIs ==
  ASSUME NEW q \in Seq(Item), NEW k \in 0 .. Len(q)
  PROVE  /\ \A i \in 1 .. k : Encodings(q)[i] = UnitsOf(q[i])
         /\ \E f : IsJoin(f, Unit, Encodings(q), k) /\ Encoded(q, k) = f[k]
<1> DEFINE D(enc) == [i \in 0 .. k |->
                        IF i = 0 THEN <<>>
                        ELSE enc[i - 1] \o (IF q[i] = Empty THEN <<>> ELSE FrameOf(q[i]))]
           g == CHOOSE enc : enc = D(enc)
<1>1. k \in Nat /\ \A i \in 1 .. k : Encodings(q)[i] = UnitsOf(q[i]) /\ Encodings(q)[i] \in Seq(Unit)
  <2>1. k \in Nat /\ \A i \in 1 .. k : i \in 1 .. Len(q) /\ q[i] \in Item
    OBVIOUS
  <2> QED BY <2>1, UnitsOfType DEF Encodings
<1>2. PICK f : IsJoin(f, Unit, Encodings(q), k)
  BY <1>1, JoinExists
<1>3. f = D(f)
  <2>1. /\ f = [i \in 0 .. k |-> f[i]] /\ f[0] = <<>>
        /\ \A i \in 1 .. k : f[i] = f[i - 1] \o (IF q[i] = Empty THEN <<>> ELSE FrameOf(q[i]))
    BY <1>1, <1>2 DEF IsJoin, UnitsOf
  <2>2. \A i \in 0 .. k : i # 0 => i \in 1 .. k
    OBVIOUS
  <2>3. \A i \in 0 .. k : f[i] = D(f)[i]
    BY <2>1, <2>2
  <2> QED BY <2>1, <2>3
<1>4. g = D(g)
  <2> HIDE DEF D
  <2> QED BY <1>3
<1>5. Encoded(q, k) = g[k]
  BY DEF Encoded
<1> HIDE DEF g
<1>6. /\ g = [i \in 0 .. k |-> g[i]] /\ g[0] = <<>>
      /\ \A i \in 1 .. k : g[i] = g[i - 1] \o Encodings(q)[i]
  BY <1>1, <1>4 DEF UnitsOf
<1>7. IsJoin(g, Unit, Encodings(q), k)
  BY <1>1, <1>6, JoinTyped
<1> QED BY <1>1, <1>5, <1>7

(* What is encoded of a queue depends on the items encoded only.            *)
LEMMA EncodedAgree ==
  ASSUME NEW q \in Seq(Item), NEW r \in Seq(Item), NEW k \in 0 .. Len(q), k <= Len(r),
         \A i \in 1 .. k : q[i] = r[i]
  PROVE  Encoded(q, k) = Encoded(r, k)
<1>1. k \in Nat /\ k \in 0 .. Len(r)
  OBVIOUS
<1>2. PICK f : IsJoin(f, Unit, Encodings(q), k) /\ Encoded(q, k) = f[k]
  BY EncodedIs
<1>3. PICK g : IsJoin(g, Unit, Encodings(r), k) /\ Encoded(r, k) = g[k]
  BY <1>1, EncodedIs
<1>4. \A i \in 1 .. k : Encodings(q)[i] = Encodings(r)[i]
  BY <1>1, EncodedIs
<1>5. f[k] = g[k]
  BY <1>1, <1>2, <1>3, <1>4, JoinUnique
<1> QED BY <1>2, <1>3, <1>5

(* One item more.                                                           *)
LEMMA EncodedUnfolds ==
  ASSUME NEW q \in Seq(Item), NEW k \in 0 .. Len(q)
  PROVE  /\ Encoded(q, k) \in Seq(Unit)
         /\ k = 0 => Encoded(q, k) = <<>>
         /\ k # 0 => Encoded(q, k) = Encoded(q, k - 1) \o UnitsOf(q[k])
<1>1. PICK f : IsJoin(f, Unit, Encodings(q), k) /\ Encoded(q, k) = f[k]
  BY EncodedIs
<1>2. f[k] \in Seq(Unit) /\ f[0] = <<>>
  BY <1>1 DEF IsJoin
<1>3. ASSUME k # 0 PROVE Encoded(q, k) = Encoded(q, k - 1) \o UnitsOf(q[k])
  <2>1. k \in 1 .. k /\ k - 1 \in 0 .. Len(q) /\ k - 1 \in Nat /\ k \in Nat /\ k - 1 <= k
    BY <1>3
  <2>2. PICK g : IsJoin(g, Unit, Encodings(q), k - 1) /\ Encoded(q, k - 1) = g[k - 1]
    BY <2>1, EncodedIs
  <2>3. g[k - 1] = f[k - 1]
    BY <1>1, <2>1, <2>2, JoinUnique
  <2>4. f[k] = f[k - 1] \o UnitsOf(q[k])
    BY <1>1, <2>1, EncodedIs DEF IsJoin
  <2> QED BY <1>1, <2>2, <2>3, <2>4
<1> QED BY <1>1, <1>2, <1>3

(* The encoding of the whole queue.                                         *)
Enc(q) == Encoded(q, Len(q))

(* The encoding of a queue consists of units.                               *)
LEMMA EncType ==
  ASSUME NEW q \in Seq(Item)
  PROVE  Enc(q) \in Seq(Unit)
<1>1. Len(q) \in 0 .. Len(q)
  OBVIOUS
<1> QED BY <1>1, EncodedUnfolds DEF Enc

(* An empty queue is encoded as nothing.                                    *)
LEMMA EncEmpty == Enc(<<>>) = <<>>
<1>1. <<>> \in Seq(Item) /\ Len(<<>>) = 0 /\ 0 \in 0 .. Len(<<>>)
  OBVIOUS
<1> QED BY <1>1, EncodedUnfolds DEF Enc

(* An item added to a queue adds its units to the encoding.                 *)
LEMMA EncAppend ==
  ASSUME NEW q \in Seq(Item), NEW x \in Item
  PROVE  Enc(Append(q, x)) = Enc(q) \o UnitsOf(x)
<1> DEFINE r == Append(q, x)
           n == Len(q)
<1>1. /\ r \in Seq(Item) /\ Len(r) = n + 1 /\ r[n + 1] = x /\ n \in Nat
      /\ \A i \in 1 .. n : r[i] = q[i]
  BY AppendProperties
<1>2. n \in 0 .. Len(q) /\ n <= Len(r) /\ n + 1 \in 0 .. Len(r)
  BY <1>1
<1> HIDE DEF r, n
<1>3. Encoded(q, n) = Encoded(r, n)
  BY <1>1, <1>2, EncodedAgree
<1>4. PICK j \in 0 .. Len(r) : j = n + 1
  BY <1>2
<1>5. j # 0 /\ j - 1 = n /\ j = Len(r) /\ r[j] = x
  BY <1>1, <1>4
<1>6. Encoded(r, j) = Encoded(r, j - 1) \o UnitsOf(r[j])
  BY <1>1, <1>5, EncodedUnfolds
<1>7. Encoded(r, Len(r)) = Encoded(q, n) \o UnitsOf(x)
  BY <1>3, <1>5, <1>6
<1> QED BY <1>7 DEF Enc, r, n

(* A batch, and what is left in the channel.                                *)
LEMMA EncSplits ==
  ASSUME NEW q \in Seq(Item), NEW k \in 0 .. Len(q)
  PROVE  Left(q, k) \in Seq(Item) /\ Encoded(q, k) \o Enc(Left(q, k)) = Enc(q)
<1>1. PICK n \in Nat : Len(q) = k + n /\ k \in Nat /\ Len(q) \in Nat
  <2>1. Len(q) - k \in Nat /\ Len(q) = k + (Len(q) - k) /\ k \in Nat /\ Len(q) \in Nat
    OBVIOUS
  <2> QED BY <2>1
<1> DEFINE r == Left(q, k)
           T == {j \in 0 .. n : Encoded(q, k) \o Encoded(r, j) = Encoded(q, k + j)} \cup {n + 1}
<1>2. r \in Seq(Item) /\ Len(r) = n /\ \A j \in 1 .. n : r[j] = q[k + j]
  <2>1. k + 1 \in Int /\ Len(q) \in Int /\ \A i \in k + 1 .. Len(q) : q[i] \in Item
    BY <1>1
  <2>2. /\ SubSeq(q, k + 1, Len(q)) \in Seq(Item)
        /\ Len(SubSeq(q, k + 1, Len(q))) = IF k + 1 <= Len(q) THEN Len(q) - (k + 1) + 1 ELSE 0
        /\ \A i \in 1 .. Len(q) - (k + 1) + 1 : SubSeq(q, k + 1, Len(q))[i] = q[k + 1 + i - 1]
    BY <2>1, SubSeqProperties
  <2>3. /\ Len(q) - (k + 1) + 1 = n
        /\ \A i \in 1 .. n : k + 1 + i - 1 = k + i
    BY <1>1
  <2>4. Len(SubSeq(q, k + 1, Len(q))) = n
    <3>1. CASE k + 1 <= Len(q)
      BY <2>2, <2>3, <3>1
    <3>2. CASE ~ (k + 1 <= Len(q))
      <4>1. n = 0
        BY <1>1, <3>2
      <4> QED BY <2>2, <3>2, <4>1
    <3> QED BY <3>1, <3>2
  <2>5. ASSUME NEW i \in 1 .. n PROVE SubSeq(q, k + 1, Len(q))[i] = q[k + i]
    BY <2>2, <2>3
  <2> QED BY <2>2, <2>4, <2>5 DEF Left
<1> HIDE DEF r
<1>3. Encoded(q, k) \in Seq(Unit)
  BY EncodedUnfolds
<1>4. 0 \in T
  <2>1. Encoded(r, 0) = <<>> /\ k + 0 = k
    BY <1>1, <1>2, EncodedUnfolds
  <2> QED BY <1>1, <1>3, <2>1, ConcatEmptySeq
<1>5. ASSUME NEW i \in 0 .. n, i \in T PROVE i + 1 \in T
  <2>1. CASE i = n
    BY <2>1
  <2>2. CASE i # n
    <3>1. PICK j \in 1 .. n : j = i + 1
      BY <1>1, <2>2
    <3>2. /\ j - 1 = i /\ j # 0 /\ j \in 0 .. Len(r) /\ i \in 0 .. Len(r)
          /\ k + j \in 0 .. Len(q) /\ k + j # 0 /\ k + j - 1 = k + i
      BY <1>1, <1>2, <3>1
    <3>3. Encoded(q, k) \o Encoded(r, i) = Encoded(q, k + i)
      BY <1>1, <1>5, <2>2
    <3>4. Encoded(r, j) = Encoded(r, i) \o UnitsOf(r[j])
      BY <1>2, <3>2, EncodedUnfolds
    <3>5. Encoded(q, k + j) = Encoded(q, k + i) \o UnitsOf(q[k + j])
      BY <3>2, EncodedUnfolds
    <3>6. r[j] = q[k + j] /\ r[j] \in Item
      BY <1>2, <3>1
    <3>7. Encoded(r, i) \in Seq(Unit) /\ UnitsOf(r[j]) \in Seq(Unit)
      BY <1>2, <3>2, <3>6, EncodedUnfolds, UnitsOfType
    <3>8. (Encoded(q, k) \o Encoded(r, i)) \o UnitsOf(r[j])
            = Encoded(q, k) \o (Encoded(r, i) \o UnitsOf(r[j]))
      BY <1>3, <3>7, Associative
    <3>9. Encoded(q, k) \o Encoded(r, j) = Encoded(q, k + j)
      BY <3>3, <3>4, <3>5, <3>6, <3>8
    <3> QED BY <3>1, <3>9
  <2> QED BY <2>1, <2>2
<1>6. n \in T
  <2>1. n \in 0 .. n
    BY <1>1
  <2> HIDE DEF T
  <2> QED BY <1>1, <1>4, <1>5, <2>1, UpTo
<1>7. Encoded(q, k) \o Encoded(r, n) = Encoded(q, k + n)
  BY <1>1, <1>6
<1> QED BY <1>1, <1>2, <1>7 DEF Enc, r

(* The frame of the first packet comes first.                               *)
LEMMA EncFirst ==
  ASSUME NEW q \in Seq(Item), q # <<>>
  PROVE  Tail(q) \in Seq(Item) /\ Enc(q) = UnitsOf(q[1]) \o Enc(Tail(q))
<1>1. 1 \in 0 .. Len(q) /\ 0 \in 0 .. Len(q) /\ 1 # 0 /\ 1 - 1 = 0 /\ q[1] \in Item
  OBVIOUS
<1>2. Encoded(q, 1) = Encoded(q, 1 - 1) \o UnitsOf(q[1])
  BY <1>1, EncodedUnfolds
<1>3. Encoded(q, 0) = <<>>
  BY <1>1, EncodedUnfolds
<1>4. Encoded(q, 1) = UnitsOf(q[1])
  BY <1>1, <1>2, <1>3, UnitsOfType, ConcatEmptySeq
<1>5. Left(q, 1) = Tail(q)
  BY TailIsSubSeq DEF Left
<1> QED BY <1>1, <1>4, <1>5, EncSplits

-----------------------------------------------------------------------------
(* Batches                                                                  *)
Weight(x) == IF x = Empty THEN 0 ELSE Size[x] + 2

(* The space an item takes in the buffer.                                   *)
LEMMA WeightType == \A x \in Item : Weight(x) \in Nat
BY LinkAssumption DEF Weight, Item

IsTotal(f, q, k) ==
  /\ f \in [0 .. k -> Nat]
  /\ f[0] = 0
  /\ \A i \in 1 .. k : f[i] = f[i - 1] + Weight(q[i])

(* The space that the first items of a queue take, item by item.            *)
LEMMA TotalExists ==
  ASSUME NEW q \in Seq(Item)
  PROVE  \E f : IsTotal(f, q, Len(q))
<1> DEFINE T == {i \in 0 .. Len(q) : \E f : IsTotal(f, q, i)} \cup {Len(q) + 1}
<1>1. 0 \in T
  <2>1. IsTotal([i \in 0 .. 0 |-> 0], q, 0)
    BY DEF IsTotal
  <2> QED BY <2>1
<1>2. ASSUME NEW i \in 0 .. Len(q), i \in T, i # Len(q) PROVE i + 1 \in T
  <2>1. PICK g : IsTotal(g, q, i)
    BY <1>2
  <2> DEFINE f == [j \in 0 .. i + 1 |-> IF j = i + 1 THEN g[i] + Weight(q[i + 1]) ELSE g[j]]
  <2>2. q[i + 1] \in Item /\ g[i] \in Nat
    BY <1>2, <2>1 DEF IsTotal
  <2>3. g[i] + Weight(q[i + 1]) \in Nat
    BY <2>2, WeightType
  <2>4. \A j \in 0 .. i : g[j] \in Nat /\ j # i + 1 /\ j \in 0 .. i + 1
    BY <2>1 DEF IsTotal
  <2>5. f \in [0 .. i + 1 -> Nat] /\ f[0] = 0
    BY <2>1, <2>3, <2>4 DEF IsTotal
  <2>6. ASSUME NEW j \in 1 .. i + 1 PROVE f[j] = f[j - 1] + Weight(q[j])
    <3>1. j - 1 \in 0 .. i /\ f[j - 1] = g[j - 1]
      BY <2>4
    <3>2. CASE j = i + 1
      BY <3>1, <3>2
    <3>3. CASE j # i + 1
      <4>1. j \in 1 .. i /\ f[j] = g[j]
        BY <3>3
      <4> QED BY <2>1, <3>1, <4>1 DEF IsTotal
    <3> QED BY <3>2, <3>3
  <2>7. IsTotal(f, q, i + 1)
    <3> HIDE DEF f
    <3> QED BY <2>5, <2>6 DEF IsTotal
  <2> QED BY <1>2, <2>7
<1>3. ASSUME NEW i \in 0 .. Len(q), i = Len(q) PROVE i + 1 \in T
  BY <1>3
<1>4. Len(q) \in T
  <2>1. Len(q) \in 0 .. Len(q) /\ Len(q) \in Nat
    OBVIOUS
  <2> HIDE DEF T
  <2> QED BY <1>1, <1>2, <1>3, <2>1, UpTo
<1> QED BY <1>4

(* Units computes numbers, and starts from 0.                               *)
LEMMA UnitsUnfold ==
  ASSUME NEW q \in Seq(Item)
  PROVE  Units(q)[0] = 0 /\ \A i \in 0 .. Len(q) : Units(q)[i] \in Nat
<1> DEFINE n == Len(q)
           D(total) == [i \in 0 .. n |->
                          IF i = 0 THEN 0
                          ELSE total[i - 1] + (IF q[i] = Empty THEN 0 ELSE Size[q[i]] + 2)]
           g == CHOOSE total : total = D(total)
<1>1. PICK f : IsTotal(f, q, n)
  BY TotalExists
<1>2. f = D(f)
  <2>1. /\ f = [i \in 0 .. n |-> f[i]] /\ f[0] = 0
        /\ \A i \in 1 .. n : f[i] = f[i - 1] + (IF q[i] = Empty THEN 0 ELSE Size[q[i]] + 2)
    BY <1>1 DEF IsTotal, Weight
  <2>2. \A i \in 0 .. n : i # 0 => i \in 1 .. n
    OBVIOUS
  <2>3. \A i \in 0 .. n : f[i] = D(f)[i]
    BY <2>1, <2>2
  <2> QED BY <2>1, <2>3
<1>3. g = D(g)
  <2> HIDE DEF D
  <2> QED BY <1>2
<1>4. Units(q) = g
  BY DEF Units
<1> HIDE DEF g
<1>5. /\ DOMAIN g = 0 .. n /\ g[0] = 0
      /\ \A i \in 1 .. n : g[i] = g[i - 1] + Weight(q[i])
  BY <1>3 DEF Weight
<1>6. n \in Nat
  OBVIOUS
<1> HIDE DEF n
<1>7. \A i \in 0 .. n : g[i] \in Nat
  <2> DEFINE T == {i \in 0 .. n : g[i] \in Nat} \cup {n + 1}
  <2>1. 0 \in T
    BY <1>5, <1>6
  <2>2. ASSUME NEW i \in 0 .. n, i \in T PROVE i + 1 \in T
    <3>1. CASE i = n
      BY <3>1
    <3>2. CASE i # n
      <4>1. PICK j \in 1 .. n : j = i + 1
        BY <1>6, <3>2
      <4>2. j - 1 = i /\ g[i] \in Nat /\ q[j] \in Item
        BY <1>6, <2>2, <3>2, <4>1 DEF n
      <4>3. g[j] = g[j - 1] + Weight(q[j])
        BY <1>5
      <4>4. g[j] \in Nat
        BY <4>2, <4>3, WeightType
      <4> QED BY <4>1, <4>4
    <3> QED BY <3>1, <3>2
  <2>3. \A i \in 0 .. n : i \in T
    <3> HIDE DEF T
    <3> QED BY <1>6, <2>1, <2>2, UpTo
  <2> QED BY <1>6, <2>3
<1> QED BY <1>4, <1>5, <1>7 DEF n

(* The sending task takes at least one packet, and no more than there are.  *)
LEMMA BatchType ==
  ASSUME NEW e, NEW q \in Seq(Item), q # <<>>
  PROVE  BatchOf(e, q) \in 1 .. Len(q)
<1>1. Len(q) \in Nat /\ Len(q) >= 1
  OBVIOUS
<1> DEFINE P(k) == /\ Units(q)[k - 1] < BufferSize
                   /\ k = Len(q) \/ Units(q)[k] >= BufferSize
           T == {k \in 1 .. Len(q) : k = Len(q) \/ Units(q)[k] >= BufferSize}
<1>2. \E k \in 1 .. Len(q) : P(k)
  <2>1. PICK m \in T : \A k \in T : m <= k
    <3>1. T \in SUBSET Nat /\ Len(q) \in T
      BY <1>1
    <3> HIDE DEF T
    <3> QED BY <3>1, LeastNumber
  <2>2. m \in 1 .. Len(q) /\ m - 1 \in 0 .. Len(q) /\ m - 1 \notin T
    BY <1>1, <2>1
  <2>3. Units(q)[m - 1] \in Nat /\ Units(q)[0] = 0 /\ BufferSize \in Nat \ {0}
    BY <2>2, UnitsUnfold, LinkAssumption
  <2>4. Units(q)[m - 1] < BufferSize
    <3>1. CASE m = 1
      <4>1. m - 1 = 0
        BY <3>1
      <4> QED BY <2>3, <4>1
    <3>2. CASE m # 1
      BY <1>1, <2>1, <2>2, <2>3, <3>2
    <3> QED BY <3>1, <3>2
  <2>5. P(m)
    BY <2>1, <2>4
  <2> HIDE DEF P
  <2> QED BY <2>2, <2>5
<1>3. (CHOOSE k \in 1 .. Len(q) : P(k)) \in 1 .. Len(q)
  <2> HIDE DEF P
  <2> QED BY <1>2
<1> QED BY <1>1, <1>3 DEF BatchOf

-----------------------------------------------------------------------------
(* Reading                                                                  *)

(* One unit moves from the start of b to the end of a.                      *)
LEMMA MoveUnit ==
  ASSUME NEW a \in Seq(Unit), NEW b \in Seq(Unit), NEW c \in Seq(Unit), b # <<>>
  PROVE  /\ Head(b) \in Unit /\ Tail(b) \in Seq(Unit) /\ Append(a, Head(b)) \in Seq(Unit)
         /\ Append(a, Head(b)) \o (Tail(b) \o c) = a \o (b \o c)
<1> DEFINE h == <<Head(b)>>
           t == Tail(b)
<1>1. Head(b) \in Unit /\ t \in Seq(Unit) /\ h \in Seq(Unit)
  BY HeadTailProperties
<1>2. b = h \o t
  <2>1. 1 \in 1 .. Len(b) /\ Len(b) \in 1 .. Len(b) /\ Head(b) = b[1]
    OBVIOUS
  <2>2. SubSeq(b, 1, Len(b)) = <<b[1]>> \o SubSeq(b, 1 + 1, Len(b))
    BY <2>1, SubSeqRecursiveFirst
  <2>3. SubSeq(b, 1, Len(b)) = b /\ Tail(b) = SubSeq(b, 2, Len(b))
    BY SubSeqFull, TailIsSubSeq
  <2> QED BY <2>1, <2>2, <2>3
<1>3. Append(a, Head(b)) = a \o h /\ Append(a, Head(b)) \in Seq(Unit)
  BY <1>1, AppendIsConcat, AppendProperties
<1> HIDE DEF h, t
<1>4. t \o c \in Seq(Unit)
  BY <1>1, ConcatProperties
<1>5. (a \o h) \o (t \o c) = a \o (h \o (t \o c))
  BY <1>1, <1>4, Associative
<1>6. h \o (t \o c) = (h \o t) \o c
  BY <1>1, Associative
<1> QED BY <1>1, <1>2, <1>3, <1>5, <1>6 DEF t

(* The length field holds at most the length.                               *)
LEMMA ModuloAtMost ==
  ASSUME NEW n \in Nat, NEW m \in Nat \ {0}
  PROVE  n % m \in Nat /\ n % m <= n
OBVIOUS

(* Queues of packets are queues of items.                                   *)
LEMMA PacketsAreItems ==
  ASSUME NEW q \in Seq(Packets)
  PROVE  q \in Seq(Item)
<1>1. Packets \subseteq Item
  BY DEF Item
<1> QED BY <1>1, SeqMonotonic

(* The byte units of a frame tell which packet it is.                       *)
LEMMA BytesTell ==
  ASSUME NEW p \in Packets, NEW r \in Packets,
         SubSeq(FrameOf(p), 2, Size[p] + 1) = SubSeq(FrameOf(r), 2, Size[r] + 1)
  PROVE  p = r
<1>1. ASSUME NEW x \in Packets
      PROVE  SubSeq(FrameOf(x), 2, Size[x] + 1)[1] = [unit |-> "byte", pkt |-> x, i |-> 1]
  <2> DEFINE f == FrameOf(x)
             n == Size[x] + 1
  <2>1. f \in Seq(Unit) /\ Len(f) = Size[x] + 2 /\ Size[x] \in Nat \ {0}
    BY FrameShape
  <2>2. f \in Seq(Unit) /\ Len(f) = n + 1 /\ n \in Nat /\ n >= 2
    BY <2>1
  <2>3. 2 \in 2 .. n /\ 2 \in Int /\ n \in Int /\ \A i \in 2 .. n : f[i] \in Unit
    BY <2>2
  <2>4. f[2] = [unit |-> "byte", pkt |-> x, i |-> 2 - 1]
    <3>1. \A i \in 2 .. Size[x] + 1 : FrameOf(x)[i] = [unit |-> "byte", pkt |-> x, i |-> i - 1]
      BY FrameShape, Zenon
    <3>2. 2 \in 2 .. Size[x] + 1
      BY <2>1
    <3> QED BY <3>1, <3>2, Zenon
  <2>5. f[2] = [unit |-> "byte", pkt |-> x, i |-> 1]
    <3>1. 2 - 1 = 1
      OBVIOUS
    <3> QED BY <2>4, <3>1
  <2> HIDE DEF f, n
  <2>6. \A i \in 1 .. n - 2 + 1 : SubSeq(f, 2, n)[i] = f[2 + i - 1]
    BY <2>3, SubSeqProperties
  <2>7. 1 \in 1 .. n - 2 + 1 /\ 2 + 1 - 1 = 2
    BY <2>2
  <2>8. SubSeq(f, 2, n)[1] = f[2]
    BY <2>6, <2>7
  <2> QED BY <2>5, <2>8 DEF f, n
<1>2. [unit |-> "byte", pkt |-> p, i |-> 1] = [unit |-> "byte", pkt |-> r, i |-> 1]
  BY <1>1
<1>3. [unit |-> "byte", pkt |-> p, i |-> 1].pkt = [unit |-> "byte", pkt |-> r, i |-> 1].pkt
  BY <1>2
<1> QED BY <1>3

(* A frame that is complete and has the right MAC is the frame of the next  *)
(* packet that is due, also when the length field has overflowed.           *)
LEMMA FrameRead ==
  ASSUME NEW due \in Seq(Packets), NEW f \in Seq(Unit), NEW rest \in Seq(Unit),
         f \o rest = Enc(due), IsComplete(f), MacMatches(f)
  PROVE  /\ due # <<>> /\ due[1] \in Packets /\ Tail(due) \in Seq(Packets)
         /\ PacketIn(f) = due[1] /\ f = FrameOf(due[1])
         /\ rest = Enc(Tail(due))
<1>1. Len(f) \in Nat /\ Len(f) > 0
  BY DEF IsComplete
<1>2. due # <<>>
  <2>1. ASSUME due = <<>> PROVE FALSE
    <3>1. f \o rest = <<>>
      BY <2>1, EncEmpty
    <3>2. f = <<>>
      BY <3>1, ConcatEqualIffEmpty
    <3> QED BY <1>1, <3>2
  <2> QED BY <2>1
<1> DEFINE p == due[1]
           g == FrameOf(p)
           r == Enc(Tail(due))
<1>3. p \in Packets /\ Tail(due) \in Seq(Packets)
  BY <1>2
<1>4. r \in Seq(Unit) /\ f \o rest = g \o r
  <2>1. due \in Seq(Item) /\ Tail(due) \in Seq(Item)
    BY <1>3, PacketsAreItems
  <2>2. UnitsOf(p) = g
    BY <1>3, LinkAssumption DEF UnitsOf
  <2> QED BY <1>2, <2>1, <2>2, EncType, EncFirst
<1>5. /\ g \in Seq(Unit) /\ Len(g) = Size[p] + 2 /\ Size[p] \in Nat \ {0}
      /\ g[1].n = Size[p] % LenMod
      /\ \A i \in 2 .. Size[p] + 1 : g[i].unit = "byte"
  <2>1. p \in Packets
    BY <1>3
  <2> HIDE DEF p
  <2>2. g \in Seq(Unit) /\ Len(g) = Size[p] + 2 /\ Size[p] \in Nat \ {0}
    BY <2>1, FrameShape
  <2>3. g[1] = [unit |-> "len", n |-> Size[p] % LenMod]
    BY <2>1, FrameShape
  <2>4. \A i \in 2 .. Size[p] + 1 : g[i] = [unit |-> "byte", pkt |-> p, i |-> i - 1]
    BY <2>1, FrameShape
  <2> HIDE DEF g
  <2>5. g[1].n = Size[p] % LenMod
    BY <2>3
  <2>6. ASSUME NEW i \in 2 .. Size[p] + 1 PROVE g[i].unit = "byte"
    <3>1. g[i] = [unit |-> "byte", pkt |-> p, i |-> i - 1]
      BY <2>4
    <3> QED BY <3>1
  <2> QED BY <2>2, <2>5, <2>6
<1>6. Size[p] % LenMod <= Size[p] /\ Size[p] % LenMod \in Nat
  BY <1>5, LinkAssumption, ModuloAtMost
<1> HIDE DEF g, r, p
<1>7. ASSUME NEW i \in 1 .. Len(f), i <= Len(g) PROVE f[i] = g[i]
  <2>1. (f \o rest)[i] = f[i]
    BY <1>1
  <2>2. (g \o r)[i] = g[i]
    BY <1>1, <1>4, <1>5, <1>7
  <2> QED BY <1>4, <2>1, <2>2
<1>8. f[1] = g[1]
  BY <1>1, <1>5, <1>7
<1>9. Len(f) = (Size[p] % LenMod) + 2
  BY <1>5, <1>8 DEF IsComplete
<1>10. f[Len(f)].unit = "mac"
  BY DEF MacMatches
<1>11. Len(f) = Len(g)
  <2>1. Len(f) <= Len(g) /\ Len(f) >= 2 /\ Len(f) \in 1 .. Len(f)
    <3> DEFINE k == Size[p] % LenMod
               z == Size[p]
    <3>1. k \in Nat /\ z \in Nat /\ k <= z /\ Len(f) = k + 2 /\ Len(g) = z + 2
      BY <1>5, <1>6, <1>9
    <3> HIDE DEF k, z
    <3> QED BY <3>1
  <2>2. g[Len(f)].unit = "mac"
    BY <1>7, <1>10, <2>1
  <2>3. Len(f) \notin 2 .. Size[p] + 1
    BY <1>5, <2>2
  <2> DEFINE z == Size[p]
             h == Len(f)
  <2>4. z \in Nat /\ h \in Nat /\ h <= Len(g) /\ h >= 2 /\ Len(g) = z + 2 /\ h \notin 2 .. z + 1
    BY <1>1, <1>5, <2>1, <2>3
  <2> HIDE DEF z, h
  <2>5. h = Len(g)
    BY <2>4
  <2> QED BY <2>5 DEF h
<1>12. f = g
  <2>1. \A i \in 1 .. Len(f) : f[i] = g[i]
    BY <1>5, <1>7, <1>11
  <2> QED BY <1>5, <1>11, <2>1, SeqEqual
<1>13. rest = r
  BY <1>4, <1>5, <1>12, ConcatSimplifications
<1>14. PacketIn(f) = p
  <2> DEFINE Is(x) == SubSeq(f, 2, Len(f) - 1) = SubSeq(FrameOf(x), 2, Size[x] + 1)
  <2>1. Len(f) - 1 = Size[p] + 1
    BY <1>5, <1>11
  <2>2. Is(p) /\ p \in Packets
    BY <1>3, <1>12, <2>1 DEF g, p
  <2>3. ASSUME NEW x \in Packets, Is(x) PROVE x = p
    BY <2>2, <2>3, BytesTell
  <2>4. PacketIn(f) = CHOOSE x \in Packets : Is(x)
    BY <2>2 DEF PacketIn
  <2> HIDE DEF Is
  <2> QED BY <2>2, <2>3, <2>4
<1> QED BY <1>2, <1>3, <1>12, <1>13, <1>14 DEF p, r, g

-----------------------------------------------------------------------------
(* The inductive invariant                                                  *)
States == {"none", "hello", "up", "over"}

Types ==
  /\ config \in [key : Keys, dotNet : Mixes]
  /\ st \in [Sessions -> [Ends -> States]]
  /\ reg \in [Ends -> SUBSET Sessions]
  /\ outq \in [Sessions -> [Ends -> Seq(Item)]]
  /\ pending \in [Sessions -> [Ends -> Seq(Unit)]]
  /\ wire \in [Sessions -> [Ends -> Seq(Unit)]]
  /\ frame \in [Sessions -> [Ends -> Seq(Unit)]]
  /\ queued \in [Sessions -> [Ends -> Seq(Packets)]]
  /\ got \in [Sessions -> [Ends -> Seq(Packets)]]

(* The sessions are dialled in order.                                       *)
Dialled == \E n \in Nat : Used = 1 .. n

(* Before e has read a handshake.                                           *)
Early(s, e) == st[s][e] \in {"none", "hello"}

(* The order of the handshake: the listening end writes and registers       *)
(* nothing before it has read one; what is being written belongs to a       *)
(* registered sender of an end that is alive; and an end that may send has  *)
(* its handshake on the wire until the other end has read it.               *)
Setup(s) ==
  /\ Early(s, "L") => s \notin reg["L"] /\ wire[s]["L"] = <<>> /\ st[s]["I"] # "up"
  /\ st[s]["I"] = "none" => st[s]["L"] = "none" /\ wire[s]["I"] = <<>>
  /\ \A e \in Ends : pending[s][e] # <<>> => s \in reg[e] /\ Alive(s, e)
  /\ \A e \in Ends : s \in reg[e] /\ Alive(s, e) /\ Early(s, Other(e)) => wire[s][e] # <<>>

(* The frames that e has written and the other end has not read.            *)
Body(s, e) ==
  IF Early(s, Other(e)) /\ wire[s][e] # <<>> THEN Tail(wire[s][e]) ELSE wire[s][e]

(* The packets given to e that the other end has not passed on.             *)
Due(s, e) == SubSeq(queued[s][e], Len(got[s][Other(e)]) + 1, Len(queued[s][e]))

Prefix(s, e) ==
  /\ Len(got[s][Other(e)]) <= Len(queued[s][e])
  /\ \A i \in 1 .. Len(got[s][Other(e)]) : got[s][Other(e)][i] = queued[s][e][i]

(* What the other end has read of a frame, what is on the wire, and what e  *)
(* will still write, are together the frames of the packets that are due.   *)
Stream(s, e) ==
  ~ Over(s, Other(e)) =>
    \E later \in Seq(Unit) :
      /\ frame[s][Other(e)] \o (Body(s, e) \o later) = Enc(Due(s, e))
      /\ ~ Over(s, e) => later = pending[s][e] \o Enc(outq[s][e])

SInv(s) == Setup(s) /\ \A e \in Ends : Prefix(s, e) /\ Stream(s, e)

IInv == Types /\ Dialled /\ \A s \in Sessions : SInv(s)

-----------------------------------------------------------------------------
(* A session has two ends.                                                  *)
LEMMA OtherEnd ==
  ASSUME NEW e \in Ends
  PROVE  /\ Other(e) \in Ends /\ Other(e) # e /\ Other(Other(e)) = e
         /\ \A x \in Ends : x = e \/ x = Other(e)
BY DEF Other, Ends

(* A step that concerns another session.                                    *)
SameSession(s) ==
  /\ st'[s] = st[s] /\ outq'[s] = outq[s] /\ pending'[s] = pending[s]
  /\ wire'[s] = wire[s] /\ frame'[s] = frame[s]
  /\ queued'[s] = queued[s] /\ got'[s] = got[s]
  /\ \A e \in Ends : s \in reg'[e] <=> s \in reg[e]

(* A step of other sessions keeps what holds of this one.                   *)
LEMMA Untouched ==
  ASSUME NEW s \in Sessions, SInv(s), SameSession(s)
  PROVE  SInv(s)'
<1>1. Setup(s)'
  BY DEF SInv, Setup, SameSession, Early, Alive, Ends
<1>2. ASSUME NEW e \in Ends PROVE Prefix(s, e)' /\ Stream(s, e)'
  <2>1. Body(s, e)' = Body(s, e) /\ Due(s, e)' = Due(s, e)
    BY DEF SameSession, Body, Due, Early
  <2>2. Prefix(s, e)'
    BY DEF SInv, Prefix, SameSession
  <2>3. Stream(s, e)'
    BY <2>1 DEF SInv, Stream, SameSession, Over, Enc
  <2> QED BY <2>2, <2>3
<1> QED BY <1>1, <1>2 DEF SInv

(* The stream from e is not concerned.                                      *)
LEMMA StreamKept ==
  ASSUME NEW s \in Sessions, NEW e \in Ends, Prefix(s, e), Stream(s, e),
         queued'[s][e] = queued[s][e], got'[s][Other(e)] = got[s][Other(e)],
         frame'[s][Other(e)] = frame[s][Other(e)],
         Over(s, Other(e)) => Over(s, Other(e))',
         ~ Over(s, Other(e))' => Body(s, e)' = Body(s, e),
         Over(s, e) => Over(s, e)',
         ~ Over(s, e)' => pending'[s][e] = pending[s][e] /\ Enc(outq[s][e])' = Enc(outq[s][e])
  PROVE  Prefix(s, e)' /\ Stream(s, e)'
<1>1. Due(s, e)' = Due(s, e)
  BY DEF Due
<1>2. Prefix(s, e)'
  BY DEF Prefix
<1>3. Enc(Due(s, e))' = Enc(Due(s, e))
  BY <1>1 DEF Enc
<1>4. Stream(s, e)'
  BY <1>3 DEF Stream
<1> QED BY <1>2, <1>4

(* A step of session s alone, which dials no session.                       *)
Only(s) ==
  \A r \in Sessions : /\ r # s => SameSession(r)
                      /\ st'[r]["I"] = "none" <=> st[r]["I"] = "none"

(* The two ends by name.                                                    *)
LEMMA EndsAre == "I" \in Ends /\ "L" \in Ends /\ Other("I") = "L" /\ Other("L") = "I"
BY DEF Ends, Other

(* A session ends at x.                                                     *)
LEMMA FinishKeeps ==
  ASSUME Types, NEW s \in Sessions, NEW x \in Ends, SInv(s), Alive(s, x), Finish(s, x),
         UNCHANGED <<config, queued, got>>
  PROVE  Types' /\ SInv(s)' /\ Only(s)
<1> DEFINE o == Other(x)
<1>1. o \in Ends /\ o # x /\ Other(o) = x /\ \A e \in Ends : e = x \/ e = o
  BY OtherEnd
<1>2. /\ st' \in [Sessions -> [Ends -> States]] /\ st'[s][x] = "over"
      /\ st'[s][o] = st[s][o] /\ \A r \in Sessions : r # s => st'[r] = st[r]
  <2>1. "over" \in States /\ st' = [st EXCEPT ![s][x] = "over"]
    BY DEF Finish, States
  <2> HIDE DEF o
  <2> QED BY <1>1, <2>1 DEF Types
<1>3. /\ outq' \in [Sessions -> [Ends -> Seq(Item)]]
      /\ outq'[s][o] = outq[s][o] /\ \A r \in Sessions : r # s => outq'[r] = outq[r]
  <2>1. <<>> \in Seq(Item) /\ outq' = [outq EXCEPT ![s][x] = <<>>]
    BY DEF Finish
  <2> HIDE DEF o
  <2> QED BY <1>1, <2>1 DEF Types
<1>4. /\ pending' \in [Sessions -> [Ends -> Seq(Unit)]] /\ pending'[s][x] = <<>>
      /\ pending'[s][o] = pending[s][o] /\ \A r \in Sessions : r # s => pending'[r] = pending[r]
  <2>1. <<>> \in Seq(Unit) /\ pending' = [pending EXCEPT ![s][x] = <<>>]
    BY DEF Finish
  <2> HIDE DEF o
  <2> QED BY <1>1, <2>1 DEF Types
<1>5. /\ frame' \in [Sessions -> [Ends -> Seq(Unit)]]
      /\ frame'[s][o] = frame[s][o] /\ \A r \in Sessions : r # s => frame'[r] = frame[r]
  <2>1. <<>> \in Seq(Unit) /\ frame' = [frame EXCEPT ![s][x] = <<>>]
    BY DEF Finish
  <2> HIDE DEF o
  <2> QED BY <1>1, <2>1 DEF Types
<1>6. /\ wire' \in [Sessions -> [Ends -> Seq(Unit)]] /\ wire'[s][o] = <<>>
      /\ wire'[s][x] = wire[s][x] /\ \A r \in Sessions : r # s => wire'[r] = wire[r]
  <2>1. <<>> \in Seq(Unit) /\ wire' = [wire EXCEPT ![s][o] = <<>>]
    BY DEF Finish
  <2> HIDE DEF o
  <2> QED BY <1>1, <2>1 DEF Types
<1>7. /\ reg' \in [Ends -> SUBSET Sessions] /\ reg'[o] = reg[o]
      /\ reg'[x] \subseteq reg[x] /\ \A r \in Sessions : r # s => (r \in reg'[x] <=> r \in reg[x])
  <2>1. reg' = [reg EXCEPT ![x] = @ \ {s}] \/ reg' = reg
    BY DEF Finish, Unregistered
  <2>2. reg \in [Ends -> SUBSET Sessions]
    BY DEF Types
  <2> HIDE DEF o
  <2>3. CASE reg' = [reg EXCEPT ![x] = @ \ {s}]
    BY <1>1, <2>2, <2>3
  <2>4. CASE reg' = reg
    BY <1>1, <2>2, <2>4
  <2> QED BY <2>1, <2>3, <2>4
<1>8. Types'
  BY <1>2, <1>3, <1>4, <1>5, <1>6, <1>7 DEF Types
<1> HIDE DEF o
<1>9. Only(s)
  <2>1. ASSUME NEW r \in Sessions, r # s PROVE SameSession(r)
    BY <1>1, <1>2, <1>3, <1>4, <1>5, <1>6, <1>7, <2>1 DEF SameSession
  <2>2. st'[s]["I"] = "none" <=> st[s]["I"] = "none"
    BY <1>1, <1>2, EndsAre DEF Alive
  <2> QED BY <2>1, <2>2, <1>2 DEF Only
<1>10. Setup(s)'
  <2>1. Early(s, "L")' => s \notin reg'["L"] /\ wire'[s]["L"] = <<>> /\ st'[s]["I"] # "up"
    <3>1. ASSUME Early(s, "L")' PROVE x = "I" /\ o = "L" /\ Early(s, "L")
      BY <1>1, <1>2, <3>1, EndsAre DEF Early
    <3> QED BY <1>2, <1>6, <1>7, <3>1 DEF SInv, Setup
  <2>2. st'[s]["I"] = "none" => st'[s]["L"] = "none" /\ wire'[s]["I"] = <<>>
    <3>1. ASSUME st'[s]["I"] = "none" PROVE FALSE
      <4>1. x = "L" /\ st[s]["I"] = "none"
        BY <1>1, <1>2, <3>1, EndsAre
      <4>2. st[s]["L"] = "none"
        BY <4>1 DEF SInv, Setup
      <4> QED BY <4>1, <4>2 DEF Alive
    <3> QED BY <3>1
  <2>3. ASSUME NEW e \in Ends, pending'[s][e] # <<>> PROVE s \in reg'[e] /\ Alive(s, e)'
    <3>1. e = o
      BY <1>1, <1>4, <2>3
    <3> QED BY <1>2, <1>4, <1>7, <2>3, <3>1 DEF SInv, Setup, Alive
  <2>4. ASSUME NEW e \in Ends, Alive(s, e)', Early(s, Other(e))' PROVE FALSE
    BY <1>1, <1>2, <2>4 DEF Alive, Early
  <2> QED BY <2>1, <2>2, <2>3, <2>4 DEF Setup
<1>11. Prefix(s, x)' /\ Stream(s, x)'
  <2>1. Body(s, x)' = Body(s, x)
    BY <1>2, <1>6 DEF Body, Early, o
  <2>2. Over(s, o)' <=> Over(s, o)
    BY <1>2 DEF Over
  <2>3. Over(s, x)'
    BY <1>2 DEF Over
  <2> QED BY <1>5, <2>1, <2>2, <2>3, StreamKept DEF SInv, o
<1>12. Prefix(s, o)' /\ Stream(s, o)'
  <2>1. Over(s, Other(o))'
    BY <1>1, <1>2 DEF Over
  <2> QED BY <1>1, <2>1 DEF SInv, Prefix, Stream
<1> QED BY <1>1, <1>8, <1>9, <1>10, <1>11, <1>12 DEF SInv

(* The dialling end writes its handshake.                                   *)
LEMMA ConnectKeeps ==
  ASSUME Types, NEW s \in Sessions, SInv(s), Connect(s), st[s]["I"] = "none"
  PROVE  /\ Types' /\ SInv(s)' /\ st'[s]["I"] # "none"
         /\ \A r \in Sessions : r # s => SameSession(r) /\ st'[r] = st[r]
<1>1. st[s]["L"] = "none" /\ wire[s]["I"] = <<>> /\ "I" # "L"
  BY DEF SInv, Setup
<1>2. UNCHANGED <<config, outq, pending, frame, queued, got>>
  BY DEF Connect
<1>3. /\ st' \in [Sessions -> [Ends -> States]] /\ st'[s]["I"] = "hello"
      /\ st'[s]["L"] = "none" /\ \A r \in Sessions : r # s => st'[r] = st[r]
  <2>1. "hello" \in States /\ st' = [st EXCEPT ![s]["I"] = "hello"]
    BY DEF Connect, States
  <2> QED BY <1>1, <2>1, EndsAre DEF Types
<1>4. /\ wire' \in [Sessions -> [Ends -> Seq(Unit)]] /\ wire'[s]["I"] = <<Hello(key)>>
      /\ wire'[s]["L"] = wire[s]["L"] /\ \A r \in Sessions : r # s => wire'[r] = wire[r]
  <2>1. Hello(key) \in Unit
    BY DEF Types, key, Hello, Unit
  <2>2. <<Hello(key)>> \in Seq(Unit) /\ wire' = [wire EXCEPT ![s]["I"] = <<Hello(key)>>]
    BY <2>1 DEF Connect
  <2> QED BY <1>1, <2>2, EndsAre DEF Types
<1>5. /\ reg' \in [Ends -> SUBSET Sessions] /\ reg'["L"] = reg["L"]
      /\ reg["I"] \subseteq reg'["I"]
      /\ \A r \in Sessions : r # s => (r \in reg'["I"] <=> r \in reg["I"])
  <2>1. CASE reg' = [reg EXCEPT !["I"] = @ \cup {s}]
    <3>1. reg \in [Ends -> SUBSET Sessions] /\ "I" \in Ends /\ "L" \in Ends
      BY EndsAre DEF Types
    <3> QED BY <2>1, <3>1
  <2>2. CASE reg' = reg
    BY <2>2 DEF Types
  <2> QED BY <2>1, <2>2 DEF Connect
<1>6. Types'
  BY <1>2, <1>3, <1>4, <1>5 DEF Types
<1>7. ASSUME NEW r \in Sessions, r # s PROVE SameSession(r)
  BY <1>2, <1>3, <1>4, <1>5, <1>7 DEF SameSession, Ends
<1>8. Setup(s)'
  <2>1. Early(s, "L") /\ s \notin reg["L"] /\ wire[s]["L"] = <<>>
    BY <1>1 DEF SInv, Setup, Early
  <2>2. \A e \in Ends : pending'[s][e] = <<>>
    BY <1>1, <1>2, <2>1 DEF SInv, Setup, Alive, Ends
  <2>3. wire'[s]["I"] # <<>> /\ ~ Alive(s, "L")'
    BY <1>3, <1>4 DEF Alive
  <2> QED BY <1>3, <1>4, <1>5, <2>1, <2>2, <2>3 DEF Setup, Ends
<1>9. Prefix(s, "I")' /\ Stream(s, "I")'
  <2>1. Body(s, "I") = <<>>
    BY <1>1 DEF Body
  <2>2. Body(s, "I")' = <<>>
    BY <1>3, <1>4, EndsAre DEF Body, Early
  <2>3. ~ Over(s, "I") /\ ~ Over(s, "I")' /\ ~ Over(s, "L") /\ ~ Over(s, "L")'
    BY <1>1, <1>3 DEF Over
  <2>4. Enc(outq[s]["I"])' = Enc(outq[s]["I"])
    BY <1>2 DEF Enc
  <2> QED BY <1>2, <2>1, <2>2, <2>3, <2>4, EndsAre, StreamKept DEF SInv
<1>10. Prefix(s, "L")' /\ Stream(s, "L")'
  <2>1. Body(s, "L")' = Body(s, "L")
    BY <1>3, <1>4, EndsAre DEF Body, Early
  <2>2. ~ Over(s, "I") /\ ~ Over(s, "I")' /\ ~ Over(s, "L") /\ ~ Over(s, "L")'
    BY <1>1, <1>3 DEF Over
  <2>3. Enc(outq[s]["L"])' = Enc(outq[s]["L"])
    BY <1>2 DEF Enc
  <2> QED BY <1>2, <2>1, <2>2, <2>3, EndsAre, StreamKept DEF SInv
<1> QED BY <1>3, <1>6, <1>7, <1>8, <1>9, <1>10 DEF SInv, Ends

(* The listening end takes the connection.                                  *)
LEMMA AcceptKeeps ==
  ASSUME Types, NEW s \in Sessions, SInv(s), Accept(s)
  PROVE  Types' /\ SInv(s)' /\ Only(s)
<1>1. st[s]["I"] # "none" /\ st[s]["L"] = "none" /\ "I" # "L"
  BY DEF Accept
<1>2. UNCHANGED <<config, reg, outq, pending, wire, frame, queued, got>>
  BY DEF Accept
<1>3. /\ st' \in [Sessions -> [Ends -> States]] /\ st'[s]["L"] = "hello"
      /\ st'[s]["I"] = st[s]["I"] /\ \A r \in Sessions : r # s => st'[r] = st[r]
  <2>1. "hello" \in States /\ st' = [st EXCEPT ![s]["L"] = "hello"]
    BY DEF Accept, States
  <2> QED BY <1>1, <2>1, EndsAre DEF Types
<1>4. Types'
  BY <1>2, <1>3 DEF Types
<1>5. Only(s)
  BY <1>2, <1>3 DEF Only, SameSession
<1>6. Setup(s)'
  <2>1. Early(s, "L") /\ s \notin reg["L"] /\ wire[s]["L"] = <<>> /\ st[s]["I"] # "up"
    BY <1>1 DEF SInv, Setup, Early
  <2>2. pending[s]["L"] = <<>>
    BY <2>1, EndsAre DEF SInv, Setup
  <2>3. Alive(s, "I")' <=> Alive(s, "I")
    BY <1>3 DEF Alive
  <2>4. pending[s]["I"] # <<>> => s \in reg["I"] /\ Alive(s, "I")
    BY EndsAre DEF SInv, Setup
  <2>5. s \in reg["I"] /\ Alive(s, "I") => wire[s]["I"] # <<>>
    BY <2>1, EndsAre DEF SInv, Setup
  <2> QED BY <1>1, <1>2, <1>3, <2>1, <2>2, <2>3, <2>4, <2>5 DEF Setup, Ends
<1>7. ASSUME NEW e \in Ends PROVE Prefix(s, e)' /\ Stream(s, e)'
  <2>1. Early(s, Other(e))' <=> Early(s, Other(e))
    BY <1>1, <1>3 DEF Early, Other, Ends
  <2>2. Body(s, e)' = Body(s, e)
    BY <1>2, <2>1 DEF Body
  <2>3. \A x \in Ends : Over(s, x)' <=> Over(s, x)
    BY <1>1, <1>3 DEF Over, Ends
  <2>4. Enc(outq[s][e])' = Enc(outq[s][e])
    BY <1>2 DEF Enc
  <2> QED BY <1>2, <2>2, <2>3, <2>4, OtherEnd, StreamKept DEF SInv
<1> QED BY <1>4, <1>5, <1>6, <1>7 DEF SInv

(* An end reads a handshake that matches; the listening end answers.        *)
LEMMA ReadHelloKeeps ==
  ASSUME Types, NEW s \in Sessions, NEW x \in Ends, SInv(s), ReadHello(s, x),
         KeyMatches(x, Head(wire[s][Other(x)]).key)
  PROVE  Types' /\ SInv(s)' /\ Only(s)
<1> DEFINE o == Other(x)
           in == wire[s][o]
<1>1. o \in Ends /\ o # x /\ Other(o) = x /\ \A e \in Ends : e = x \/ e = o
  BY OtherEnd
<1>2. st[s][x] = "hello" /\ in # <<>> /\ UNCHANGED <<config, outq, pending, frame, queued, got>>
  BY DEF ReadHello
<1>3. in \in Seq(Unit) /\ Tail(in) \in Seq(Unit)
  <2>1. in \in Seq(Unit)
    BY <1>1 DEF Types
  <2> QED BY <1>2, <2>1, HeadTailProperties
<1> HIDE DEF o
<1>4. /\ st' \in [Sessions -> [Ends -> States]] /\ st'[s][x] = "up"
      /\ st'[s][o] = st[s][o] /\ \A r \in Sessions : r # s => st'[r] = st[r]
  <2>1. "up" \in States /\ st' = [st EXCEPT ![s][x] = "up"]
    BY DEF ReadHello, States
  <2> QED BY <1>1, <2>1 DEF Types
<1>5. /\ reg' \in [Ends -> SUBSET Sessions] /\ reg'[o] = reg[o] /\ s \in reg'[x]
      /\ \A r \in Sessions : r # s => (r \in reg'[x] <=> r \in reg[x])
  <2>1. reg' = [reg EXCEPT ![x] = @ \cup {s}] /\ reg \in [Ends -> SUBSET Sessions]
    BY DEF ReadHello, Types
  <2> QED BY <1>1, <2>1
<1>6. /\ wire' \in [Sessions -> [Ends -> Seq(Unit)]] /\ wire'[s][o] = Tail(in)
      /\ x = "I" => wire'[s][x] = wire[s][x]
      /\ x = "L" => \E u \in Unit : wire'[s][x] = Append(wire[s][x], u)
      /\ \A r \in Sessions : r # s => wire'[r] = wire[r]
  <2>1. CASE x = "I"
    <3>1. o = "L" /\ x # "L" /\ wire' = [wire EXCEPT ![s]["L"] = Tail(in)]
      BY <2>1, EndsAre DEF ReadHello, o
    <3>2. wire \in [Sessions -> [Ends -> Seq(Unit)]]
      BY DEF Types
    <3> HIDE DEF in
    <3> QED BY <1>1, <1>3, <2>1, <3>1, <3>2
  <2>2. CASE x = "L"
    <3> DEFINE u == Hello(Head(in).key)
               w == [e \in Ends |-> IF e = "L" THEN Append(wire[s]["L"], u) ELSE Tail(in)]
    <3>1. u \in Unit
      <4>1. Head(in).key \in KeysL
        BY <2>2 DEF KeyMatches, o
      <4> QED BY <4>1 DEF Unit, Hello
    <3>2. wire' = [wire EXCEPT ![s] = w] /\ o = "I" /\ x # "I"
      BY <2>2, EndsAre DEF ReadHello, o
    <3>3. wire \in [Sessions -> [Ends -> Seq(Unit)]]
      BY DEF Types
    <3>4. wire[s]["L"] \in Seq(Unit)
      BY <3>3, EndsAre
    <3> HIDE DEF in, u
    <3>5. Append(wire[s]["L"], u) \in Seq(Unit)
      BY <3>1, <3>4
    <3>6. w \in [Ends -> Seq(Unit)] /\ w["L"] = Append(wire[s]["L"], u) /\ w["I"] = Tail(in)
      BY <1>3, <3>5, EndsAre
    <3> HIDE DEF w
    <3>7. wire' \in [Sessions -> [Ends -> Seq(Unit)]] /\ wire'[s] = w
          /\ \A r \in Sessions : r # s => wire'[r] = wire[r]
      BY <3>2, <3>3, <3>6
    <3> QED BY <2>2, <3>1, <3>2, <3>6, <3>7
  <2> QED BY <2>1, <2>2 DEF Ends
<1>7. Types'
  BY <1>2, <1>4, <1>5, <1>6 DEF Types
<1>8. Only(s)
  <2>1. ASSUME NEW r \in Sessions, r # s PROVE SameSession(r)
    BY <1>1, <1>2, <1>4, <1>5, <1>6, <2>1 DEF SameSession
  <2>2. st'[s]["I"] = "none" <=> st[s]["I"] = "none"
    BY <1>1, <1>2, <1>4, EndsAre
  <2> QED BY <2>1, <2>2, <1>4 DEF Only
<1>9. x = "I" => ~ Early(s, "L")
  <2>1. ASSUME x = "I", Early(s, "L") PROVE FALSE
    <3>1. o = "L" /\ wire[s]["L"] = <<>>
      BY <2>1, EndsAre DEF SInv, Setup, o
    <3> QED BY <1>2, <3>1
  <2> QED BY <2>1
<1>10. x = "L" => st[s]["I"] # "none" /\ st[s]["I"] # "up" /\ wire[s]["L"] = <<>>
  BY <1>2 DEF SInv, Setup, Early
<1>11. Setup(s)'
  <2>1. ~ Early(s, "L")'
    BY <1>1, <1>4, <1>9, EndsAre DEF Early
  <2>2. st'[s]["I"] # "none"
    BY <1>1, <1>2, <1>4, <1>10, EndsAre
  <2>3. ASSUME NEW e \in Ends, pending'[s][e] # <<>> PROVE s \in reg'[e] /\ Alive(s, e)'
    <3>1. s \in reg[e] /\ Alive(s, e)
      BY <1>2, <2>3 DEF SInv, Setup
    <3> QED BY <1>1, <1>4, <1>5, <3>1 DEF Alive
  <2>4. ASSUME NEW e \in Ends, Early(s, Other(e))' PROVE wire'[s][e] # <<>>
    <3>1. e = x /\ Early(s, o)'
      BY <1>1, <1>4, <2>4 DEF Early, o
    <3>2. x = "L"
      BY <2>1, <3>1, EndsAre DEF o, Ends
    <3>3. PICK u \in Unit : wire'[s][x] = Append(wire[s][x], u)
      BY <1>6, <3>2
    <3>4. wire[s][x] \in Seq(Unit)
      BY DEF Types
    <3> QED BY <3>1, <3>3, <3>4, AppendProperties
  <2> QED BY <2>1, <2>2, <2>3, <2>4 DEF Setup
<1>12. Prefix(s, o)' /\ Stream(s, o)'
  <2>1. Body(s, o) = Tail(in)
    BY <1>1, <1>2 DEF Body, Early
  <2>2. Body(s, o)' = Tail(in)
    BY <1>1, <1>4, <1>6 DEF Body, Early
  <2>3. ~ Over(s, x) /\ ~ Over(s, x)' /\ (Over(s, o)' <=> Over(s, o))
    BY <1>2, <1>4 DEF Over
  <2>4. Enc(outq[s][o])' = Enc(outq[s][o])
    BY <1>2 DEF Enc
  <2> HIDE DEF in
  <2> QED BY <1>1, <1>2, <2>1, <2>2, <2>3, <2>4, StreamKept DEF SInv
<1>13. Prefix(s, x)' /\ Stream(s, x)'
  <2>1. ~ Over(s, o)' => Body(s, x)' = Body(s, x)
    <3>1. CASE x = "I"
      BY <1>4, <1>6, <3>1 DEF Body, Early, o
    <3>2. CASE x = "L"
      <4>1. wire[s][x] = <<>>
        BY <1>10, <3>2
      <4>2. PICK u \in Unit : wire'[s][x] = Append(<<>>, u)
        BY <1>6, <3>2, <4>1
      <4>3. Tail(wire'[s][x]) = <<>> /\ wire'[s][x] # <<>>
        BY <4>2
      <4>4. ~ Over(s, o)' => Early(s, o)'
        BY <1>1, <1>4, <1>10, <3>2, EndsAre DEF Over, Early, Types, States, o
      <4> QED BY <4>1, <4>3, <4>4 DEF Body, o
    <3> QED BY <3>1, <3>2 DEF Ends
  <2>2. ~ Over(s, x) /\ ~ Over(s, x)' /\ (Over(s, o)' <=> Over(s, o))
    BY <1>2, <1>4 DEF Over
  <2>3. Enc(outq[s][x])' = Enc(outq[s][x])
    BY <1>2 DEF Enc
  <2> QED BY <1>2, <2>1, <2>2, <2>3, StreamKept DEF SInv, o
<1> QED BY <1>1, <1>7, <1>8, <1>11, <1>12, <1>13 DEF SInv

(* When a packet is given to an end, it is due after all the others.        *)
LEMMA DueGrows ==
  ASSUME NEW q \in Seq(Packets), NEW p \in Packets, NEW n \in 0 .. Len(q)
  PROVE  SubSeq(Append(q, p), n + 1, Len(Append(q, p))) = Append(SubSeq(q, n + 1, Len(q)), p)
<1> DEFINE r == Append(q, p)
           a == SubSeq(r, n + 1, Len(r))
           b == SubSeq(q, n + 1, Len(q))
<1>1. /\ r \in Seq(Packets) /\ Len(r) = Len(q) + 1 /\ r[Len(q) + 1] = p
      /\ Len(q) \in Nat /\ \A i \in 1 .. Len(q) : r[i] = q[i]
  BY AppendProperties
<1> HIDE DEF r
<1>2. n + 1 \in 1 .. Len(r) /\ Len(r) \in n + 1 .. Len(r) /\ Len(r) - 1 = Len(q)
  BY <1>1
<1>3. a = SubSeq(r, n + 1, Len(r) - 1) \o <<r[Len(r)]>>
  BY <1>1, <1>2, SubSeqRecursiveSecond
<1>4. SubSeq(r, n + 1, Len(q)) = b /\ b \in Seq(Packets)
  <2>1. n + 1 \in Int /\ Len(q) \in Int
        /\ \A i \in n + 1 .. Len(q) : r[i] \in Packets /\ q[i] \in Packets /\ r[i] = q[i]
    BY <1>1
  <2> DEFINE c == SubSeq(r, n + 1, Len(q))
  <2>2. /\ c \in Seq(Packets) /\ b \in Seq(Packets) /\ Len(c) = Len(b)
        /\ Len(c) = IF n + 1 <= Len(q) THEN Len(q) - (n + 1) + 1 ELSE 0
    BY <2>1, SubSeqProperties
  <2>3. ASSUME NEW i \in 1 .. Len(c) PROVE c[i] = b[i]
    <3>1. i \in 1 .. Len(q) - (n + 1) + 1
      BY <1>1, <2>2
    <3>2. c[i] = r[n + 1 + i - 1] /\ b[i] = q[n + 1 + i - 1]
      BY <2>1, <3>1, SubSeqProperties
    <3>3. n + 1 + i - 1 \in n + 1 .. Len(q)
      BY <1>1, <3>1
    <3> QED BY <2>1, <3>2, <3>3
  <2> HIDE DEF c, b
  <2>4. c = b
    BY <2>2, <2>3, SeqEqual
  <2> QED BY <2>2, <2>4 DEF c
<1>5. Append(b, p) = b \o <<p>>
  BY <1>4, AppendIsConcat
<1>6. r[Len(r)] = p
  BY <1>1
<1> QED BY <1>2, <1>3, <1>4, <1>5, <1>6 DEF r

(* When the first packet that is due has been passed on.                    *)
LEMMA DueShrinks ==
  ASSUME NEW q \in Seq(Packets), NEW n \in 0 .. Len(q), SubSeq(q, n + 1, Len(q)) # <<>>
  PROVE  /\ n + 1 <= Len(q) /\ SubSeq(q, n + 1, Len(q))[1] = q[n + 1]
         /\ SubSeq(q, (n + 1) + 1, Len(q)) = Tail(SubSeq(q, n + 1, Len(q)))
<1>1. n + 1 <= Len(q)
  <2>1. ASSUME Len(q) < n + 1 PROVE FALSE
    BY <2>1, SubSeqEmpty
  <2> QED BY <2>1
<1>2. n + 1 \in 1 .. Len(q) /\ Len(q) \in n + 1 .. Len(q)
  BY <1>1
<1>3. /\ Head(SubSeq(q, n + 1, Len(q))) = q[n + 1]
      /\ Tail(SubSeq(q, n + 1, Len(q))) = SubSeq(q, (n + 1) + 1, Len(q))
  BY <1>2, HeadTailOfSubSeq
<1>4. SubSeq(q, n + 1, Len(q)) \in Seq(Packets)
  <2>1. n + 1 \in Int /\ Len(q) \in Int /\ \A i \in n + 1 .. Len(q) : q[i] \in Packets
    OBVIOUS
  <2> QED BY <2>1, SubSeqProperties
<1>5. Head(SubSeq(q, n + 1, Len(q))) = SubSeq(q, n + 1, Len(q))[1]
  BY <1>4
<1> QED BY <1>1, <1>3, <1>5

(* What is due is a sequence of packets.                                    *)
LEMMA DueType ==
  ASSUME Types, NEW s \in Sessions, NEW e \in Ends, Prefix(s, e)
  PROVE  /\ Due(s, e) \in Seq(Packets)
         /\ Len(got[s][Other(e)]) \in 0 .. Len(queued[s][e])
<1>1. queued[s][e] \in Seq(Packets) /\ got[s][Other(e)] \in Seq(Packets)
  BY OtherEnd DEF Types
<1>2. Len(got[s][Other(e)]) \in 0 .. Len(queued[s][e])
  BY <1>1 DEF Prefix
<1>3. /\ Len(got[s][Other(e)]) + 1 \in Int /\ Len(queued[s][e]) \in Int
      /\ \A i \in Len(got[s][Other(e)]) + 1 .. Len(queued[s][e]) : queued[s][e][i] \in Packets
  BY <1>1, <1>2
<1> QED BY <1>2, <1>3, SubSeqProperties DEF Due

(* A packet is given to an end.                                             *)
LEMMA EnqueueKeeps ==
  ASSUME Types, NEW s \in Sessions, NEW x \in Ends, NEW p \in Packets, SInv(s),
         Enqueue(s, x, p)
  PROVE  Types' /\ SInv(s)' /\ Only(s)
<1> DEFINE o == Other(x)
           q == queued[s][x]
           n == Len(got[s][o])
<1>1. o \in Ends /\ o # x /\ Other(o) = x /\ \A e \in Ends : e = x \/ e = o
  BY OtherEnd
<1>2. Alive(s, x) /\ UNCHANGED <<config, st, reg, pending, wire, frame, got>>
  BY DEF Enqueue
<1>3. /\ q \in Seq(Packets) /\ outq[s][x] \in Seq(Item) /\ p \in Item /\ p # Empty
      /\ pending[s][x] \in Seq(Unit) /\ frame[s][o] \in Seq(Unit) /\ wire[s][x] \in Seq(Unit)
      /\ n \in 0 .. Len(q) /\ Due(s, x) \in Seq(Packets)
  <2>1. p \in Item /\ p # Empty
    BY LinkAssumption DEF Item
  <2>2. n \in 0 .. Len(q) /\ Due(s, x) \in Seq(Packets)
    BY DueType DEF SInv
  <2> QED BY <1>1, <2>1, <2>2 DEF Types
<1> HIDE DEF o
<1>4. /\ outq' \in [Sessions -> [Ends -> Seq(Item)]] /\ outq'[s][x] = Append(outq[s][x], p)
      /\ outq'[s][o] = outq[s][o] /\ \A r \in Sessions : r # s => outq'[r] = outq[r]
  <2>1. /\ outq' = [outq EXCEPT ![s][x] = Append(outq[s][x], p)]
        /\ Append(outq[s][x], p) \in Seq(Item)
    BY <1>3 DEF Enqueue, Types
  <2> QED BY <1>1, <2>1 DEF Types
<1>5. /\ queued' \in [Sessions -> [Ends -> Seq(Packets)]] /\ queued'[s][x] = Append(q, p)
      /\ queued'[s][o] = queued[s][o] /\ \A r \in Sessions : r # s => queued'[r] = queued[r]
  <2>1. queued' = [queued EXCEPT ![s][x] = Append(q, p)] /\ Append(q, p) \in Seq(Packets)
    BY <1>3 DEF Enqueue, Types
  <2> QED BY <1>1, <2>1 DEF Types
<1>6. Types'
  BY <1>2, <1>4, <1>5 DEF Types
<1>7. Only(s)
  BY <1>2, <1>4, <1>5 DEF Only, SameSession
<1>8. Setup(s)'
  BY <1>2 DEF SInv, Setup, Early, Alive
<1>9. Prefix(s, o)' /\ Stream(s, o)'
  <2>1. Body(s, o)' = Body(s, o) /\ \A e \in Ends : Over(s, e)' <=> Over(s, e)
    BY <1>2 DEF Body, Early, Over
  <2>2. Enc(outq[s][o])' = Enc(outq[s][o])
    BY <1>4 DEF Enc
  <2> QED BY <1>1, <1>2, <1>5, <2>1, <2>2, StreamKept DEF SInv
<1>10. Prefix(s, x)'
  <2>1. Len(got[s][o]) <= Len(q) /\ \A i \in 1 .. Len(got[s][o]) : got[s][o][i] = q[i]
    BY DEF SInv, Prefix, o
  <2>2. Len(queued'[s][x]) = Len(q) + 1 /\ \A i \in 1 .. Len(q) : queued'[s][x][i] = q[i]
    BY <1>3, <1>5
  <2>3. n \in Nat /\ Len(q) \in Nat
    BY <1>3
  <2> QED BY <1>2, <2>1, <2>2, <2>3 DEF Prefix, o
<1>11. Stream(s, x)'
  <2> SUFFICES ASSUME ~ Over(s, o)'
               PROVE  \E later \in Seq(Unit) :
                        /\ frame'[s][o] \o (Body(s, x)' \o later) = Enc(Due(s, x))'
                        /\ ~ Over(s, x)' => later = pending'[s][x] \o Enc(outq[s][x])'
    BY DEF Stream, o
  <2>1. ~ Over(s, o) /\ ~ Over(s, x)
    BY <1>2 DEF Over, Alive
  <2> DEFINE later == pending[s][x] \o Enc(outq[s][x])
             u == UnitsOf(p)
             b == Body(s, x)
             f == frame[s][o]
  <2>2. f \o (b \o later) = Enc(Due(s, x))
    BY <2>1 DEF SInv, Stream, o
  <2>3. Due(s, x)' = Append(Due(s, x), p)
    BY <1>2, <1>3, <1>5, DueGrows DEF Due, o
  <2>4. Enc(Append(Due(s, x), p)) = Enc(Due(s, x)) \o u
    BY <1>3, PacketsAreItems, EncAppend
  <2>5. Enc(outq[s][x])' = Enc(outq[s][x]) \o u
    <3>1. Enc(outq[s][x])' = Enc(Append(outq[s][x], p))
      BY <1>4 DEF Enc
    <3> QED BY <1>3, <3>1, EncAppend
  <2>6. Enc(outq[s][x]) \in Seq(Unit) /\ u \in Seq(Unit)
    BY <1>3, EncType, UnitsOfType
  <2>7. b \in Seq(Unit) /\ Body(s, x)' = b
    <3>1. wire[s][x] # <<>> => Tail(wire[s][x]) \in Seq(Unit)
      BY <1>3, HeadTailProperties
    <3> QED BY <1>2, <1>3, <3>1 DEF Body, Early
  <2> HIDE DEF u, b, f
  <2>8. later \in Seq(Unit) /\ later \o u \in Seq(Unit)
    BY <1>3, <2>6, ConcatProperties
  <2>9. later \o u = pending[s][x] \o Enc(outq[s][x])'
    <3>1. (pending[s][x] \o Enc(outq[s][x])) \o u = pending[s][x] \o (Enc(outq[s][x]) \o u)
      BY <1>3, <2>6, Associative
    <3> QED BY <2>5, <3>1
  <2> HIDE DEF later
  <2>10. f \o (b \o (later \o u)) = Enc(Due(s, x)) \o u
    <3>1. b \o later \in Seq(Unit) /\ b \o (later \o u) = (b \o later) \o u
      BY <2>6, <2>7, <2>8, Associative, ConcatProperties
    <3>2. f \o ((b \o later) \o u) = (f \o (b \o later)) \o u
      BY <1>3, <2>6, <3>1, Associative DEF f
    <3> QED BY <2>2, <3>1, <3>2
  <2>11. Enc(Due(s, x))' = Enc(Due(s, x)) \o u
    <3>1. Enc(Due(s, x))' = Enc(Append(Due(s, x), p))
      BY <2>3 DEF Enc
    <3> QED BY <2>4, <3>1
  <2>12. frame'[s][o] = f /\ pending'[s][x] = pending[s][x]
    BY <1>2 DEF f
  <2> QED BY <2>7, <2>8, <2>9, <2>10, <2>11, <2>12
<1> QED BY <1>1, <1>6, <1>7, <1>8, <1>9, <1>10, <1>11 DEF SInv

(* The cleaner comes by at x.                                               *)
LEMMA CleanKeeps ==
  ASSUME Types, NEW x \in Ends, Clean(x), \A s \in Sessions : SInv(s)
  PROVE  Types' /\ st' = st /\ \A s \in Sessions : SInv(s)'
<1>1. UNCHANGED <<config, st, pending, wire, frame, queued, got>>
  BY DEF Clean
<1>2. /\ reg' \in [Ends -> SUBSET Sessions] /\ \A e \in Ends : reg'[e] \subseteq reg[e]
      /\ \A e \in Ends : \A s \in reg[e] : ~ Over(s, e) => s \in reg'[e]
  <2>1. reg' = [reg EXCEPT ![x] = {s \in reg[x] : ~ Over(s, x)}]
    BY DEF Clean, Types
  <2> QED BY <2>1 DEF Types
<1>3. ASSUME NEW s \in Sessions, NEW e \in Ends
      PROVE  outq'[s][e] = outq[s][e] \/ outq'[s][e] = Append(outq[s][e], Empty)
  BY DEF Clean
<1>4. outq' \in [Sessions -> [Ends -> Seq(Item)]]
  <2>1. Empty \in Item
    BY DEF Item
  <2>2. ASSUME NEW s \in Sessions, NEW e \in Ends
        PROVE  outq[s][e] \in Seq(Item) /\ Append(outq[s][e], Empty) \in Seq(Item)
    <3>1. outq[s][e] \in Seq(Item)
      BY DEF Types
    <3> QED BY <2>1, <3>1, AppendProperties
  <2> DEFINE w(s, e) == IF e = x /\ s \in reg[x] /\ ~ Over(s, x)
                        THEN Append(outq[s][e], Empty) ELSE outq[s][e]
  <2>3. \A s \in Sessions, e \in Ends : w(s, e) \in Seq(Item)
    BY <2>2
  <2>4. outq' = [s \in Sessions |-> [e \in Ends |-> w(s, e)]]
    BY DEF Clean
  <2> HIDE DEF w
  <2> QED BY <2>3, <2>4
<1>5. Types'
  BY <1>1, <1>2, <1>4 DEF Types
<1>6. ASSUME NEW s \in Sessions PROVE Setup(s)'
  <2>1. Setup(s)
    BY DEF SInv
  <2>2. \A e \in Ends : (Alive(s, e)' <=> Alive(s, e)) /\ (Early(s, e)' <=> Early(s, e))
    BY <1>1 DEF Alive, Early
  <2>3. ASSUME NEW e \in Ends, pending'[s][e] # <<>> PROVE s \in reg'[e] /\ Alive(s, e)'
    <3>1. s \in reg[e] /\ Alive(s, e) /\ ~ Over(s, e)
      BY <1>1, <2>1, <2>3 DEF Setup, Alive, Over
    <3> QED BY <1>2, <2>2, <3>1
  <2>4. ASSUME NEW e \in Ends, s \in reg'[e], Alive(s, e)', Early(s, Other(e))'
        PROVE  wire'[s][e] # <<>>
    BY <1>1, <1>2, <2>1, <2>2, <2>4, OtherEnd DEF Setup
  <2>5. Early(s, "L")' => s \notin reg'["L"] /\ wire'[s]["L"] = <<>> /\ st'[s]["I"] # "up"
    BY <1>1, <1>2, <2>1, <2>2, EndsAre DEF Setup
  <2> QED BY <1>1, <2>1, <2>3, <2>4, <2>5 DEF Setup
<1>7. ASSUME NEW s \in Sessions, NEW e \in Ends PROVE Prefix(s, e)' /\ Stream(s, e)'
  <2>1. Body(s, e)' = Body(s, e) /\ \A y : Over(s, y)' <=> Over(s, y)
    BY <1>1 DEF Body, Early, Over
  <2>2. Enc(outq[s][e])' = Enc(outq[s][e])
    <3>1. outq[s][e] \in Seq(Item) /\ Empty \in Item
      BY DEF Types, Item
    <3>2. CASE outq'[s][e] = outq[s][e]
      BY <3>2 DEF Enc
    <3>3. CASE outq'[s][e] = Append(outq[s][e], Empty)
      <4>1. Enc(outq[s][e])' = Enc(Append(outq[s][e], Empty))
        BY <3>3 DEF Enc
      <4>2. Enc(Append(outq[s][e], Empty)) = Enc(outq[s][e]) \o UnitsOf(Empty)
        BY <3>1, EncAppend
      <4>3. Enc(outq[s][e]) \o <<>> = Enc(outq[s][e])
        BY <3>1, EncType, ConcatEmptySeq
      <4> QED BY <4>1, <4>2, <4>3 DEF UnitsOf
    <3> QED BY <1>3, <3>2, <3>3
  <2> QED BY <1>1, <2>1, <2>2, StreamKept DEF SInv
<1> QED BY <1>1, <1>5, <1>6, <1>7 DEF SInv

(* The sending task of x encodes a batch.                                   *)
LEMMA EncodeKeeps ==
  ASSUME Types, NEW s \in Sessions, NEW x \in Ends, SInv(s), Encode(s, x),
         ~ TooLong(x, outq[s][x], BatchOf(x, outq[s][x]))
  PROVE  Types' /\ SInv(s)' /\ Only(s)
<1> DEFINE o == Other(x)
           q == outq[s][x]
           k == BatchOf(x, q)
<1>1. o \in Ends /\ o # x /\ Other(o) = x /\ \A e \in Ends : e = x \/ e = o
  BY OtherEnd
<1>2. /\ s \in reg[x] /\ Alive(s, x) /\ pending[s][x] = <<>> /\ q # <<>>
      /\ UNCHANGED <<config, st, reg, wire, frame, queued, got>>
  BY DEF Encode
<1>3. q \in Seq(Item) /\ k \in 0 .. Len(q)
  <2>1. q \in Seq(Item)
    BY DEF Types
  <2> HIDE DEF q
  <2>2. k \in 1 .. Len(q)
    BY <1>2, <2>1, BatchType
  <2> QED BY <2>1, <2>2
<1>4. /\ pending' = [pending EXCEPT ![s][x] = Encoded(q, k)]
      /\ outq' = [outq EXCEPT ![s][x] = Left(q, k)]
  BY DEF Encode
<1> HIDE DEF o, q, k
<1>5. /\ Encoded(q, k) \in Seq(Unit) /\ Left(q, k) \in Seq(Item)
      /\ Encoded(q, k) \o Enc(Left(q, k)) = Enc(q) /\ Enc(q) \in Seq(Unit)
  BY <1>3, EncodedUnfolds, EncSplits, EncType
<1>6. /\ pending' \in [Sessions -> [Ends -> Seq(Unit)]] /\ pending'[s][x] = Encoded(q, k)
      /\ pending'[s][o] = pending[s][o] /\ \A r \in Sessions : r # s => pending'[r] = pending[r]
  BY <1>1, <1>4, <1>5 DEF Types
<1>7. /\ outq' \in [Sessions -> [Ends -> Seq(Item)]] /\ outq'[s][x] = Left(q, k)
      /\ outq'[s][o] = outq[s][o] /\ \A r \in Sessions : r # s => outq'[r] = outq[r]
  BY <1>1, <1>4, <1>5 DEF Types
<1>8. Types'
  BY <1>2, <1>6, <1>7 DEF Types
<1>9. Only(s)
  BY <1>2, <1>6, <1>7 DEF Only, SameSession
<1>10. Setup(s)'
  <2>1. \A e \in Ends : (Alive(s, e)' <=> Alive(s, e)) /\ (Early(s, e)' <=> Early(s, e))
    BY <1>2 DEF Alive, Early
  <2>2. ASSUME NEW e \in Ends, pending'[s][e] # <<>> PROVE s \in reg'[e] /\ Alive(s, e)'
    BY <1>1, <1>2, <1>6, <2>1, <2>2 DEF SInv, Setup
  <2>3. Early(s, "L")' => s \notin reg'["L"] /\ wire'[s]["L"] = <<>> /\ st'[s]["I"] # "up"
    BY <1>2, <2>1, EndsAre DEF SInv, Setup
  <2>4. ASSUME NEW e \in Ends, s \in reg'[e], Alive(s, e)', Early(s, Other(e))'
        PROVE  wire'[s][e] # <<>>
    BY <1>2, <2>1, <2>4, OtherEnd DEF SInv, Setup
  <2> QED BY <1>2, <2>2, <2>3, <2>4 DEF SInv, Setup
<1>11. \A e : (Body(s, e)' = Body(s, e)) /\ (Over(s, e)' <=> Over(s, e))
  BY <1>2 DEF Body, Early, Over
<1>12. Prefix(s, o)' /\ Stream(s, o)'
  <2>1. Enc(outq[s][o])' = Enc(outq[s][o])
    BY <1>7 DEF Enc
  <2> QED BY <1>1, <1>2, <1>6, <1>11, <2>1, StreamKept DEF SInv
<1>13. Prefix(s, x)'
  BY <1>2 DEF SInv, Prefix
<1>14. Stream(s, x)'
  <2> SUFFICES ASSUME ~ Over(s, o)'
               PROVE  \E later \in Seq(Unit) :
                        /\ frame'[s][o] \o (Body(s, x)' \o later) = Enc(Due(s, x))'
                        /\ ~ Over(s, x)' => later = pending'[s][x] \o Enc(outq[s][x])'
    BY DEF Stream, o
  <2>1. ~ Over(s, o) /\ ~ Over(s, x)
    BY <1>2, <1>11 DEF Over, Alive
  <2>2. frame[s][o] \o (Body(s, x) \o (pending[s][x] \o Enc(q))) = Enc(Due(s, x))
    BY <2>1 DEF SInv, Stream, o, q
  <2>3. pending[s][x] \o Enc(q) = Enc(q)
    BY <1>2, <1>5, ConcatEmptySeq
  <2>4. Enc(outq[s][x])' = Enc(Left(q, k))
    BY <1>7 DEF Enc
  <2>5. Enc(Due(s, x))' = Enc(Due(s, x))
    BY <1>2 DEF Enc, Due
  <2>6. frame'[s][o] \o (Body(s, x)' \o Enc(q)) = Enc(Due(s, x))'
    BY <1>2, <1>11, <2>2, <2>3, <2>5
  <2> QED BY <1>5, <1>6, <2>4, <2>6
<1> QED BY <1>1, <1>8, <1>9, <1>10, <1>12, <1>13, <1>14 DEF SInv

(* The frames on the wire are units.                                        *)
LEMMA BodyType ==
  ASSUME Types, NEW s \in Sessions, NEW e \in Ends
  PROVE  Body(s, e) \in Seq(Unit)
<1>1. wire[s][e] \in Seq(Unit)
  BY DEF Types
<1>2. wire[s][e] # <<>> => Tail(wire[s][e]) \in Seq(Unit)
  BY <1>1, HeadTailProperties
<1> QED BY <1>1, <1>2 DEF Body

(* The socket of x takes a unit.                                            *)
LEMMA WriteKeeps ==
  ASSUME Types, NEW s \in Sessions, NEW x \in Ends, SInv(s), Write(s, x)
  PROVE  Types' /\ SInv(s)' /\ Only(s)
<1> DEFINE o == Other(x)
           p == pending[s][x]
           w == wire[s][x]
           u == Head(p)
<1>1. o \in Ends /\ o # x /\ Other(o) = x /\ \A e \in Ends : e = x \/ e = o
  BY OtherEnd
<1>2. Alive(s, x) /\ p # <<>> /\ UNCHANGED <<config, st, reg, outq, frame, queued, got>>
  BY DEF Write
<1>3. p \in Seq(Unit) /\ w \in Seq(Unit) /\ u \in Unit /\ Tail(p) \in Seq(Unit)
  <2>1. p \in Seq(Unit) /\ w \in Seq(Unit)
    BY DEF Types
  <2> QED BY <1>2, <2>1, HeadTailProperties
<1>4. /\ pending' = [pending EXCEPT ![s][x] = Tail(p)]
      /\ Over(s, o) => wire' = wire
      /\ ~ Over(s, o) => wire' = [wire EXCEPT ![s][x] = Append(w, u)]
  BY DEF Write, Types
<1> HIDE DEF o, p, w, u
<1>5. /\ pending' \in [Sessions -> [Ends -> Seq(Unit)]] /\ pending'[s][x] = Tail(p)
      /\ pending'[s][o] = pending[s][o] /\ \A r \in Sessions : r # s => pending'[r] = pending[r]
  BY <1>1, <1>3, <1>4 DEF Types
<1>6. /\ wire' \in [Sessions -> [Ends -> Seq(Unit)]]
      /\ ~ Over(s, o) => wire'[s][x] = Append(w, u)
      /\ wire'[s][x] = w \/ wire'[s][x] # <<>>
      /\ wire'[s][o] = wire[s][o] /\ \A r \in Sessions : r # s => wire'[r] = wire[r]
  <2>1. CASE Over(s, o)
    BY <1>4, <2>1 DEF Types, w
  <2>2. CASE ~ Over(s, o)
    <3>1. Append(w, u) \in Seq(Unit) /\ Append(w, u) # <<>>
      BY <1>3, AppendProperties
    <3>2. /\ wire \in [Sessions -> [Ends -> Seq(Unit)]]
          /\ wire' = [wire EXCEPT ![s][x] = Append(w, u)]
      BY <1>4, <2>2 DEF Types
    <3> QED BY <1>1, <3>1, <3>2
  <2> QED BY <2>1, <2>2
<1>7. Types'
  BY <1>2, <1>5, <1>6 DEF Types
<1>8. Only(s)
  BY <1>2, <1>5, <1>6 DEF Only, SameSession
<1>9. \A e \in Ends : /\ Alive(s, e)' <=> Alive(s, e)
                      /\ Early(s, e)' <=> Early(s, e)
                      /\ Over(s, e)' <=> Over(s, e)
  BY <1>2 DEF Alive, Early, Over
<1>10. s \in reg[x]
  BY <1>2 DEF SInv, Setup, p
<1>11. Setup(s)'
  <2>1. ASSUME NEW e \in Ends, pending'[s][e] # <<>> PROVE s \in reg'[e] /\ Alive(s, e)'
    <3>1. CASE e = x
      BY <1>2, <1>9, <1>10, <3>1
    <3>2. CASE e = o
      BY <1>2, <1>5, <1>9, <2>1, <3>2 DEF SInv, Setup
    <3> QED BY <1>1, <3>1, <3>2
  <2>2. ASSUME Early(s, "L")'
        PROVE  s \notin reg'["L"] /\ wire'[s]["L"] = <<>> /\ st'[s]["I"] # "up"
    <3>1. s \notin reg["L"] /\ wire[s]["L"] = <<>> /\ st[s]["I"] # "up"
      BY <1>9, <2>2, EndsAre DEF SInv, Setup
    <3>2. o = "L"
      BY <1>1, <1>10, <3>1, EndsAre
    <3> QED BY <1>2, <1>6, <3>1, <3>2
  <2>3. ASSUME st'[s]["I"] = "none" PROVE st'[s]["L"] = "none" /\ wire'[s]["I"] = <<>>
    <3>1. st[s]["I"] = "none" /\ st[s]["L"] = "none" /\ wire[s]["I"] = <<>>
      BY <1>2, <2>3 DEF SInv, Setup
    <3> QED BY <1>2, <3>1 DEF Alive, Ends
  <2>4. ASSUME NEW e \in Ends, s \in reg'[e], Alive(s, e)', Early(s, Other(e))'
        PROVE  wire'[s][e] # <<>>
    <3>1. wire[s][e] # <<>>
      BY <1>2, <1>9, <2>4, OtherEnd DEF SInv, Setup
    <3> QED BY <1>1, <1>6, <3>1 DEF w
  <2> QED BY <2>1, <2>2, <2>3, <2>4 DEF Setup
<1>12. Prefix(s, o)' /\ Stream(s, o)'
  <2>1. Body(s, o)' = Body(s, o)
    BY <1>1, <1>6, <1>9 DEF Body
  <2>2. Enc(outq[s][o])' = Enc(outq[s][o])
    BY <1>2 DEF Enc
  <2> QED BY <1>1, <1>2, <1>5, <1>9, <2>1, <2>2, StreamKept DEF SInv
<1>13. Prefix(s, x)'
  BY <1>2 DEF SInv, Prefix
<1>14. Stream(s, x)'
  <2> SUFFICES ASSUME ~ Over(s, o)'
               PROVE  \E later \in Seq(Unit) :
                        /\ frame'[s][o] \o (Body(s, x)' \o later) = Enc(Due(s, x))'
                        /\ ~ Over(s, x)' => later = pending'[s][x] \o Enc(outq[s][x])'
    BY DEF Stream, o
  <2> DEFINE c == Enc(outq[s][x])
             b == Body(s, x)
  <2>1. ~ Over(s, o) /\ ~ Over(s, x) /\ wire'[s][x] = Append(w, u)
    BY <1>1, <1>2, <1>6, <1>9 DEF Over, Alive
  <2>2. frame[s][o] \o (b \o (p \o c)) = Enc(Due(s, x))
    BY <2>1 DEF SInv, Stream, o, p
  <2>3. b \in Seq(Unit) /\ c \in Seq(Unit) /\ Tail(p) \o c \in Seq(Unit)
    <3>1. outq[s][x] \in Seq(Item)
      BY DEF Types
    <3>2. c \in Seq(Unit)
      BY <3>1, EncType
    <3> QED BY <1>3, <3>2, BodyType, ConcatProperties
  <2>4. Body(s, x)' = Append(b, u)
    <3>1. CASE Early(s, o)
      <4>1. w # <<>>
        BY <1>1, <1>2, <1>10, <3>1 DEF SInv, Setup, o, w
      <4>2. b = Tail(w)
        BY <3>1, <4>1 DEF Body, o, w
      <4>3. Tail(Append(w, u)) = Append(Tail(w), u) /\ Append(w, u) # <<>>
        BY <1>3, <4>1, HeadTailAppend, AppendProperties
      <4>4. Early(s, o)'
        BY <1>1, <1>9, <3>1
      <4> HIDE DEF b
      <4> QED BY <2>1, <4>2, <4>3, <4>4 DEF Body, o
    <3>2. CASE ~ Early(s, o)
      BY <1>1, <1>9, <2>1, <3>2 DEF Body, o, w
    <3> QED BY <3>1, <3>2
  <2>5. Append(b, u) \o (Tail(p) \o c) = b \o (p \o c)
    <3> HIDE DEF b, c
    <3> QED BY <1>2, <1>3, <2>3, MoveUnit DEF u
  <2>6. Enc(Due(s, x))' = Enc(Due(s, x)) /\ Enc(outq[s][x])' = c /\ frame'[s][o] = frame[s][o]
    BY <1>2 DEF Enc, Due
  <2> HIDE DEF b, c
  <2>7. frame'[s][o] \o (Body(s, x)' \o (Tail(p) \o c)) = Enc(Due(s, x))'
    BY <2>2, <2>4, <2>5, <2>6
  <2> QED BY <1>5, <2>3, <2>6, <2>7
<1> QED BY <1>1, <1>7, <1>8, <1>11, <1>12, <1>13, <1>14 DEF SInv

(* The receiving task of x reads a unit, and passes a packet on when the    *)
(* frame is complete.                                                       *)
LEMMA ReadKeeps ==
  ASSUME Types, NEW s \in Sessions, NEW x \in Ends, SInv(s), Read(s, x), ~ Finish(s, x)
  PROVE  Types' /\ SInv(s)' /\ Only(s)
<1> DEFINE o == Other(x)
           in == wire[s][o]
           f == Append(frame[s][x], Head(in))
           due == Due(s, o)
           n == Len(got[s][x])
<1>1. o \in Ends /\ o # x /\ Other(o) = x /\ \A e \in Ends : e = x \/ e = o
  BY OtherEnd
<1>2. /\ st[s][x] = "up" /\ in # <<>>
      /\ UNCHANGED <<config, st, reg, outq, pending, queued>>
      /\ IsComplete(f) => MacMatches(f)
  BY DEF Read
<1>3. /\ in \in Seq(Unit) /\ Tail(in) \in Seq(Unit) /\ f \in Seq(Unit)
      /\ frame[s][x] \in Seq(Unit) /\ got[s][x] \in Seq(Packets) /\ queued[s][o] \in Seq(Packets)
  <2>1. /\ in \in Seq(Unit) /\ frame[s][x] \in Seq(Unit)
        /\ got[s][x] \in Seq(Packets) /\ queued[s][o] \in Seq(Packets)
    BY <1>1 DEF Types
  <2> HIDE DEF in
  <2> QED BY <1>2, <2>1, HeadTailProperties, AppendProperties
<1>4. due \in Seq(Packets) /\ n \in 0 .. Len(queued[s][o])
  <2> HIDE DEF o
  <2>1. Prefix(s, o)
    BY <1>1 DEF SInv
  <2> QED BY <1>1, <2>1, DueType
<1>5. /\ wire' = [wire EXCEPT ![s][o] = Tail(in)]
      /\ frame' = [frame EXCEPT ![s][x] = IF IsComplete(f) THEN <<>> ELSE f]
      /\ IsComplete(f) => got' = [got EXCEPT ![s][x] = Append(got[s][x], PacketIn(f))]
      /\ ~ IsComplete(f) => got' = got
  BY DEF Read, Types
<1>6. PICK later \in Seq(Unit) :
        /\ f \o (Tail(in) \o later) = Enc(due)
        /\ ~ Over(s, o) => later = pending[s][o] \o Enc(outq[s][o])
  <2>1. ~ Over(s, x) /\ Body(s, o) = in
    BY <1>1, <1>2 DEF Over, Body, Early
  <2>2. Stream(s, o)
    BY <1>1 DEF SInv
  <2>3. PICK later \in Seq(Unit) :
          /\ frame[s][x] \o (in \o later) = Enc(due)
          /\ ~ Over(s, o) => later = pending[s][o] \o Enc(outq[s][o])
    <3> HIDE DEF o, in
    <3> QED BY <1>1, <2>1, <2>2 DEF Stream
  <2>4. f \o (Tail(in) \o later) = frame[s][x] \o (in \o later)
    <3> HIDE DEF in
    <3> QED BY <1>2, <1>3, MoveUnit
  <2> QED BY <2>3, <2>4
<1>7. IsComplete(f) => /\ due # <<>> /\ due[1] \in Packets /\ PacketIn(f) = due[1]
                       /\ Tail(in) \o later = Enc(Tail(due))
  <2>1. Tail(in) \o later \in Seq(Unit)
    BY <1>3, ConcatProperties
  <2> HIDE DEF f, due, in
  <2> QED BY <1>2, <1>3, <1>4, <1>6, <2>1, FrameRead
<1> HIDE DEF o, in, f, due
<1>8. /\ wire' \in [Sessions -> [Ends -> Seq(Unit)]] /\ wire'[s][o] = Tail(in)
      /\ wire'[s][x] = wire[s][x] /\ \A r \in Sessions : r # s => wire'[r] = wire[r]
  BY <1>1, <1>3, <1>5 DEF Types
<1>9. /\ frame' \in [Sessions -> [Ends -> Seq(Unit)]]
      /\ frame'[s][x] = IF IsComplete(f) THEN <<>> ELSE f
      /\ frame'[s][o] = frame[s][o] /\ \A r \in Sessions : r # s => frame'[r] = frame[r]
  <2>1. (IF IsComplete(f) THEN <<>> ELSE f) \in Seq(Unit)
    BY <1>3
  <2> QED BY <1>1, <1>5, <2>1 DEF Types
<1>10. /\ got' \in [Sessions -> [Ends -> Seq(Packets)]]
       /\ IsComplete(f) => got'[s][x] = Append(got[s][x], due[1])
       /\ ~ IsComplete(f) => got'[s][x] = got[s][x]
       /\ got'[s][o] = got[s][o] /\ \A r \in Sessions : r # s => got'[r] = got[r]
  <2>1. CASE ~ IsComplete(f)
    BY <1>5, <2>1 DEF Types
  <2>2. CASE IsComplete(f)
    <3>1. /\ got' = [got EXCEPT ![s][x] = Append(got[s][x], due[1])]
          /\ Append(got[s][x], due[1]) \in Seq(Packets)
      BY <1>3, <1>5, <1>7, <2>2, AppendProperties
    <3> QED BY <1>1, <2>2, <3>1 DEF Types
  <2> QED BY <2>1, <2>2
<1>11. Types'
  BY <1>2, <1>8, <1>9, <1>10 DEF Types
<1>12. Only(s)
  BY <1>2, <1>8, <1>9, <1>10 DEF Only, SameSession
<1>13. \A e \in Ends : /\ Alive(s, e)' <=> Alive(s, e)
                       /\ Early(s, e)' <=> Early(s, e)
                       /\ Over(s, e)' <=> Over(s, e)
  BY <1>2 DEF Alive, Early, Over
<1>14. Setup(s)'
  <2>1. ~ Early(s, "L") /\ st[s]["I"] # "none"
    BY <1>2, EndsAre DEF SInv, Setup, Early, Ends
  <2>2. ASSUME NEW e \in Ends, pending'[s][e] # <<>> PROVE s \in reg'[e] /\ Alive(s, e)'
    BY <1>2, <1>13, <2>2 DEF SInv, Setup
  <2>3. ASSUME NEW e \in Ends, s \in reg'[e], Alive(s, e)', Early(s, Other(e))'
        PROVE  wire'[s][e] # <<>>
    <3>1. e = x
      BY <1>1, <1>2, <1>13, <2>3 DEF Early
    <3>2. wire[s][x] # <<>>
      BY <1>2, <1>13, <2>3, <3>1, OtherEnd DEF SInv, Setup
    <3> QED BY <1>8, <3>1, <3>2
  <2> QED BY <1>2, <1>13, <2>1, <2>2, <2>3, EndsAre DEF Setup
<1>15. Prefix(s, x)' /\ Stream(s, x)'
  <2>1. Body(s, x)' = Body(s, x)
    BY <1>1, <1>8, <1>13 DEF Body, o
  <2>2. Enc(outq[s][x])' = Enc(outq[s][x])
    BY <1>2 DEF Enc
  <2> QED BY <1>1, <1>2, <1>9, <1>10, <1>13, <2>1, <2>2, StreamKept DEF SInv, o
<1>16. Prefix(s, o)
  BY <1>1 DEF SInv
<1>17. Prefix(s, o)' /\ Stream(s, o)'
  <2>1. Body(s, o)' = Tail(in)
    BY <1>1, <1>2, <1>8 DEF Body, Early
  <2>2. Enc(outq[s][o])' = Enc(outq[s][o]) /\ pending'[s][o] = pending[s][o]
    BY <1>2 DEF Enc
  <2>3. CASE ~ IsComplete(f)
    <3>1. Enc(Due(s, o))' = Enc(due)
      BY <1>1, <1>2, <1>10, <2>3 DEF Enc, Due, due
    <3>2. frame'[s][x] \o (Body(s, o)' \o later) = Enc(Due(s, o))'
      BY <1>6, <1>9, <2>1, <2>3, <3>1
    <3>3. Stream(s, o)'
      BY <1>1, <1>6, <1>13, <2>2, <3>2 DEF Stream
    <3>4. Prefix(s, o)'
      BY <1>1, <1>2, <1>10, <1>16, <2>3 DEF Prefix
    <3> QED BY <3>3, <3>4
  <2>4. CASE IsComplete(f)
    <3> DEFINE q == queued[s][o]
    <3>1. due = SubSeq(q, n + 1, Len(q))
      BY <1>1 DEF due, Due
    <3>2. n + 1 <= Len(q) /\ due[1] = q[n + 1] /\ SubSeq(q, (n + 1) + 1, Len(q)) = Tail(due)
      <4> HIDE DEF q, n
      <4> QED BY <1>3, <1>4, <1>7, <2>4, <3>1, DueShrinks DEF q
    <3>3. /\ got'[s][x] = Append(got[s][x], due[1]) /\ Len(got'[s][x]) = n + 1
          /\ \A i \in 1 .. n : got'[s][x][i] = got[s][x][i]
          /\ got'[s][x][n + 1] = due[1]
      BY <1>3, <1>7, <1>10, <2>4, AppendProperties
    <3>4. Due(s, o)' = Tail(due)
      BY <1>1, <1>2, <3>2, <3>3 DEF Due
    <3>5. Enc(Due(s, o))' = Enc(Tail(due))
      BY <3>4 DEF Enc
    <3>6. Tail(in) \o later \in Seq(Unit)
      BY <1>3, ConcatProperties
    <3>7. <<>> \o (Tail(in) \o later) = Tail(in) \o later
      BY <3>6, ConcatEmptySeq
    <3>8. frame'[s][x] \o (Body(s, o)' \o later) = Enc(Due(s, o))'
      BY <1>7, <1>9, <2>1, <2>4, <3>5, <3>7
    <3>9. Stream(s, o)'
      BY <1>1, <1>6, <1>13, <2>2, <3>8 DEF Stream
    <3>10. Prefix(s, o)'
      <4>1. n \in Nat /\ \A i \in 1 .. n : got[s][x][i] = q[i]
        BY <1>1, <1>4, <1>16 DEF Prefix
      <4>2. \A i \in 1 .. n + 1 : got'[s][x][i] = q[i]
        <5>1. \A i \in 1 .. n + 1 : i \in 1 .. n \/ i = n + 1
          BY <4>1
        <5> QED BY <3>2, <3>3, <4>1, <5>1
      <4> QED BY <1>1, <1>2, <3>2, <3>3, <4>2 DEF Prefix
    <3> QED BY <3>9, <3>10
  <2> QED BY <2>3, <2>4
<1> QED BY <1>1, <1>11, <1>12, <1>14, <1>15, <1>17 DEF SInv

-----------------------------------------------------------------------------
(* A step of one session keeps the invariant.                               *)
LEMMA OnlyKeeps ==
  ASSUME IInv, Types', NEW s \in Sessions, SInv(s)', Only(s)
  PROVE  IInv'
<1>1. \A r \in Sessions : SInv(r)'
  BY Untouched DEF IInv, Only
<1>2. Used' = Used
  BY DEF Used, Only
<1> QED BY <1>1, <1>2 DEF IInv, Dialled

(* A step of the connect loop or the network alone keeps the invariant.     *)
LEMMA SameKeeps ==
  ASSUME IInv, UNCHANGED <<config, st, reg, outq, pending, wire, frame, queued, got>>
  PROVE  IInv'
<1>1. \A r \in Sessions : SInv(r)'
  BY Untouched DEF IInv, SameSession
<1>2. Used' = Used /\ Types'
  BY DEF Used, IInv, Types
<1> QED BY <1>1, <1>2 DEF IInv, Dialled

(* A step of an end ends the session there, or is a successful one; it      *)
(* touches no other session and keeps the invariant.                        *)
LEMMA TaskOnly ==
  ASSUME IInv, NEW s \in Sessions, NEW x \in Ends, Task(s, x) \/ Reset(s, x)
  PROVE  /\ IInv' /\ Only(s)
         /\ \/ Alive(s, x) /\ Finish(s, x)
            \/ ReadHello(s, x) /\ KeyMatches(x, Head(wire[s][Other(x)]).key)
            \/ Encode(s, x) /\ ~ TooLong(x, outq[s][x], BatchOf(x, outq[s][x]))
            \/ Write(s, x)
            \/ Read(s, x) /\ ~ Finish(s, x)
<1>1. Types /\ SInv(s)
  BY DEF IInv
<1>2. ASSUME Alive(s, x), Finish(s, x), UNCHANGED <<config, queued, got>>
      PROVE  IInv' /\ Only(s)
  BY <1>1, <1>2, FinishKeeps, OnlyKeeps
<1>3. CASE ReadHello(s, x)
  <2>1. CASE KeyMatches(x, Head(wire[s][Other(x)]).key)
    BY <1>1, <1>3, <2>1, ReadHelloKeeps, OnlyKeeps
  <2>2. CASE ~ KeyMatches(x, Head(wire[s][Other(x)]).key)
    BY <1>2, <1>3, <2>2 DEF ReadHello, Alive
  <2> QED BY <2>1, <2>2
<1>4. CASE Encode(s, x)
  <2>1. CASE TooLong(x, outq[s][x], BatchOf(x, outq[s][x]))
    BY <1>2, <1>4, <2>1 DEF Encode
  <2>2. CASE ~ TooLong(x, outq[s][x], BatchOf(x, outq[s][x]))
    BY <1>1, <1>4, <2>2, EncodeKeeps, OnlyKeeps
  <2> QED BY <2>1, <2>2
<1>5. CASE Write(s, x)
  BY <1>1, <1>5, WriteKeeps, OnlyKeeps
<1>6. CASE Read(s, x)
  <2>1. CASE Finish(s, x)
    <3>1. st[s][x] = "up" /\ st'[s][x] = "over"
      BY <1>1, <1>6, <2>1 DEF Read, Finish, Types
    <3>2. st' # st
      BY <3>1
    <3>3. UNCHANGED <<config, queued, got>>
      BY <1>6, <3>2 DEF Read
    <3> QED BY <1>2, <2>1, <3>1, <3>3 DEF Alive
  <2>2. CASE ~ Finish(s, x)
    BY <1>1, <1>6, <2>2, ReadKeeps, OnlyKeeps
  <2> QED BY <2>1, <2>2
<1>7. CASE ReadEof(s, x) \/ ReadTimesOut(s, x) \/ Reset(s, x)
  BY <1>2, <1>7 DEF ReadEof, ReadTimesOut, HasTimeout, Reset
<1> QED BY <1>3, <1>4, <1>5, <1>6, <1>7 DEF Task

(* A new session is one that has not been dialled.                          *)
LEMMA ConnectIsNew ==
  ASSUME IInv, NEW s \in Sessions, Connect(s)
  PROVE  /\ \A n \in Nat : Used = 1 .. n => s = n + 1
         /\ st[s]["I"] = "none" /\ \A r \in Sessions : r # s => SameSession(r)
<1>1. ASSUME NEW n \in Nat, Used = 1 .. n PROVE s = n + 1 /\ s \notin Used
  <2>1. 1 \in Int /\ n \in Int
    OBVIOUS
  <2>2. Cardinality(1 .. n) = IF 1 > n THEN 0 ELSE n - 1 + 1
    BY <2>1, FS_Interval
  <2>3. s = n + 1
    BY <1>1, <2>2 DEF Connect
  <2> QED BY <1>1, <2>3
<1>2. s \notin Used
  BY <1>1 DEF IInv, Dialled
<1>3. st[s]["I"] = "none"
  BY <1>2 DEF Used
<1> QED BY <1>1, <1>3, ConnectKeeps DEF IInv

(* Every step keeps the invariant.                                          *)
LEMMA NextKeeps ==
  ASSUME IInv, [Next]_vars
  PROVE  IInv'
<1>1. Types /\ \A s \in Sessions : SInv(s)
  BY DEF IInv
<1>2. CASE UNCHANGED vars
  BY <1>2, SameKeeps DEF vars
<1>3. CASE BackoffEnds \/ ConnectFails
  BY <1>3, SameKeeps DEF BackoffEnds, ConnectFails
<1>4. ASSUME NEW s \in Sessions, Connect(s) PROVE IInv'
  <2>1. PICK n \in Nat : Used = 1 .. n
    BY DEF IInv, Dialled
  <2>2. s = n + 1 /\ st[s]["I"] = "none"
    BY <1>4, <2>1, ConnectIsNew
  <2>3. /\ Types' /\ SInv(s)' /\ st'[s]["I"] # "none"
        /\ \A r \in Sessions : r # s => SameSession(r) /\ st'[r] = st[r]
    BY <1>1, <1>4, <2>2, ConnectKeeps
  <2>4. Used' = 1 .. n + 1
    <3>1. Used' = Used \cup {s}
      BY <2>3 DEF Used
    <3> QED BY <2>1, <2>2, <3>1
  <2>5. \A r \in Sessions : SInv(r)'
    BY <1>1, <2>3, Untouched
  <2>6. Dialled'
    BY <2>4 DEF Dialled
  <2> QED BY <2>3, <2>5, <2>6 DEF IInv
<1>5. ASSUME NEW e \in Ends, Clean(e) PROVE IInv'
  <2>1. Types' /\ st' = st /\ \A s \in Sessions : SInv(s)'
    BY <1>1, <1>5, CleanKeeps
  <2>2. Used' = Used
    BY <2>1 DEF Used
  <2> QED BY <2>1, <2>2 DEF IInv, Dialled
<1>6. ASSUME NEW s \in Sessions, Accept(s) PROVE IInv'
  BY <1>1, <1>6, AcceptKeeps, OnlyKeeps
<1>7. ASSUME NEW s \in Sessions, Cut(s) PROVE IInv'
  BY <1>7, SameKeeps DEF Cut
<1>8. ASSUME NEW s \in Sessions, NEW e \in Ends, Task(s, e) \/ Reset(s, e) PROVE IInv'
  BY <1>8, TaskOnly
<1>9. ASSUME NEW s \in Sessions, NEW e \in Ends, NEW p \in Packets, Enqueue(s, e, p)
      PROVE  IInv'
  BY <1>1, <1>9, EnqueueKeeps, OnlyKeeps
<1> QED
  BY <1>2, <1>3, <1>4, <1>5, <1>6, <1>7, <1>8, <1>9 DEF Next, Dialler

(* The invariant holds at the start.                                        *)
LEMMA InitKeeps ==
  ASSUME Init
  PROVE  IInv
<1>1. <<>> \in Seq(Unit) /\ <<>> \in Seq(Item) /\ <<>> \in Seq(Packets) /\ "none" \in States
  BY DEF States
<1>2. Types
  BY <1>1 DEF Init, Types, PerEnd
<1>3. Dialled
  <2>1. Used = {}
    BY EndsAre DEF Used, Init, PerEnd
  <2>2. 0 \in Nat /\ 1 .. 0 = {}
    OBVIOUS
  <2> QED BY <2>1, <2>2 DEF Dialled
<1>4. ASSUME NEW s \in Sessions PROVE Setup(s)
  BY DEF Init, PerEnd, Setup, Early, Ends
<1>5. ASSUME NEW s \in Sessions, NEW e \in Ends PROVE Prefix(s, e) /\ Stream(s, e)
  <2>1. /\ queued[s][e] = <<>> /\ got[s][Other(e)] = <<>> /\ frame[s][Other(e)] = <<>>
        /\ wire[s][e] = <<>> /\ pending[s][e] = <<>> /\ outq[s][e] = <<>>
    BY OtherEnd DEF Init, PerEnd
  <2>2. Prefix(s, e)
    BY <2>1 DEF Prefix
  <2>3. Due(s, e) = <<>>
    BY <2>1, SubSeqEmpty DEF Due
  <2>4. Body(s, e) = <<>>
    BY <2>1 DEF Body
  <2>5. <<>> \o <<>> = <<>>
    BY <1>1, ConcatEmptySeq
  <2>6. Stream(s, e)
    BY <1>1, <2>1, <2>3, <2>4, <2>5, EncEmpty DEF Stream
  <2> QED BY <2>2, <2>6
<1> QED BY <1>2, <1>3, <1>4, <1>5 DEF IInv, SInv

(* What one end hands to its main loop is a prefix of what the other end    *)
(* was given to send in that session, for every mix of implementations,     *)
(* every packet length and length field, every buffer and socket size, and  *)
(* whatever fails (write_packet, read_packet, EncodeFrame, ReadFrame).      *)
THEOREM PacketsReceivedInOrder == Spec => []ReceivedIsPrefix
<1>1. Init => IInv
  BY InitKeeps
<1>2. IInv /\ [Next]_vars => IInv'
  BY NextKeeps
<1>3. IInv => ReceivedIsPrefix
  <2> SUFFICES ASSUME IInv, NEW s \in Sessions, NEW e \in Ends
               PROVE  /\ Len(got[s][e]) <= Len(queued[s][Other(e)])
                      /\ \A i \in 1 .. Len(got[s][e]) : got[s][e][i] = queued[s][Other(e)][i]
    BY DEF ReceivedIsPrefix
  <2>1. Other(e) \in Ends /\ Other(Other(e)) = e
    BY OtherEnd
  <2>2. Prefix(s, Other(e))
    BY <2>1 DEF IInv, SInv
  <2> QED BY <2>1, <2>2 DEF Prefix
<1> QED BY <1>1, <1>2, <1>3, PTL DEF Spec

-----------------------------------------------------------------------------
(* Nodes that share no key: neither end gets past its handshake, the        *)
(* listening end writes nothing, and the first thing that it will read is   *)
(* the handshake that it refuses.                                           *)
Strange(s) ==
  /\ \A e \in Ends : st[s][e] # "up" /\ got[s][e] = <<>>
  /\ s \notin reg["L"] /\ wire[s]["L"] = <<>>
  /\ ~ Over(s, "L") /\ wire[s]["I"] # <<>> => Head(wire[s]["I"]) = Hello(key)

Strangers == key \notin KeysL => \A s \in Sessions : Strange(s)

(* What can happen to a session of strangers: it ends, or it goes on        *)
(* without a word from the listening end.                                   *)
LEMMA StaysStrange ==
  ASSUME IInv, Next, NEW s \in Sessions, Strange(s), key \notin KeysL, key' = key
  PROVE  Strange(s)'
<1> DEFINE Still == /\ \A e \in Ends : st'[s][e] # "up" /\ got'[s][e] = <<>>
                    /\ s \notin reg'["L"] /\ wire'[s]["L"] = <<>>
                    /\ Over(s, "L")' \/ wire'[s]["I"] = <<>>
                         \/ Head(wire'[s]["I"]) = Hello(key)
<1> SUFFICES Still
  BY DEF Strange, Hello
<1>1. /\ Types /\ Setup(s) /\ \A e \in Ends : st[s][e] # "up" /\ got[s][e] = <<>>
      /\ s \notin reg["L"] /\ wire[s]["L"] = <<>> /\ pending[s]["L"] = <<>>
      /\ ~ Over(s, "L") /\ wire[s]["I"] # <<>> => Head(wire[s]["I"]) = Hello(key)
  BY EndsAre DEF IInv, SInv, Strange, Setup
<1>2. ASSUME st'[s] = st[s], wire'[s] = wire[s], got'[s] = got[s],
             reg'["L"] \subseteq reg["L"]
      PROVE  Still
  BY <1>1, <1>2 DEF Over
<1>3. ASSUME NEW r \in Sessions, NEW e \in Ends, Finish(r, e), UNCHANGED got PROVE Still
  <2>1. /\ st' = [st EXCEPT ![r][e] = "over"] /\ wire' = [wire EXCEPT ![r][Other(e)] = <<>>]
        /\ reg' = [reg EXCEPT ![e] = @ \ {r}] \/ reg' = reg
    BY <1>3 DEF Finish, Unregistered
  <2>2. s \notin reg'["L"]
    BY <1>1, <2>1, EndsAre DEF Types
  <2>3. \A x \in Ends : st'[s][x] \in {st[s][x], "over"} /\ wire'[s][x] \in {wire[s][x], <<>>}
    BY <1>1, <2>1, OtherEnd DEF Types
  <2>4. Over(s, "L") => Over(s, "L")'
    BY <2>3, EndsAre DEF Over
  <2> QED BY <1>1, <1>3, <2>2, <2>3, <2>4, EndsAre
<1>4. CASE BackoffEnds \/ ConnectFails
  BY <1>2, <1>4 DEF BackoffEnds, ConnectFails
<1>5. ASSUME NEW r \in Sessions, Connect(r) PROVE Still
  <2>1. /\ st' = [st EXCEPT ![r]["I"] = "hello"] /\ wire' = [wire EXCEPT ![r]["I"] = <<Hello(key)>>]
        /\ reg'["L"] = reg["L"] /\ got' = got
    BY <1>1, <1>5, EndsAre DEF Connect, Types
  <2>2. CASE r = s
    <3>1. /\ st'[s]["I"] = "hello" /\ st'[s]["L"] = st[s]["L"]
          /\ wire'[s]["I"] = <<Hello(key)>> /\ wire'[s]["L"] = wire[s]["L"]
      BY <1>1, <2>1, <2>2, EndsAre DEF Types
    <3>2. Head(wire'[s]["I"]) = Hello(key)
      BY <3>1
    <3> QED BY <1>1, <2>1, <3>1, <3>2 DEF Ends
  <2>3. CASE r # s
    <3>1. st'[s] = st[s] /\ wire'[s] = wire[s]
      BY <1>1, <2>1, <2>3 DEF Types
    <3> QED BY <1>2, <2>1, <3>1
  <2> QED BY <2>2, <2>3
<1>6. ASSUME NEW e \in Ends, Clean(e) PROVE Still
  <2>1. /\ reg' = [reg EXCEPT ![e] = {x \in reg[e] : ~ Over(x, e)}]
        /\ st' = st /\ wire' = wire /\ got' = got
    BY <1>1, <1>6 DEF Clean, Types
  <2>2. reg'["L"] \subseteq reg["L"]
    BY <1>1, <2>1, EndsAre DEF Types
  <2> QED BY <1>2, <2>1, <2>2
<1>7. ASSUME NEW r \in Sessions, Accept(r) PROVE Still
  <2>1. /\ st[r]["L"] = "none" /\ st' = [st EXCEPT ![r]["L"] = "hello"]
        /\ wire' = wire /\ got' = got /\ reg' = reg
    BY <1>7 DEF Accept
  <2>2. \A x \in Ends : st'[s][x] # "up"
    BY <1>1, <2>1 DEF Types, Ends
  <2>3. Over(s, "L") => Over(s, "L")'
    BY <1>1, <2>1, EndsAre DEF Over, Types
  <2> QED BY <1>1, <2>1, <2>2, <2>3
<1>8. ASSUME NEW r \in Sessions, Cut(r) PROVE Still
  BY <1>2, <1>8 DEF Cut
<1>9. ASSUME NEW r \in Sessions, NEW e \in Ends, ReadHello(r, e) PROVE Still
  <2>1. CASE ~ KeyMatches(e, Head(wire[r][Other(e)]).key)
    BY <1>3, <1>9, <2>1 DEF ReadHello
  <2>2. CASE KeyMatches(e, Head(wire[r][Other(e)]).key) /\ r # s
    <3>1. Only(r)
      BY <1>9, <2>2, ReadHelloKeeps DEF IInv
    <3>2. SameSession(s)
      BY <2>2, <3>1 DEF Only
    <3> QED BY <1>1, <3>2, EndsAre DEF SameSession, Over
  <2>3. CASE KeyMatches(e, Head(wire[r][Other(e)]).key) /\ r = s
    <3>1. wire[s][Other(e)] # <<>> /\ st[s][e] = "hello"
      BY <1>9, <2>3 DEF ReadHello
    <3>2. e = "L" /\ Other(e) = "I"
      BY <1>1, <3>1, EndsAre DEF Ends
    <3>3. Head(wire[s]["I"]) = Hello(key)
      BY <1>1, <3>1, <3>2 DEF Over
    <3>4. Hello(key).key \in KeysL
      BY <2>3, <3>2, <3>3 DEF KeyMatches
    <3> QED BY <3>4 DEF Hello
  <2> QED BY <2>1, <2>2, <2>3
<1>10. ASSUME NEW r \in Sessions, NEW e \in Ends, Encode(r, e) PROVE Still
  <2>1. CASE TooLong(e, outq[r][e], BatchOf(e, outq[r][e]))
    BY <1>3, <1>10, <2>1 DEF Encode
  <2>2. CASE ~ TooLong(e, outq[r][e], BatchOf(e, outq[r][e]))
    BY <1>2, <1>10, <2>2 DEF Encode
  <2> QED BY <2>1, <2>2
<1>11. ASSUME NEW r \in Sessions, NEW e \in Ends, Write(r, e) PROVE Still
  <2>1. Only(r)
    BY <1>11, WriteKeeps DEF IInv
  <2>2. CASE r # s
    <3>1. SameSession(s)
      BY <2>1, <2>2 DEF Only
    <3> QED BY <1>1, <3>1, EndsAre DEF SameSession, Over
  <2>3. CASE r = s
    <3>1. /\ pending[s][e] # <<>> /\ st' = st /\ reg' = reg /\ got' = got
          /\ wire' = wire \/ wire' = [wire EXCEPT ![s][e] = Append(@, Head(pending[s][e]))]
      BY <1>11, <2>3 DEF Write
    <3>2. e = "I" /\ s \in reg["I"] /\ Alive(s, "I")
      BY <1>1, <3>1 DEF Setup, Ends
    <3>3. CASE wire' = wire
      BY <1>1, <3>1, <3>3 DEF Over
    <3>4. CASE wire' = [wire EXCEPT ![s][e] = Append(@, Head(pending[s][e]))]
      <4> DEFINE w == wire[s]["I"]
                 u == Head(pending[s]["I"])
      <4>1. /\ wire'[s]["L"] = wire[s]["L"] /\ wire'[s]["I"] = Append(w, u)
        BY <1>1, <3>2, <3>4, EndsAre DEF Types
      <4>2. CASE Over(s, "L")
        BY <1>1, <3>1, <4>1, <4>2 DEF Over
      <4>3. CASE ~ Over(s, "L")
        <5>1. Early(s, "L")
          BY <1>1, <4>3, EndsAre DEF Over, Early, Types, States
        <5>2. w # <<>>
          BY <1>1, <3>2, <5>1, EndsAre DEF Setup
        <5>3. w \in Seq(Unit)
          BY <1>1, EndsAre DEF Types
        <5>4. Head(Append(w, u)) = Head(w)
          BY <5>2, <5>3, HeadTailAppend
        <5>5. Head(wire'[s]["I"]) = Hello(key)
          BY <1>1, <4>1, <4>3, <5>2, <5>4
        <5> QED BY <1>1, <3>1, <4>1, <5>5
      <4> QED BY <4>2, <4>3
    <3> QED BY <3>1, <3>3, <3>4
  <2> QED BY <2>2, <2>3
<1>12. ASSUME NEW r \in Sessions, NEW e \in Ends, Read(r, e) PROVE Still
  <2>1. CASE r = s
    BY <1>1, <1>12, <2>1 DEF Read
  <2>2. CASE r # s /\ ~ Finish(r, e)
    <3>1. Only(r)
      BY <1>12, <2>2, ReadKeeps DEF IInv
    <3>2. SameSession(s)
      BY <2>2, <3>1 DEF Only
    <3> QED BY <1>1, <3>2, EndsAre DEF SameSession, Over
  <2>3. CASE r # s /\ Finish(r, e)
    <3>1. st[r][e] = "up" /\ st'[r][e] = "over"
      BY <1>1, <1>12, <2>3 DEF Read, Finish, Types
    <3>2. UNCHANGED got
      BY <1>12, <3>1 DEF Read
    <3> QED BY <1>3, <2>3, <3>2
  <2> QED BY <2>1, <2>2, <2>3
<1>13. ASSUME NEW r \in Sessions, NEW e \in Ends,
              ReadEof(r, e) \/ ReadTimesOut(r, e) \/ Reset(r, e)
       PROVE  Still
  BY <1>3, <1>13 DEF ReadEof, ReadTimesOut, Reset
<1>14. ASSUME NEW r \in Sessions, NEW e \in Ends, NEW p \in Packets, Enqueue(r, e, p)
       PROVE  Still
  BY <1>2, <1>14 DEF Enqueue
<1> HIDE DEF Still
<1> QED
  BY <1>4, <1>5, <1>6, <1>7, <1>8, <1>9, <1>10, <1>11, <1>12, <1>13, <1>14
  DEF Next, Dialler, Task

(* Nodes that do not share a key exchange no packet, in either direction,   *)
(* although a Rust node sends on an outgoing session before it has seen the *)
(* other end's handshake (legacy_tcp.rs, LegacyTcp.cs).                     *)
THEOREM StrangersStayApart == Spec => []StrangersExchangeNothing
<1>1. Init => IInv
  BY InitKeeps
<1>2. IInv /\ [Next]_vars => IInv'
  BY NextKeeps
<1>3. Init => Strangers
  BY EndsAre DEF Init, Strangers, Strange, PerEnd
<1>4. IInv /\ Strangers /\ [Next]_vars => Strangers'
  <2> SUFFICES ASSUME IInv, Strangers, [Next]_vars PROVE Strangers'
    OBVIOUS
  <2>1. key' = key
    <3>1. ASSUME Dialler \/ ConnectFails PROVE config' = config
      BY <3>1 DEF Dialler, BackoffEnds, Connect, ConnectFails
    <3>2. ASSUME NEW e \in Ends, Clean(e) PROVE config' = config
      BY <3>2 DEF Clean
    <3>3. ASSUME NEW s \in Sessions, NEW e \in Ends, Task(s, e) PROVE config' = config
      BY <3>3 DEF Task, ReadHello, Encode, Write, Read, ReadEof, ReadTimesOut
    <3>4. ASSUME NEW s \in Sessions, NEW e \in Ends,
                 Reset(s, e) \/ \E p \in Packets : Enqueue(s, e, p)
          PROVE  config' = config
      BY <3>4 DEF Reset, Enqueue
    <3>5. ASSUME NEW s \in Sessions, Accept(s) \/ Cut(s) PROVE config' = config
      BY <3>5 DEF Accept, Cut
    <3>6. config' = config
      BY <3>1, <3>2, <3>3, <3>4, <3>5, Zenon DEF Next, vars
    <3> QED BY <3>6 DEF key
  <2>2. CASE Next
    BY <2>1, <2>2, StaysStrange DEF Strangers
  <2>3. CASE UNCHANGED vars
    BY <2>1, <2>3 DEF vars, Strangers, Strange, Over, Hello
  <2> QED BY <2>2, <2>3
<1>5. Strangers => StrangersExchangeNothing
  BY DEF Strangers, Strange, StrangersExchangeNothing
<1> QED BY <1>1, <1>2, <1>3, <1>4, <1>5, PTL DEF Spec

-----------------------------------------------------------------------------
(* The packets in a stretch of units                                        *)

(* A unit ends at most one packet.                                          *)
LEMMA EndsInType ==
  ASSUME NEW u \in Unit
  PROVE  EndsIn(u) \in Seq(Packets)
<1>1. u.unit = "mac" => u.pkt \in Packets
  BY DEF Unit
<1>2. CASE u.unit = "mac"
  BY <1>1, <1>2 DEF EndsIn
<1>3. CASE u.unit # "mac"
  BY <1>3 DEF EndsIn
<1> QED BY <1>2, <1>3

(* What each unit of u contributes.                                         *)
Endings(u) == [i \in 1 .. Len(u) |-> EndsIn(u[i])]

(* PacketsOf joins them.                                                    *)
LEMMA PacketsOfIs ==
  ASSUME NEW u \in Seq(Unit)
  PROVE  /\ \A i \in 1 .. Len(u) : Endings(u)[i] \in Seq(Packets) /\ Endings(u)[i] = EndsIn(u[i])
         /\ \E f : IsJoin(f, Packets, Endings(u), Len(u)) /\ PacketsOf(u) = f[Len(u)]
<1> DEFINE k == Len(u)
           D(of) == [i \in 0 .. k |-> IF i = 0 THEN <<>> ELSE of[i - 1] \o EndsIn(u[i])]
           g == CHOOSE of : of = D(of)
<1>1. k \in Nat /\ \A i \in 1 .. k : Endings(u)[i] = EndsIn(u[i]) /\ Endings(u)[i] \in Seq(Packets)
  <2>1. \A i \in 1 .. k : u[i] \in Unit
    OBVIOUS
  <2> QED BY <2>1, EndsInType DEF Endings
<1>2. PICK f : IsJoin(f, Packets, Endings(u), k)
  BY <1>1, JoinExists
<1>3. f = D(f)
  <2>1. /\ f = [i \in 0 .. k |-> f[i]] /\ f[0] = <<>>
        /\ \A i \in 1 .. k : f[i] = f[i - 1] \o EndsIn(u[i])
    BY <1>1, <1>2 DEF IsJoin
  <2>2. \A i \in 0 .. k : i # 0 => i \in 1 .. k
    OBVIOUS
  <2>3. \A i \in 0 .. k : f[i] = D(f)[i]
    BY <2>1, <2>2
  <2> QED BY <2>1, <2>3
<1>4. g = D(g)
  <2> HIDE DEF D
  <2> QED BY <1>3
<1>5. PacketsOf(u) = g[k]
  BY DEF PacketsOf
<1> HIDE DEF g
<1>6. /\ g = [i \in 0 .. k |-> g[i]] /\ g[0] = <<>>
      /\ \A i \in 1 .. k : g[i] = g[i - 1] \o Endings(u)[i]
  BY <1>1, <1>4
<1>7. IsJoin(g, Packets, Endings(u), k)
  <2> HIDE DEF k
  <2> QED BY <1>1, <1>6, JoinTyped
<1> QED BY <1>1, <1>5, <1>7

(* No units, no packets.                                                    *)
LEMMA PacketsOfNothing == PacketsOf(<<>>) = <<>>
<1>1. <<>> \in Seq(Unit) /\ Len(<<>>) = 0
  OBVIOUS
<1>2. PICK f : IsJoin(f, Packets, Endings(<<>>), 0) /\ PacketsOf(<<>>) = f[0]
  BY <1>1, PacketsOfIs
<1> QED BY <1>2 DEF IsJoin

(* One unit more.                                                           *)
LEMMA PacketsOfAppend ==
  ASSUME NEW u \in Seq(Unit), NEW x \in Unit
  PROVE  /\ PacketsOf(u) \in Seq(Packets)
         /\ PacketsOf(Append(u, x)) = PacketsOf(u) \o EndsIn(x)
<1> DEFINE v == Append(u, x)
           k == Len(u)
<1>1. /\ v \in Seq(Unit) /\ Len(v) = k + 1 /\ v[k + 1] = x /\ k \in Nat
      /\ \A i \in 1 .. k : v[i] = u[i]
  BY AppendProperties
<1>2. PICK f : IsJoin(f, Packets, Endings(u), k) /\ PacketsOf(u) = f[k]
  BY PacketsOfIs
<1> HIDE DEF v, k
<1>3. PICK g : IsJoin(g, Packets, Endings(v), Len(v)) /\ PacketsOf(v) = g[Len(v)]
  BY <1>1, PacketsOfIs
<1>4. \A i \in 1 .. k : Endings(u)[i] = Endings(v)[i]
  <2>1. ASSUME NEW i \in 1 .. k PROVE Endings(u)[i] = Endings(v)[i]
    <3>1. i \in 1 .. Len(u) /\ i \in 1 .. Len(v)
      BY <1>1 DEF k
    <3> QED BY <1>1, <3>1 DEF Endings
  <2> QED BY <2>1
<1>5. f[k] = g[k]
  <2>1. k <= k + 1 /\ k + 1 \in Nat
    BY <1>1
  <2> QED BY <1>1, <1>2, <1>3, <1>4, <2>1, JoinUnique
<1>6. g[k + 1] = g[k] \o Endings(v)[k + 1]
  <2>1. k + 1 \in 1 .. Len(v) /\ (k + 1) - 1 = k
    BY <1>1
  <2>2. g[k + 1] = g[(k + 1) - 1] \o Endings(v)[k + 1]
    BY <1>3, <2>1 DEF IsJoin
  <2> QED BY <2>1, <2>2
<1>7. Endings(v)[k + 1] = EndsIn(x)
  BY <1>1 DEF Endings
<1>8. f[k] \in Seq(Packets)
  BY <1>1, <1>2 DEF IsJoin
<1> QED BY <1>1, <1>2, <1>3, <1>5, <1>6, <1>7, <1>8 DEF v

(* The packets in a stretch of units are packets.                           *)
LEMMA PacketsOfType ==
  ASSUME NEW u \in Seq(Unit)
  PROVE  PacketsOf(u) \in Seq(Packets)
<1>1. PICK f : IsJoin(f, Packets, Endings(u), Len(u)) /\ PacketsOf(u) = f[Len(u)]
  BY PacketsOfIs
<1>2. Len(u) \in 0 .. Len(u)
  OBVIOUS
<1> QED BY <1>1, <1>2 DEF IsJoin

(* A sequence without its last element.                                     *)
LEMMA LastApart ==
  ASSUME NEW T, NEW v \in Seq(T), v # <<>>
  PROVE  \E w \in Seq(T), x \in T : v = Append(w, x) /\ Len(v) = Len(w) + 1
<1>1. PICK w \in Seq(T), x \in T : v = Append(w, x)
  BY SequenceEmptyOrAppend
<1>2. Len(v) = Len(w) + 1
  BY <1>1, AppendProperties
<1> QED BY <1>1, <1>2

(* Concatenating packets is associative.                                    *)
LEMMA PacketsAssociative ==
  ASSUME NEW a \in Seq(Packets), NEW b \in Seq(Packets), NEW c \in Seq(Packets)
  PROVE  (a \o b) \o c = a \o (b \o c)
BY ConcatAssociative

(* Packets of one stretch, then of the other.                               *)
LEMMA PacketsOfConcat ==
  ASSUME NEW u \in Seq(Unit), NEW v \in Seq(Unit)
  PROVE  PacketsOf(u \o v) = PacketsOf(u) \o PacketsOf(v)
<1> DEFINE P(w) == PacketsOf(u \o w) = PacketsOf(u) \o PacketsOf(w)
           n == Len(v)
           W == {k \in 0 .. n : \A w \in Seq(Unit) : Len(w) = k => P(w)} \cup {n + 1}
<1>1. 0 \in W
  <2>1. ASSUME NEW w \in Seq(Unit), Len(w) = 0 PROVE P(w)
    <3>1. w = <<>>
      BY <2>1
    <3>2. u \o <<>> = u /\ PacketsOf(u) \o <<>> = PacketsOf(u)
      BY PacketsOfType, ConcatEmptySeq
    <3> QED BY <3>1, <3>2, PacketsOfNothing
  <2> HIDE DEF P
  <2> QED BY <2>1
<1>2. ASSUME NEW k \in 0 .. n, k \in W PROVE k + 1 \in W
  <2>1. CASE k = n
    BY <2>1
  <2>2. CASE k # n
    <3>1. ASSUME NEW w \in Seq(Unit), Len(w) = k + 1 PROVE P(w)
      <4>1. w # <<>>
        BY <3>1
      <4>2. PICK t \in Seq(Unit), x \in Unit : w = Append(t, x) /\ Len(w) = Len(t) + 1
        BY <4>1, LastApart
      <4>3. Len(t) = k
        BY <3>1, <4>2
      <4>4. PacketsOf(u \o t) = PacketsOf(u) \o PacketsOf(t)
        BY <1>2, <2>2, <4>3
      <4>5. u \o t \in Seq(Unit) /\ <<x>> \in Seq(Unit)
        BY ConcatProperties
      <4>6. u \o w = Append(u \o t, x)
        <5>1. w = t \o <<x>> /\ Append(u \o t, x) = (u \o t) \o <<x>>
          BY <4>2, <4>5, AppendIsConcat
        <5> QED BY <4>5, <5>1, Associative
      <4>7. PacketsOf(u \o w) = PacketsOf(u \o t) \o EndsIn(x)
        BY <4>5, <4>6, PacketsOfAppend
      <4>8. PacketsOf(w) = PacketsOf(t) \o EndsIn(x)
        BY <4>2, PacketsOfAppend
      <4>9. (PacketsOf(u) \o PacketsOf(t)) \o EndsIn(x) = PacketsOf(u) \o (PacketsOf(t) \o EndsIn(x))
        <5>1. /\ PacketsOf(u) \in Seq(Packets) /\ PacketsOf(t) \in Seq(Packets)
              /\ EndsIn(x) \in Seq(Packets)
          BY PacketsOfType, EndsInType
        <5> QED BY <5>1, PacketsAssociative
      <4> QED BY <4>4, <4>7, <4>8, <4>9
    <3>2. k + 1 \in 0 .. n
      BY <2>2
    <3> HIDE DEF P
    <3> QED BY <3>1, <3>2
  <2> QED BY <2>1, <2>2
<1>3. n \in W
  <2>1. n \in Nat /\ n \in 0 .. n
    OBVIOUS
  <2> HIDE DEF W, n
  <2> QED BY <1>1, <1>2, <2>1, UpTo
<1>4. P(v)
  <2> HIDE DEF P
  <2> QED BY <1>3
<1> QED BY <1>4

(* One unit, and the units after it.                                        *)
LEMMA PacketsOfHead ==
  ASSUME NEW u \in Seq(Unit), u # <<>>
  PROVE  /\ Tail(u) \in Seq(Unit)
         /\ Head(u).unit # "mac" => PacketsOf(u) = PacketsOf(Tail(u))
<1>1. /\ Head(u) \in Unit /\ Tail(u) \in Seq(Unit)
      /\ Append(<<>>, Head(u)) \o (Tail(u) \o <<>>) = <<>> \o (u \o <<>>)
  BY MoveUnit
<1>2. /\ Tail(u) \o <<>> = Tail(u) /\ u \o <<>> = u /\ <<>> \o u = u
      /\ <<>> \in Seq(Unit) /\ Append(<<>>, Head(u)) \in Seq(Unit)
  BY <1>1, ConcatEmptySeq
<1>3. PacketsOf(Append(<<>>, Head(u)) \o Tail(u)) = PacketsOf(Append(<<>>, Head(u))) \o PacketsOf(Tail(u))
  BY <1>1, <1>2, PacketsOfConcat
<1>4. PacketsOf(Append(<<>>, Head(u))) = <<>> \o EndsIn(Head(u))
  BY <1>1, <1>2, PacketsOfAppend, PacketsOfNothing
<1>5. Head(u).unit # "mac" => EndsIn(Head(u)) = <<>>
  BY DEF EndsIn
<1>6. <<>> \o <<>> = <<>> /\ <<>> \o PacketsOf(Tail(u)) = PacketsOf(Tail(u))
  BY <1>1, PacketsOfType, ConcatEmptySeq
<1> QED BY <1>1, <1>2, <1>3, <1>4, <1>5, <1>6

(* A stretch in which no packet ends.                                       *)
LEMMA PacketsOfInside ==
  ASSUME NEW u \in Seq(Unit), \A i \in 1 .. Len(u) : u[i].unit # "mac"
  PROVE  PacketsOf(u) = <<>>
<1>1. PICK f : IsJoin(f, Packets, Endings(u), Len(u)) /\ PacketsOf(u) = f[Len(u)]
  BY PacketsOfIs
<1> DEFINE n == Len(u)
           W == {i \in 0 .. n : f[i] = <<>>} \cup {n + 1}
<1>2. n \in Nat /\ \A i \in 1 .. n : f[i] = f[i - 1] \o <<>>
  <2>1. \A i \in 1 .. n : Endings(u)[i] = <<>>
    BY DEF Endings, EndsIn
  <2>2. \A i \in 1 .. n : f[i] = f[i - 1] \o Endings(u)[i]
    BY <1>1, Zenon DEF IsJoin
  <2>3. \A i \in 1 .. n : f[i] = f[i - 1] \o <<>>
    BY <2>1, <2>2, Zenon
  <2> QED BY <2>3
<1>3. f[0] = <<>>
  BY <1>1 DEF IsJoin
<1> HIDE DEF n
<1>4. ASSUME NEW i \in 0 .. n, i \in W PROVE i + 1 \in W
  <2>1. CASE i = n
    BY <2>1
  <2>2. CASE i # n
    <3>1. PICK j \in 1 .. n : j = i + 1
      BY <1>2, <2>2
    <3>2. j - 1 = i /\ f[i] = <<>>
      BY <1>2, <1>4, <2>2, <3>1
    <3>3. f[j] = <<>>
      BY <1>2, <3>2
    <3> QED BY <3>1, <3>3
  <2> QED BY <2>1, <2>2
<1>5. 0 \in W
  BY <1>2, <1>3
<1>6. n \in W
  <2>1. n \in 0 .. n
    BY <1>2
  <2> HIDE DEF W
  <2> QED BY <1>2, <1>4, <1>5, <2>1, UpTo
<1>7. f[n] = <<>>
  BY <1>2, <1>6
<1> QED BY <1>1, <1>7 DEF n

(* A frame brings its packet, and nothing else.                             *)
LEMMA PacketsOfFrame ==
  ASSUME NEW p \in Packets
  PROVE  PacketsOf(FrameOf(p)) = <<p>>
<1> DEFINE f == FrameOf(p)
           z == Size[p]
<1>1. f \in Seq(Unit) /\ Len(f) = z + 2 /\ z \in Nat /\ f # <<>>
  <2>1. f \in Seq(Unit) /\ Len(f) = z + 2 /\ z \in Nat
    BY FrameShape
  <2> HIDE DEF f, z
  <2> QED BY <2>1
<1>2. f[1].unit = "len" /\ f[z + 2] = [unit |-> "mac", pkt |-> p]
  <2>1. f[1] = [unit |-> "len", n |-> z % LenMod] /\ f[z + 2] = [unit |-> "mac", pkt |-> p]
    BY FrameShape
  <2> HIDE DEF f, z
  <2> QED BY <2>1
<1>3. \A i \in 2 .. z + 1 : f[i].unit = "byte"
  <2>1. \A i \in 2 .. z + 1 : f[i] = [unit |-> "byte", pkt |-> p, i |-> i - 1]
    BY FrameShape
  <2> HIDE DEF f, z
  <2>2. ASSUME NEW i \in 2 .. z + 1 PROVE f[i].unit = "byte"
    <3>1. f[i] = [unit |-> "byte", pkt |-> p, i |-> i - 1]
      BY <2>1
    <3> QED BY <3>1
  <2> QED BY <2>2
<1> HIDE DEF f, z
<1>4. PICK w \in Seq(Unit), x \in Unit : f = Append(w, x) /\ Len(f) = Len(w) + 1
  BY <1>1, LastApart
<1>5. Len(w) = z + 1 /\ x = f[z + 2] /\ \A i \in 1 .. Len(w) : w[i] = f[i]
  BY <1>1, <1>4, AppendProperties
<1>6. \A i \in 1 .. Len(w) : w[i].unit # "mac"
  <2>1. \A i \in 1 .. z + 1 : i = 1 \/ i \in 2 .. z + 1
    BY <1>1
  <2>2. ASSUME NEW i \in 1 .. Len(w) PROVE w[i].unit # "mac"
    <3>1. w[i] = f[i] /\ (i = 1 \/ i \in 2 .. z + 1)
      BY <1>5, <2>1
    <3>2. f[i].unit = "len" \/ f[i].unit = "byte"
      BY <1>2, <1>3, <3>1
    <3> QED BY <3>1, <3>2
  <2> QED BY <2>2
<1>7. PacketsOf(w) = <<>>
  BY <1>6, PacketsOfInside
<1>8. EndsIn(x) = <<p>>
  BY <1>2, <1>5 DEF EndsIn
<1>9. PacketsOf(f) = <<>> \o <<p>>
  BY <1>4, <1>7, <1>8, PacketsOfAppend
<1> QED BY <1>9 DEF f

-----------------------------------------------------------------------------
(* What is in flight                                                        *)

(* Units in the order in which they will be read: of the frame being read,  *)
(* on the wire, being written, still to be encoded.                         *)
Way(f, w, p, c) == f \o (w \o (p \o c))

(* What is on the way are units, and they bring packets.                    *)
LEMMA WayType ==
  ASSUME NEW f \in Seq(Unit), NEW w \in Seq(Unit), NEW p \in Seq(Unit), NEW c \in Seq(Unit)
  PROVE  Way(f, w, p, c) \in Seq(Unit) /\ PacketsOf(Way(f, w, p, c)) \in Seq(Packets)
<1>1. p \o c \in Seq(Unit)
  BY ConcatProperties
<1>2. w \o (p \o c) \in Seq(Unit)
  BY <1>1, ConcatProperties
<1>3. f \o (w \o (p \o c)) \in Seq(Unit)
  BY <1>2, ConcatProperties
<1> QED BY <1>3, PacketsOfType DEF Way

(* The same units, joined from the left.                                    *)
FromTheLeft(f, w, p, c) == ((f \o w) \o p) \o c

(* Joining them from the left gives the same.                               *)
LEMMA WayFromTheLeft ==
  ASSUME NEW f \in Seq(Unit), NEW w \in Seq(Unit), NEW p \in Seq(Unit), NEW c \in Seq(Unit)
  PROVE  Way(f, w, p, c) = FromTheLeft(f, w, p, c)
<1>1. f \o w \in Seq(Unit)
  BY ConcatProperties
<1>2. p \o c \in Seq(Unit)
  BY ConcatProperties
<1>3. ASSUME NEW x \in Seq(Unit)
      PROVE  (x \o p) \o c = x \o (p \o c)
  BY Associative, Zenon
<1>4. ASSUME NEW x \in Seq(Unit)
      PROVE  (f \o w) \o x = f \o (w \o x)
  BY Associative, Zenon
<1>5. ((f \o w) \o p) \o c = (f \o w) \o (p \o c)
  BY <1>1, <1>3, Zenon
<1>6. (f \o w) \o (p \o c) = f \o (w \o (p \o c))
  BY <1>2, <1>4, Zenon
<1> QED BY <1>5, <1>6, Zenon DEF Way, FromTheLeft

(* Only the packets on the wire matter, not its other units.                *)
LEMMA WaySameWire ==
  ASSUME NEW f \in Seq(Unit), NEW w \in Seq(Unit), NEW v \in Seq(Unit), NEW p \in Seq(Unit),
         NEW c \in Seq(Unit), PacketsOf(w) = PacketsOf(v)
  PROVE  PacketsOf(Way(f, w, p, c)) = PacketsOf(Way(f, v, p, c))
<1> DEFINE r == p \o c
<1>1. r \in Seq(Unit)
  BY ConcatProperties
<1> HIDE DEF r
<1>2. w \o r \in Seq(Unit) /\ v \o r \in Seq(Unit)
  BY <1>1, ConcatProperties
<1>3. PacketsOf(w \o r) = PacketsOf(w) \o PacketsOf(r) /\ PacketsOf(v \o r) = PacketsOf(v) \o PacketsOf(r)
  BY <1>1, PacketsOfConcat
<1>4. /\ PacketsOf(f \o (w \o r)) = PacketsOf(f) \o PacketsOf(w \o r)
      /\ PacketsOf(f \o (v \o r)) = PacketsOf(f) \o PacketsOf(v \o r)
  BY <1>2, PacketsOfConcat
<1>5. PacketsOf(f \o (w \o r)) = PacketsOf(f \o (v \o r))
  BY <1>3, <1>4
<1> QED BY <1>5 DEF Way, r

(* Without what was still to be written, a first part of the packets is     *)
(* left.                                                                    *)
LEMMA WayCut ==
  ASSUME NEW f \in Seq(Unit), NEW w \in Seq(Unit), NEW p \in Seq(Unit), NEW c \in Seq(Unit)
  PROVE  \E k \in 0 .. Len(PacketsOf(Way(f, w, p, c))) :
           PacketsOf(Way(f, w, <<>>, <<>>)) = SubSeq(PacketsOf(Way(f, w, p, c)), 1, k)
<1> DEFINE r == p \o c
           t == f \o w
<1>1. r \in Seq(Unit) /\ t \in Seq(Unit)
  BY ConcatProperties
<1>2. f \o (w \o r) = t \o r
  BY <1>1, Associative
<1>3. <<>> \o <<>> = <<>> /\ w \o <<>> = w
  BY ConcatEmptySeq
<1>4. Way(f, w, <<>>, <<>>) = t /\ Way(f, w, p, c) = t \o r
  BY <1>2, <1>3 DEF Way
<1> HIDE DEF t, r
<1> DEFINE a == PacketsOf(t)
           b == PacketsOf(r)
<1>5. PacketsOf(t \o r) = a \o b
  BY <1>1, PacketsOfConcat
<1>6. a \in Seq(Packets) /\ b \in Seq(Packets)
  BY <1>1, PacketsOfType
<1> HIDE DEF a, b
<1>7. Len(a) \in 0 .. Len(a \o b) /\ a = SubSeq(a \o b, 1, Len(a))
  BY <1>6, SubSeqOfConcat1, SubSeqFull, ConcatProperties
<1>8. PacketsOf(Way(f, w, <<>>, <<>>)) = a /\ PacketsOf(Way(f, w, p, c)) = a \o b
  BY <1>4, <1>5 DEF a
<1> QED BY <1>7, <1>8

(* One item more to encode, and one packet more in flight.                  *)
Then(c, x) == c \o UnitsOf(x)
Longer(q, x) == Append(q, x)

(* A packet given to the sender comes after all the others.                 *)
LEMMA WayGrows ==
  ASSUME NEW f \in Seq(Unit), NEW w \in Seq(Unit), NEW p \in Seq(Unit), NEW c \in Seq(Unit),
         NEW x \in Packets
  PROVE  PacketsOf(Way(f, w, p, Then(c, x))) = Longer(PacketsOf(Way(f, w, p, c)), x)
<1> DEFINE u == FrameOf(x)
<1>1. u \in Seq(Unit)
  BY FrameShape
<1> HIDE DEF u
<1>2. p \o c \in Seq(Unit) /\ p \o (c \o u) = (p \o c) \o u
  <2>1. p \o c \in Seq(Unit)
    BY ConcatProperties
  <2>2. (p \o c) \o u = p \o (c \o u)
    BY <1>1, Associative
  <2> QED BY <2>1, <2>2
<1> DEFINE r == p \o c
<1>3. r \in Seq(Unit)
  BY <1>2
<1> HIDE DEF r
<1>4. w \o r \in Seq(Unit) /\ w \o (r \o u) = (w \o r) \o u
  <2>1. w \o r \in Seq(Unit)
    BY <1>3, ConcatProperties
  <2>2. (w \o r) \o u = w \o (r \o u)
    BY <1>1, <1>3, Associative
  <2> QED BY <2>1, <2>2
<1> DEFINE q == w \o r
<1>5. q \in Seq(Unit)
  BY <1>4
<1> HIDE DEF q
<1>6. f \o q \in Seq(Unit) /\ f \o (q \o u) = (f \o q) \o u
  <2>1. f \o q \in Seq(Unit)
    BY <1>5, ConcatProperties
  <2>2. (f \o q) \o u = f \o (q \o u)
    BY <1>1, <1>5, Associative
  <2> QED BY <2>1, <2>2
<1>7. Way(f, w, p, Then(c, x)) = (f \o q) \o u
  <2>1. Then(c, x) = c \o u
    BY LinkAssumption DEF Then, UnitsOf, u
  <2>2. p \o Then(c, x) = r \o u
    BY <1>2, <2>1 DEF r
  <2> QED BY <1>4, <1>6, <2>2 DEF Way, q
<1>8. Way(f, w, p, c) = f \o q
  BY DEF Way, q, r
<1>9. PacketsOf((f \o q) \o u) = PacketsOf(f \o q) \o PacketsOf(u)
  BY <1>1, <1>6, PacketsOfConcat
<1>10. PacketsOf(u) = <<x>>
  BY PacketsOfFrame DEF u
<1>11. PacketsOf(f \o q) \o <<x>> = Append(PacketsOf(f \o q), x)
  BY <1>6, PacketsOfType, AppendIsConcat
<1> QED BY <1>7, <1>8, <1>9, <1>10, <1>11 DEF Longer

(* When a frame has been read, its packet was the first on the way.         *)
LEMMA WayTaken ==
  ASSUME NEW x \in Packets, NEW w \in Seq(Unit), NEW p \in Seq(Unit), NEW c \in Seq(Unit)
  PROVE  /\ PacketsOf(Way(FrameOf(x), w, p, c)) # <<>>
         /\ PacketsOf(Way(<<>>, w, p, c)) = Tail(PacketsOf(Way(FrameOf(x), w, p, c)))
<1> DEFINE r == w \o (p \o c)
           u == FrameOf(x)
           b == PacketsOf(r)
<1>1. r \in Seq(Unit) /\ u \in Seq(Unit)
  <2>1. p \o c \in Seq(Unit)
    BY ConcatProperties
  <2> QED BY <2>1, ConcatProperties, FrameShape
<1>2. Way(u, w, p, c) = u \o r /\ Way(<<>>, w, p, c) = <<>> \o r
  BY DEF Way
<1>3. PacketsOf(u) = <<x>>
  BY PacketsOfFrame
<1> HIDE DEF r, u
<1>4. PacketsOf(u \o r) = <<x>> \o b /\ <<>> \o r = r
  BY <1>1, <1>3, PacketsOfConcat, ConcatEmptySeq
<1>5. b \in Seq(Packets)
  BY <1>1, PacketsOfType
<1> HIDE DEF b
<1>6. <<x>> \o b # <<>> /\ Tail(<<x>> \o b) = b
  BY <1>5
<1> QED BY <1>2, <1>4, <1>6 DEF u, b

(* A unit is read.                                                          *)
LEMMA WayRead ==
  ASSUME NEW f \in Seq(Unit), NEW w \in Seq(Unit), NEW p \in Seq(Unit), NEW c \in Seq(Unit),
         w # <<>>
  PROVE  Way(Append(f, Head(w)), Tail(w), p, c) = Way(f, w, p, c)
<1> DEFINE r == p \o c
<1>1. r \in Seq(Unit)
  BY ConcatProperties
<1> HIDE DEF r
<1>2. Append(f, Head(w)) \o (Tail(w) \o r) = f \o (w \o r)
  BY <1>1, MoveUnit
<1> QED BY <1>2 DEF Way, r

(* A unit is written.                                                       *)
LEMMA WayWritten ==
  ASSUME NEW f \in Seq(Unit), NEW w \in Seq(Unit), NEW p \in Seq(Unit), NEW c \in Seq(Unit),
         p # <<>>
  PROVE  Way(f, Append(w, Head(p)), Tail(p), c) = Way(f, w, p, c)
<1>1. Append(w, Head(p)) \o (Tail(p) \o c) = w \o (p \o c)
  BY MoveUnit
<1> QED BY <1>1 DEF Way

(* A batch is encoded.                                                      *)
LEMMA WayEncoded ==
  ASSUME NEW f \in Seq(Unit), NEW w \in Seq(Unit), NEW q \in Seq(Item), NEW k \in 0 .. Len(q)
  PROVE  Way(f, w, Encoded(q, k), Enc(Left(q, k))) = Way(f, w, <<>>, Enc(q))
<1>1. Encoded(q, k) \o Enc(Left(q, k)) = Enc(q) /\ Enc(q) \in Seq(Unit)
  BY EncSplits, EncType
<1>2. <<>> \o Enc(q) = Enc(q)
  BY <1>1, ConcatEmptySeq
<1> QED BY <1>1, <1>2 DEF Way

(* The packets in flight from e, if the other end is there to read them.    *)
LEMMA FlightNow ==
  ASSUME Types, NEW s \in Sessions, NEW e \in Ends
  PROVE  /\ frame[s][Other(e)] \in Seq(Unit) /\ wire[s][e] \in Seq(Unit)
         /\ pending[s][e] \in Seq(Unit) /\ Enc(outq[s][e]) \in Seq(Unit)
         /\ InFlight(s, e) \in Seq(Packets)
         /\ ~ Over(s, Other(e)) =>
              InFlight(s, e) = PacketsOf(Way(frame[s][Other(e)], wire[s][e], pending[s][e],
                                             Enc(outq[s][e])))
         /\ Over(s, Other(e)) => InFlight(s, e) = <<>>
<1>1. /\ frame[s][Other(e)] \in Seq(Unit) /\ wire[s][e] \in Seq(Unit)
      /\ pending[s][e] \in Seq(Unit) /\ outq[s][e] \in Seq(Item)
  BY OtherEnd DEF Types
<1>2. Enc(outq[s][e]) \in Seq(Unit)
  BY <1>1, EncType
<1> DEFINE w == Way(frame[s][Other(e)], wire[s][e], pending[s][e], Enc(outq[s][e]))
<1>3. /\ w = ((frame[s][Other(e)] \o wire[s][e]) \o pending[s][e]) \o Enc(outq[s][e])
      /\ PacketsOf(w) \in Seq(Packets)
  <2> DEFINE a == frame[s][Other(e)]
             b == wire[s][e]
             c == pending[s][e]
             d == Enc(outq[s][e])
  <2>1. a \in Seq(Unit) /\ b \in Seq(Unit) /\ c \in Seq(Unit) /\ d \in Seq(Unit)
    BY <1>1, <1>2
  <2> HIDE DEF a, b, c, d
  <2>2. Way(a, b, c, d) = FromTheLeft(a, b, c, d)
    BY <2>1, WayFromTheLeft
  <2>3. PacketsOf(Way(a, b, c, d)) \in Seq(Packets)
    BY <2>1, WayType
  <2> QED BY <2>2, <2>3 DEF a, b, c, d, FromTheLeft
<1>4. ~ Over(s, Other(e)) => InFlight(s, e) = PacketsOf(w)
  BY <1>3 DEF InFlight, Enc
<1>5. Over(s, Other(e)) => InFlight(s, e) = <<>>
  BY DEF InFlight
<1> HIDE DEF w
<1>6. InFlight(s, e) \in Seq(Packets)
  <2>1. <<>> \in Seq(Packets)
    OBVIOUS
  <2> QED BY <1>3, <1>4, <1>5, <2>1
<1> QED BY <1>1, <1>2, <1>4, <1>5, <1>6 DEF w

(* The same after a step.                                                   *)
LEMMA FlightThen ==
  ASSUME Types', NEW s \in Sessions, NEW e \in Ends
  PROVE  /\ frame'[s][Other(e)] \in Seq(Unit) /\ wire'[s][e] \in Seq(Unit)
         /\ pending'[s][e] \in Seq(Unit) /\ Enc(outq'[s][e]) \in Seq(Unit)
         /\ ~ Over(s, Other(e))' =>
              InFlight(s, e)' = PacketsOf(Way(frame'[s][Other(e)], wire'[s][e], pending'[s][e],
                                              Enc(outq'[s][e])))
         /\ Over(s, Other(e))' => InFlight(s, e)' = <<>>
<1>1. /\ frame'[s][Other(e)] \in Seq(Unit) /\ wire'[s][e] \in Seq(Unit)
      /\ pending'[s][e] \in Seq(Unit) /\ outq'[s][e] \in Seq(Item)
  BY OtherEnd DEF Types
<1>2. Enc(outq'[s][e]) \in Seq(Unit)
  BY <1>1, EncType
<1> DEFINE w == Way(frame'[s][Other(e)], wire'[s][e], pending'[s][e], Enc(outq'[s][e]))
<1>3. w = ((frame'[s][Other(e)] \o wire'[s][e]) \o pending'[s][e]) \o Enc(outq'[s][e])
  <2> DEFINE a == frame'[s][Other(e)]
             b == wire'[s][e]
             c == pending'[s][e]
             d == Enc(outq'[s][e])
  <2>1. a \in Seq(Unit) /\ b \in Seq(Unit) /\ c \in Seq(Unit) /\ d \in Seq(Unit)
    BY <1>1, <1>2
  <2> HIDE DEF a, b, c, d
  <2>2. Way(a, b, c, d) = FromTheLeft(a, b, c, d)
    BY <2>1, WayFromTheLeft
  <2>3. PacketsOf(Way(a, b, c, d)) \in Seq(Packets)
    BY <2>1, WayType
  <2> QED BY <2>2, <2>3 DEF a, b, c, d, FromTheLeft
<1>4. ~ Over(s, Other(e))' => InFlight(s, e)' = PacketsOf(w)
  BY <1>3 DEF InFlight, Enc, Other
<1>5. Over(s, Other(e))' => InFlight(s, e)' = <<>>
  BY DEF InFlight
<1> HIDE DEF w
<1> QED BY <1>1, <1>2, <1>4, <1>5 DEF w

(* Nothing that is in flight from e changes.                                *)
LEMMA FlightKept ==
  ASSUME NEW s \in Sessions, NEW e \in Ends, Over(s, Other(e))' <=> Over(s, Other(e)),
         frame'[s][Other(e)] = frame[s][Other(e)], wire'[s][e] = wire[s][e],
         pending'[s][e] = pending[s][e], outq'[s][e] = outq[s][e]
  PROVE  InFlight(s, e)' = InFlight(s, e)
BY DEF InFlight, Other

-----------------------------------------------------------------------------
(* Steps of a session, as Session describes them                            *)

(* Neither what the ends are nor what is in flight changes.                 *)
Quiet(s) == \A e \in Ends : /\ EndOf(s, e)' = EndOf(s, e)
                            /\ InFlight(s, e)' = InFlight(s, e)

(* An end of the session opens.                                             *)
LEMMA StepOpen ==
  ASSUME NEW s \in Sessions, NEW x \in Ends, EndOf(s, x) = "new", EndOf(s, x)' = "open",
         EndOf(s, Other(x))' = EndOf(s, Other(x)),
         \A e \in Ends : InFlight(s, e)' = InFlight(s, e)
  PROVE  Contract!Step(s)
<1>1. Other(x) \in Ends /\ Other(x) # x /\ \A e \in Ends : e = x \/ e = Other(x)
  BY OtherEnd
<1>2. Contract!Becomes(s, x, "open")
  BY <1>1 DEF Contract!Becomes
<1>3. Contract!Open(s, x)
  BY <1>2 DEF Contract!Open
<1> QED BY <1>3 DEF Contract!Step, Contract!Sides, Ends

(* A packet is given to the session at x.                                   *)
LEMMA StepSend ==
  ASSUME NEW s \in Sessions, NEW x \in Ends, NEW p \in Packets, EndOf(s, x) = "open",
         \A e \in Ends : EndOf(s, e)' = EndOf(s, e),
         InFlight(s, Other(x))' = InFlight(s, Other(x)),
         InFlight(s, x) \in Seq(Packets), InFlight(s, x)' = Append(InFlight(s, x), p)
  PROVE  Contract!Step(s)
<1>1. Other(x) \in Ends /\ Other(x) # x /\ Contract!Opposite(x) = Other(x)
  BY OtherEnd DEF Contract!Opposite, Other
<1> DEFINE q == InFlight(s, x)
<1>2. Len(Append(q, p)) = Len(q) + 1 /\ SubSeq(Append(q, p), 1, Len(q)) = q
  <2>1. q \in Seq(Packets)
    OBVIOUS
  <2> HIDE DEF q
  <2> QED BY <2>1
<1>3. Contract!Send(s, x)
  BY <1>1, <1>2 DEF Contract!Send
<1> QED BY <1>3 DEF Contract!Step, Contract!Sides, Ends

(* The end x takes the first packet that is in flight to it.                *)
LEMMA StepTake ==
  ASSUME NEW s \in Sessions, NEW x \in Ends, EndOf(s, x) = "open",
         \A e \in Ends : EndOf(s, e)' = EndOf(s, e),
         InFlight(s, x)' = InFlight(s, x),
         InFlight(s, Other(x)) # <<>>, InFlight(s, Other(x))' = Tail(InFlight(s, Other(x)))
  PROVE  Contract!Step(s)
<1>1. /\ Other(x) \in Ends /\ Other(x) # x /\ \A e \in Ends : e = x \/ e = Other(x)
      /\ Contract!Opposite(x) = Other(x)
  BY OtherEnd DEF Contract!Opposite, Other
<1>2. Contract!Take(s, x)
  BY <1>1 DEF Contract!Take
<1> QED BY <1>2 DEF Contract!Step, Contract!Sides, Ends

(* The session closes at x: what was on its way to x is lost, and of what x *)
(* had sent a first part remains.                                           *)
LEMMA StepClose ==
  ASSUME NEW s \in Sessions, NEW x \in Ends, EndOf(s, x) # "closed", EndOf(s, x)' = "closed",
         EndOf(s, Other(x))' = EndOf(s, Other(x)), NEW k \in 0 .. Len(InFlight(s, x)),
         InFlight(s, x)' = SubSeq(InFlight(s, x), 1, k), InFlight(s, Other(x))' = <<>>
  PROVE  Contract!Step(s)
<1>1. /\ Other(x) \in Ends /\ Other(x) # x /\ \A e \in Ends : e = x \/ e = Other(x)
      /\ Contract!Opposite(x) = Other(x)
  BY OtherEnd DEF Contract!Opposite, Other
<1>2. Contract!Becomes(s, x, "closed")
  BY <1>1 DEF Contract!Becomes
<1> DEFINE F == [e \in Ends |-> InFlight(s, e)]
           G == [e \in Ends |-> InFlight(s, e)']
           o == Other(x)
<1>3. G = [F EXCEPT ![x] = SubSeq(F[x], 1, k), ![o] = <<>>] /\ k \in 0 .. Len(F[x])
  BY <1>1
<1>4. Contract!Close(s, x)
  BY <1>1, <1>2, <1>3 DEF Contract!Close
<1> QED BY <1>4 DEF Contract!Step, Contract!Sides, Ends

(* A step of other sessions.                                                *)
LEMMA OthersQuiet ==
  ASSUME NEW s \in Sessions, SameSession(s)
  PROVE  Quiet(s)
<1>1. ASSUME NEW e \in Ends PROVE EndOf(s, e)' = EndOf(s, e) /\ InFlight(s, e)' = InFlight(s, e)
  <2>1. EndOf(s, e)' = EndOf(s, e)
    BY DEF SameSession, EndOf, Over
  <2>2. InFlight(s, e)' = InFlight(s, e)
    BY FlightKept DEF SameSession, Over
  <2> QED BY <2>1, <2>2
<1> QED BY <1>1 DEF Quiet

-----------------------------------------------------------------------------
(* What the refinement needs besides IInv: the first thing that an end in   *)
(* its handshake will read is a handshake, and an end that is up is in the  *)
(* table.                                                                   *)
Greeted(s) ==
  \A e \in Ends :
    /\ Early(s, Other(e)) /\ wire[s][e] # <<>> => Head(wire[s][e]).unit = "hello"
    /\ st[s][e] = "up" => s \in reg[e]

(* A session ends at x.                                                     *)
LEMMA FinishEffect ==
  ASSUME Types, NEW s \in Sessions, NEW x \in Ends, Alive(s, x), Finish(s, x)
  PROVE  /\ st'[s][x] = "over" /\ st'[s][Other(x)] = st[s][Other(x)] /\ ~ Over(s, x)
         /\ outq'[s][x] = <<>> /\ pending'[s][x] = <<>>
         /\ frame'[s][Other(x)] = frame[s][Other(x)]
         /\ wire'[s][x] = wire[s][x] /\ wire'[s][Other(x)] = <<>>
         /\ reg'[Other(x)] = reg[Other(x)]
<1> DEFINE o == Other(x)
<1>1. o \in Ends /\ o # x
  BY OtherEnd
<1> HIDE DEF o
<1>2. /\ st' = [st EXCEPT ![s][x] = "over"] /\ outq' = [outq EXCEPT ![s][x] = <<>>]
      /\ pending' = [pending EXCEPT ![s][x] = <<>>] /\ frame' = [frame EXCEPT ![s][x] = <<>>]
      /\ wire' = [wire EXCEPT ![s][o] = <<>>]
  BY DEF Finish, o
<1>3. st'[s][x] = "over" /\ st'[s][o] = st[s][o]
  BY <1>1, <1>2 DEF Types
<1>4. outq'[s][x] = <<>> /\ pending'[s][x] = <<>>
  BY <1>2 DEF Types
<1>5. frame'[s][o] = frame[s][o] /\ wire'[s][x] = wire[s][x] /\ wire'[s][o] = <<>>
  BY <1>1, <1>2 DEF Types
<1>6. reg' = [reg EXCEPT ![x] = @ \ {s}] \/ reg' = reg
  BY DEF Finish, Unregistered
<1>7. reg'[o] = reg[o]
  BY <1>1, <1>6 DEF Types
<1>8. ~ Over(s, x)
  BY DEF Over, Alive
<1> QED BY <1>3, <1>4, <1>5, <1>7, <1>8 DEF o

(* Finish, with the buffers that it drops, closes the session.              *)
LEMMA FinishCloses ==
  ASSUME Types, Types', NEW s \in Sessions, NEW x \in Ends, Alive(s, x), Finish(s, x)
  PROVE  Contract!Step(s)
<1> DEFINE o == Other(x)
<1>1. o \in Ends /\ o # x /\ Other(o) = x
  BY OtherEnd
<1>2. /\ st'[s][x] = "over" /\ st'[s][o] = st[s][o] /\ ~ Over(s, x)
      /\ outq'[s][x] = <<>> /\ pending'[s][x] = <<>>
      /\ frame'[s][o] = frame[s][o] /\ wire'[s][x] = wire[s][x] /\ reg'[o] = reg[o]
  BY FinishEffect
<1>3. Over(s, x)' /\ (Over(s, o)' <=> Over(s, o))
  BY <1>2 DEF Over
<1>4. EndOf(s, x) # "closed" /\ EndOf(s, x)' = "closed" /\ EndOf(s, o)' = EndOf(s, o)
  BY <1>2, <1>3 DEF EndOf
<1>5. InFlight(s, o)' = <<>>
  BY <1>1, <1>3, FlightThen
<1>6. \E k \in 0 .. Len(InFlight(s, x)) : InFlight(s, x)' = SubSeq(InFlight(s, x), 1, k)
  <2>1. CASE Over(s, o)
    <3>1. InFlight(s, x) = <<>> /\ InFlight(s, x)' = <<>>
      BY <1>3, <2>1, FlightNow, FlightThen
    <3>2. 0 \in 0 .. Len(<<>>) /\ SubSeq(<<>>, 1, 0) = <<>>
      BY SubSeqEmpty
    <3> QED BY <3>1, <3>2
  <2>2. CASE ~ Over(s, o)
    <3> DEFINE f == frame[s][o]
               w == wire[s][x]
               p == pending[s][x]
               c == Enc(outq[s][x])
    <3>1. /\ f \in Seq(Unit) /\ w \in Seq(Unit) /\ p \in Seq(Unit) /\ c \in Seq(Unit)
          /\ InFlight(s, x) = PacketsOf(Way(f, w, p, c))
      BY <2>2, FlightNow
    <3>2. Enc(outq'[s][x]) = <<>>
      BY <1>2, EncEmpty
    <3>3. InFlight(s, x)' = PacketsOf(Way(f, w, <<>>, <<>>))
      BY <1>2, <1>3, <2>2, <3>2, FlightThen
    <3> HIDE DEF f, w, p, c
    <3>4. \E k \in 0 .. Len(PacketsOf(Way(f, w, p, c))) :
             PacketsOf(Way(f, w, <<>>, <<>>)) = SubSeq(PacketsOf(Way(f, w, p, c)), 1, k)
      BY <3>1, WayCut
    <3> QED BY <3>1, <3>3, <3>4
  <2> QED BY <2>1, <2>2
<1> QED BY <1>4, <1>5, <1>6, StepClose

(* A handshake on the wire is no packet; a dialler that registers its       *)
(* sender at once opens its end.                                            *)
LEMMA ConnectRefines ==
  ASSUME Types, Types', NEW s \in Sessions, SInv(s), Connect(s), st[s]["I"] = "none"
  PROVE  Contract!Step(s) \/ Quiet(s)
<1>1. st[s]["L"] = "none" /\ wire[s]["I"] = <<>> /\ "I" # "L"
  BY DEF SInv, Setup
<1>2. UNCHANGED <<config, outq, pending, frame>>
  BY DEF Connect
<1>3. st'[s]["I"] = "hello" /\ st'[s]["L"] = "none"
  BY <1>1, EndsAre DEF Connect, Types
<1>4. wire'[s]["I"] = <<Hello(key)>> /\ wire'[s]["L"] = wire[s]["L"]
  BY <1>1, EndsAre DEF Connect, Types
<1>5. reg'["L"] = reg["L"] /\ (s \in reg["I"] => s \in reg'["I"])
  BY <1>1, EndsAre DEF Connect, Types
<1>6. /\ ~ Over(s, "I") /\ ~ Over(s, "I")' /\ ~ Over(s, "L") /\ ~ Over(s, "L")'
  BY <1>1, <1>3 DEF Over
<1>7. InFlight(s, "L")' = InFlight(s, "L")
  BY <1>2, <1>4, <1>6, EndsAre, FlightKept
<1>8. InFlight(s, "I")' = InFlight(s, "I")
  <2>1. Hello(key) \in Unit /\ Hello(key).unit # "mac"
    BY DEF Types, key, Hello, Unit
  <2>2. PacketsOf(<<Hello(key)>>) = PacketsOf(<<>>)
    <3>1. PacketsOf(Append(<<>>, Hello(key))) = PacketsOf(<<>>) \o EndsIn(Hello(key))
      <4>1. <<>> \in Seq(Unit)
        OBVIOUS
      <4> QED BY <2>1, <4>1, PacketsOfAppend
    <3>2. EndsIn(Hello(key)) = <<>>
      BY <2>1 DEF EndsIn
    <3>3. PacketsOf(<<>>) \o <<>> = PacketsOf(<<>>) /\ Append(<<>>, Hello(key)) = <<Hello(key)>>
      BY PacketsOfNothing
    <3> QED BY <3>1, <3>2, <3>3
  <2> DEFINE f == frame[s]["L"]
             p == pending[s]["I"]
             c == Enc(outq[s]["I"])
  <2>3. /\ f \in Seq(Unit) /\ p \in Seq(Unit) /\ c \in Seq(Unit)
        /\ InFlight(s, "I") = PacketsOf(Way(f, <<>>, p, c))
    BY <1>1, <1>6, EndsAre, FlightNow
  <2>4. InFlight(s, "I")' = PacketsOf(Way(f, <<Hello(key)>>, p, c))
    BY <1>2, <1>4, <1>6, EndsAre, FlightThen
  <2>5. <<>> \in Seq(Unit) /\ <<Hello(key)>> \in Seq(Unit)
    BY <2>1
  <2> HIDE DEF f, p, c
  <2>6. PacketsOf(Way(f, <<Hello(key)>>, p, c)) = PacketsOf(Way(f, <<>>, p, c))
    <3> DEFINE h == <<Hello(key)>>
               n == <<>>
    <3>1. h \in Seq(Unit) /\ n \in Seq(Unit) /\ PacketsOf(h) = PacketsOf(n)
      BY <2>2, <2>5
    <3> HIDE DEF h, n
    <3>2. PacketsOf(Way(f, h, p, c)) = PacketsOf(Way(f, n, p, c))
      BY <2>3, <3>1, WaySameWire
    <3> QED BY <3>2 DEF h, n
  <2> QED BY <2>3, <2>4, <2>6
<1>9. EndOf(s, "L")' = EndOf(s, "L")
  BY <1>5, <1>6 DEF EndOf
<1>10. CASE s \notin reg["I"] /\ s \in reg'["I"]
  <2>1. EndOf(s, "I") = "new" /\ EndOf(s, "I")' = "open"
    BY <1>6, <1>10 DEF EndOf
  <2>2. \A e \in Ends : InFlight(s, e)' = InFlight(s, e)
    BY <1>7, <1>8 DEF Ends
  <2> QED BY <1>9, <2>1, <2>2, EndsAre, StepOpen
<1>11. CASE ~ (s \notin reg["I"] /\ s \in reg'["I"])
  <2>1. EndOf(s, "I")' = EndOf(s, "I")
    BY <1>5, <1>6, <1>11 DEF EndOf
  <2> QED BY <1>7, <1>8, <1>9, <2>1 DEF Quiet, Ends
<1> QED BY <1>10, <1>11

(* Accepting a connection is not visible.                                   *)
LEMMA AcceptRefines ==
  ASSUME Types, NEW s \in Sessions, Accept(s)
  PROVE  Quiet(s)
<1>1. /\ st[s]["L"] = "none" /\ UNCHANGED <<reg, outq, pending, wire, frame>>
      /\ st' = [st EXCEPT ![s]["L"] = "hello"]
  BY DEF Accept
<1>2. \A e \in Ends : Over(s, e)' <=> Over(s, e)
  BY <1>1, EndsAre DEF Over, Types, Ends
<1>3. ASSUME NEW e \in Ends PROVE EndOf(s, e)' = EndOf(s, e) /\ InFlight(s, e)' = InFlight(s, e)
  <2>1. EndOf(s, e)' = EndOf(s, e)
    BY <1>1, <1>2 DEF EndOf
  <2>2. InFlight(s, e)' = InFlight(s, e)
    BY <1>1, <1>2, OtherEnd, FlightKept
  <2> QED BY <2>1, <2>2
<1> QED BY <1>3 DEF Quiet

(* An end that has read the handshake opens, unless it had been open        *)
(* before; the handshakes carry no packets.                                 *)
LEMMA ReadHelloRefines ==
  ASSUME Types, Types', NEW s \in Sessions, NEW x \in Ends, Greeted(s), ReadHello(s, x),
         KeyMatches(x, Head(wire[s][Other(x)]).key)
  PROVE  Contract!Step(s) \/ Quiet(s)
<1> DEFINE o == Other(x)
           in == wire[s][o]
<1>1. o \in Ends /\ o # x /\ Other(o) = x /\ \A e \in Ends : e = x \/ e = o
  BY OtherEnd
<1>2. st[s][x] = "hello" /\ in # <<>> /\ UNCHANGED <<outq, pending, frame>>
  BY DEF ReadHello
<1>3. in \in Seq(Unit) /\ Head(in).unit = "hello"
  <2>1. Early(s, x)
    BY <1>2 DEF Early
  <2> QED BY <1>1, <1>2, <2>1 DEF Types, Greeted
<1> HIDE DEF o
<1>4. st'[s][x] = "up" /\ st'[s][o] = st[s][o]
  <2>1. st' = [st EXCEPT ![s][x] = "up"]
    BY DEF ReadHello
  <2> QED BY <1>1, <2>1 DEF Types
<1>5. reg'[o] = reg[o] /\ s \in reg'[x]
  <2>1. reg' = [reg EXCEPT ![x] = @ \cup {s}] /\ reg \in [Ends -> SUBSET Sessions]
    BY DEF ReadHello, Types
  <2> QED BY <1>1, <2>1
<1>6. /\ wire'[s][o] = Tail(in)
      /\ x = "I" => wire'[s][x] = wire[s][x]
      /\ x = "L" => wire'[s][x] = Append(wire[s][x], Hello(Head(in).key))
                      /\ Hello(Head(in).key) \in Unit
  <2>1. CASE x = "I"
    <3>1. o = "L" /\ x # "L" /\ wire' = [wire EXCEPT ![s]["L"] = Tail(in)]
      BY <2>1, EndsAre DEF ReadHello, o
    <3>2. wire \in [Sessions -> [Ends -> Seq(Unit)]]
      BY DEF Types
    <3> HIDE DEF in
    <3> QED BY <1>1, <2>1, <3>1, <3>2
  <2>2. CASE x = "L"
    <3> DEFINE u == Hello(Head(in).key)
               w == [e \in Ends |-> IF e = "L" THEN Append(wire[s]["L"], u) ELSE Tail(in)]
    <3>1. u \in Unit
      <4>1. Head(in).key \in KeysL
        BY <2>2 DEF KeyMatches, o
      <4> QED BY <4>1 DEF Unit, Hello
    <3>2. wire' = [wire EXCEPT ![s] = w] /\ o = "I" /\ x # "I"
      BY <2>2, EndsAre DEF ReadHello, o
    <3>3. wire \in [Sessions -> [Ends -> Seq(Unit)]]
      BY DEF Types
    <3> HIDE DEF in, u
    <3>4. w["L"] = Append(wire[s]["L"], u) /\ w["I"] = Tail(in)
      BY EndsAre
    <3> HIDE DEF w
    <3>5. wire'[s] = w
      BY <3>2, <3>3
    <3> QED BY <2>2, <3>1, <3>2, <3>4, <3>5 DEF u
  <2> QED BY <2>1, <2>2 DEF Ends
<1>7. ~ Over(s, x) /\ ~ Over(s, x)' /\ (Over(s, o)' <=> Over(s, o))
  BY <1>2, <1>4 DEF Over
<1>8. InFlight(s, o)' = InFlight(s, o)
  <2>1. Tail(in) \in Seq(Unit) /\ PacketsOf(in) = PacketsOf(Tail(in))
    <3> HIDE DEF in
    <3> QED BY <1>2, <1>3, PacketsOfHead
  <2> DEFINE f == frame[s][x]
             p == pending[s][o]
             c == Enc(outq[s][o])
  <2>2. /\ f \in Seq(Unit) /\ p \in Seq(Unit) /\ c \in Seq(Unit)
        /\ InFlight(s, o) = PacketsOf(Way(f, in, p, c))
    BY <1>1, <1>7, FlightNow
  <2>3. InFlight(s, o)' = PacketsOf(Way(f, Tail(in), p, c))
    BY <1>1, <1>2, <1>6, <1>7, FlightThen
  <2> HIDE DEF f, p, c, in
  <2>4. PacketsOf(Way(f, in, p, c)) = PacketsOf(Way(f, Tail(in), p, c))
    <3> DEFINE t == Tail(in)
    <3>1. t \in Seq(Unit) /\ PacketsOf(in) = PacketsOf(t)
      BY <2>1
    <3> HIDE DEF t
    <3>2. PacketsOf(Way(f, in, p, c)) = PacketsOf(Way(f, t, p, c))
      BY <1>3, <2>2, <3>1, WaySameWire
    <3> QED BY <3>2 DEF t
  <2> QED BY <2>2, <2>3, <2>4
<1>9. InFlight(s, x)' = InFlight(s, x)
  <2>1. CASE x = "I"
    BY <1>2, <1>6, <1>7, <2>1, FlightKept DEF o
  <2>2. CASE x = "L" /\ Over(s, o)
    BY <1>7, <2>2, FlightNow, FlightThen DEF o
  <2>3. CASE x = "L" /\ ~ Over(s, o)
    <3> DEFINE f == frame[s][o]
               w == wire[s][x]
               p == pending[s][x]
               c == Enc(outq[s][x])
               u == Hello(Head(in).key)
    <3>1. /\ f \in Seq(Unit) /\ w \in Seq(Unit) /\ p \in Seq(Unit) /\ c \in Seq(Unit)
          /\ InFlight(s, x) = PacketsOf(Way(f, w, p, c))
      BY <2>3, FlightNow DEF o
    <3>2. InFlight(s, x)' = PacketsOf(Way(f, Append(w, u), p, c))
      BY <1>2, <1>6, <1>7, <2>3, FlightThen DEF o
    <3>3. u \in Unit /\ EndsIn(u) = <<>>
      BY <1>6, <2>3 DEF EndsIn, Hello
    <3> HIDE DEF f, w, p, c, u
    <3>4. PacketsOf(Append(w, u)) = PacketsOf(w) \o <<>> /\ PacketsOf(w) \in Seq(Packets)
      BY <3>1, <3>3, PacketsOfAppend
    <3>5. PacketsOf(Append(w, u)) = PacketsOf(w) /\ Append(w, u) \in Seq(Unit)
      BY <3>1, <3>3, <3>4, ConcatEmptySeq, AppendProperties
    <3>6. PacketsOf(Way(f, Append(w, u), p, c)) = PacketsOf(Way(f, w, p, c))
      <4> DEFINE v == Append(w, u)
      <4>1. v \in Seq(Unit) /\ PacketsOf(v) = PacketsOf(w)
        BY <3>5
      <4> HIDE DEF v
      <4>2. PacketsOf(Way(f, v, p, c)) = PacketsOf(Way(f, w, p, c))
        BY <3>1, <4>1, WaySameWire
      <4> QED BY <4>2 DEF v
    <3> QED BY <3>1, <3>2, <3>6
  <2> QED BY <2>1, <2>2, <2>3 DEF Ends
<1>10. EndOf(s, o)' = EndOf(s, o) /\ EndOf(s, x)' = "open"
  BY <1>5, <1>7 DEF EndOf
<1>11. \A e \in Ends : InFlight(s, e)' = InFlight(s, e)
  BY <1>1, <1>8, <1>9
<1>12. CASE s \in reg[x]
  <2>1. EndOf(s, x) = "open"
    BY <1>7, <1>12 DEF EndOf
  <2> QED BY <1>1, <1>10, <1>11, <2>1 DEF Quiet
<1>13. CASE s \notin reg[x]
  <2>1. EndOf(s, x) = "new"
    BY <1>7, <1>13 DEF EndOf
  <2> QED BY <1>10, <1>11, <2>1, StepOpen DEF o
<1> QED BY <1>12, <1>13

(* A packet given to a registered sender is one more in flight, or is lost  *)
(* when the other end is over.                                              *)
LEMMA EnqueueRefines ==
  ASSUME Types, Types', NEW s \in Sessions, NEW x \in Ends, NEW p \in Packets, Enqueue(s, x, p)
  PROVE  Contract!Step(s) \/ Quiet(s)
<1> DEFINE o == Other(x)
<1>1. o \in Ends /\ o # x /\ Other(o) = x /\ \A e \in Ends : e = x \/ e = o
  BY OtherEnd
<1>2. s \in reg[x] /\ Alive(s, x) /\ UNCHANGED <<st, reg, pending, wire, frame>>
  BY DEF Enqueue
<1> HIDE DEF o
<1>3. outq[s][x] \in Seq(Item) /\ p \in Item
  BY DEF Types, Item
<1>4. outq'[s][x] = Append(outq[s][x], p) /\ outq'[s][o] = outq[s][o]
  <2>1. outq' = [outq EXCEPT ![s][x] = Append(outq[s][x], p)]
    BY DEF Enqueue, Types
  <2> QED BY <1>1, <2>1 DEF Types
<1>5. \A e \in Ends : (Over(s, e)' <=> Over(s, e)) /\ EndOf(s, e)' = EndOf(s, e)
  BY <1>2 DEF Over, EndOf
<1>6. EndOf(s, x) = "open"
  BY <1>2 DEF EndOf, Over, Alive
<1>7. InFlight(s, o)' = InFlight(s, o)
  BY <1>1, <1>2, <1>4, <1>5, FlightKept
<1>8. CASE Over(s, o)
  <2>1. InFlight(s, x)' = InFlight(s, x)
    BY <1>1, <1>5, <1>8, FlightNow, FlightThen DEF o
  <2> QED BY <1>1, <1>5, <1>7, <2>1 DEF Quiet
<1>9. CASE ~ Over(s, o)
  <2> DEFINE f == frame[s][o]
             w == wire[s][x]
             a == pending[s][x]
             c == Enc(outq[s][x])
             d == Enc(outq'[s][x])
  <2>1. /\ f \in Seq(Unit) /\ w \in Seq(Unit) /\ a \in Seq(Unit) /\ c \in Seq(Unit)
        /\ InFlight(s, x) = PacketsOf(Way(f, w, a, c)) /\ InFlight(s, x) \in Seq(Packets)
    BY <1>9, FlightNow DEF o
  <2>2. InFlight(s, x)' = PacketsOf(Way(f, w, a, d))
    BY <1>1, <1>2, <1>5, <1>9, FlightThen DEF o
  <2>3. d = Then(c, p)
    <3>1. Enc(Append(outq[s][x], p)) = Enc(outq[s][x]) \o UnitsOf(p)
      BY <1>3, EncAppend
    <3> QED BY <1>4, <3>1 DEF Then
  <2> HIDE DEF f, w, a, c, d
  <2>4. PacketsOf(Way(f, w, a, d)) = Append(PacketsOf(Way(f, w, a, c)), p)
    <3>1. PacketsOf(Way(f, w, a, Then(c, p))) = Longer(PacketsOf(Way(f, w, a, c)), p)
      BY <2>1, WayGrows
    <3> QED BY <2>3, <3>1 DEF Longer
  <2>5. InFlight(s, x)' = Append(InFlight(s, x), p)
    BY <2>1, <2>2, <2>4
  <2> QED BY <1>5, <1>6, <1>7, <2>1, <2>5, StepSend DEF o
<1> QED BY <1>8, <1>9

(* The cleaner removes senders whose session is closed already.             *)
LEMMA CleanRefines ==
  ASSUME Types, Types', NEW x \in Ends, Clean(x), NEW s \in Sessions
  PROVE  Quiet(s)
<1>1. UNCHANGED <<st, pending, wire, frame>>
  BY DEF Clean
<1>2. \A e \in Ends : ~ Over(s, e) => (s \in reg'[e] <=> s \in reg[e])
  <2>1. reg' = [reg EXCEPT ![x] = {r \in reg[x] : ~ Over(r, x)}]
    BY DEF Clean, Types
  <2> QED BY <2>1 DEF Types
<1>3. ASSUME NEW e \in Ends
      PROVE  outq'[s][e] = outq[s][e] \/ outq'[s][e] = Append(outq[s][e], Empty)
  BY DEF Clean
<1>4. ASSUME NEW e \in Ends PROVE Over(s, e)' <=> Over(s, e)
  BY <1>1 DEF Over
<1>5. ASSUME NEW e \in Ends PROVE EndOf(s, e)' = EndOf(s, e)
  BY <1>2, <1>4 DEF EndOf
<1>6. ASSUME NEW e \in Ends PROVE InFlight(s, e)' = InFlight(s, e)
  <2>1. Other(e) \in Ends
    BY OtherEnd
  <2>2. Enc(outq'[s][e]) = Enc(outq[s][e])
    <3>1. outq[s][e] \in Seq(Item) /\ Empty \in Item
      BY DEF Types, Item
    <3>2. CASE outq'[s][e] = Append(outq[s][e], Empty)
      <4>1. Enc(Append(outq[s][e], Empty)) = Enc(outq[s][e]) \o UnitsOf(Empty)
        BY <3>1, EncAppend
      <4>2. Enc(outq[s][e]) \o <<>> = Enc(outq[s][e])
        BY <3>1, EncType, ConcatEmptySeq
      <4> QED BY <3>2, <4>1, <4>2 DEF UnitsOf
    <3> QED BY <1>3, <3>2
  <2>3. CASE Over(s, Other(e))
    BY <1>4, <2>1, <2>3, FlightNow, FlightThen
  <2>4. CASE ~ Over(s, Other(e))
    <3>1. InFlight(s, e) = PacketsOf(Way(frame[s][Other(e)], wire[s][e], pending[s][e],
                                         Enc(outq[s][e])))
      BY <2>4, FlightNow
    <3>2. InFlight(s, e)' = PacketsOf(Way(frame'[s][Other(e)], wire'[s][e], pending'[s][e],
                                          Enc(outq'[s][e])))
      BY <1>4, <2>1, <2>4, FlightThen
    <3> QED BY <1>1, <2>2, <3>1, <3>2
  <2> QED BY <2>3, <2>4
<1> QED BY <1>5, <1>6 DEF Quiet

(* Encoding a batch changes neither the packets nor their order, however    *)
(* the batch is cut.                                                        *)
LEMMA EncodeRefines ==
  ASSUME Types, Types', NEW s \in Sessions, NEW x \in Ends, Encode(s, x),
         ~ TooLong(x, outq[s][x], BatchOf(x, outq[s][x]))
  PROVE  Quiet(s)
<1> DEFINE o == Other(x)
           q == outq[s][x]
           k == BatchOf(x, q)
<1>1. o \in Ends /\ o # x /\ Other(o) = x /\ \A e \in Ends : e = x \/ e = o
  BY OtherEnd
<1>2. pending[s][x] = <<>> /\ q # <<>> /\ UNCHANGED <<st, reg, wire, frame>>
  BY DEF Encode
<1>3. q \in Seq(Item) /\ k \in 0 .. Len(q)
  <2>1. q \in Seq(Item)
    BY DEF Types
  <2> HIDE DEF q
  <2>2. k \in 1 .. Len(q)
    BY <1>2, <2>1, BatchType
  <2> QED BY <2>1, <2>2
<1>4. /\ pending' = [pending EXCEPT ![s][x] = Encoded(q, k)]
      /\ outq' = [outq EXCEPT ![s][x] = Left(q, k)]
  BY DEF Encode
<1> HIDE DEF o, q, k
<1>5. /\ pending'[s][x] = Encoded(q, k) /\ pending'[s][o] = pending[s][o]
      /\ outq'[s][x] = Left(q, k) /\ outq'[s][o] = outq[s][o]
  BY <1>1, <1>4 DEF Types
<1>6. \A e \in Ends : (Over(s, e)' <=> Over(s, e)) /\ EndOf(s, e)' = EndOf(s, e)
  BY <1>2 DEF Over, EndOf
<1>7. InFlight(s, o)' = InFlight(s, o)
  BY <1>1, <1>2, <1>5, <1>6, FlightKept
<1>8. InFlight(s, x)' = InFlight(s, x)
  <2>1. CASE Over(s, o)
    BY <1>1, <1>6, <2>1, FlightNow, FlightThen DEF o
  <2>2. CASE ~ Over(s, o)
    <3> DEFINE f == frame[s][o]
               w == wire[s][x]
    <3>1. /\ f \in Seq(Unit) /\ w \in Seq(Unit)
          /\ InFlight(s, x) = PacketsOf(Way(f, w, <<>>, Enc(q)))
      BY <1>2, <2>2, FlightNow DEF o, q
    <3>2. InFlight(s, x)' = PacketsOf(Way(f, w, Encoded(q, k), Enc(Left(q, k))))
      BY <1>1, <1>2, <1>5, <1>6, <2>2, FlightThen DEF o
    <3> HIDE DEF f, w
    <3>3. Way(f, w, Encoded(q, k), Enc(Left(q, k))) = Way(f, w, <<>>, Enc(q))
      BY <1>3, <3>1, WayEncoded
    <3> QED BY <3>1, <3>2, <3>3
  <2> QED BY <2>1, <2>2
<1> QED BY <1>1, <1>6, <1>7, <1>8 DEF Quiet

(* Neither does writing a unit; at an end that is over the socket may drop  *)
(* it.                                                                      *)
LEMMA WriteRefines ==
  ASSUME Types, Types', NEW s \in Sessions, NEW x \in Ends, Write(s, x)
  PROVE  Quiet(s)
<1> DEFINE o == Other(x)
           p == pending[s][x]
           w == wire[s][x]
<1>1. o \in Ends /\ o # x /\ Other(o) = x /\ \A e \in Ends : e = x \/ e = o
  BY OtherEnd
<1>2. p # <<>> /\ UNCHANGED <<st, reg, outq, frame>>
  BY DEF Write
<1>3. /\ pending' = [pending EXCEPT ![s][x] = Tail(p)]
      /\ Over(s, o) => wire' = wire
      /\ ~ Over(s, o) => wire' = [wire EXCEPT ![s][x] = Append(w, Head(p))]
  BY DEF Write, Types
<1> HIDE DEF o, p, w
<1>4. pending'[s][x] = Tail(p) /\ pending'[s][o] = pending[s][o]
  BY <1>1, <1>3 DEF Types
<1>5. wire'[s][o] = wire[s][o] /\ (~ Over(s, o) => wire'[s][x] = Append(w, Head(p)))
  <2>1. CASE Over(s, o)
    BY <1>3, <2>1
  <2>2. CASE ~ Over(s, o)
    BY <1>1, <1>3, <2>2 DEF Types
  <2> QED BY <2>1, <2>2
<1>6. \A e \in Ends : (Over(s, e)' <=> Over(s, e)) /\ EndOf(s, e)' = EndOf(s, e)
  BY <1>2 DEF Over, EndOf
<1>7. InFlight(s, o)' = InFlight(s, o)
  BY <1>1, <1>2, <1>4, <1>5, <1>6, FlightKept
<1>8. InFlight(s, x)' = InFlight(s, x)
  <2>1. CASE Over(s, o)
    BY <1>1, <1>6, <2>1, FlightNow, FlightThen DEF o
  <2>2. CASE ~ Over(s, o)
    <3> DEFINE f == frame[s][o]
               c == Enc(outq[s][x])
    <3>1. /\ f \in Seq(Unit) /\ w \in Seq(Unit) /\ p \in Seq(Unit) /\ c \in Seq(Unit)
          /\ InFlight(s, x) = PacketsOf(Way(f, w, p, c))
      BY <2>2, FlightNow DEF o, p, w
    <3>2. InFlight(s, x)' = PacketsOf(Way(f, Append(w, Head(p)), Tail(p), c))
      BY <1>1, <1>2, <1>4, <1>5, <1>6, <2>2, FlightThen DEF o
    <3> HIDE DEF f, c
    <3>3. Way(f, Append(w, Head(p)), Tail(p), c) = Way(f, w, p, c)
      BY <1>2, <3>1, WayWritten
    <3> QED BY <3>1, <3>2, <3>3
  <2> QED BY <2>1, <2>2
<1> QED BY <1>1, <1>6, <1>7, <1>8 DEF Quiet

(* The frame that x is reading, with the next unit.                         *)
Reading(s, x) == Append(frame[s][x], Head(wire[s][Other(x)]))

(* A frame that x has read to its end, with the right MAC, is the frame of  *)
(* a packet.                                                                *)
LEMMA NextFrame ==
  ASSUME Types, NEW s \in Sessions, NEW x \in Ends, SInv(s), st[s][x] = "up",
         wire[s][Other(x)] # <<>>, IsComplete(Reading(s, x)), MacMatches(Reading(s, x))
  PROVE  \E p \in Packets : Reading(s, x) = FrameOf(p)
<1> DEFINE f == Reading(s, x)
           o == Other(x)
           in == wire[s][o]
           due == Due(s, o)
<1>1. o \in Ends /\ o # x /\ Other(o) = x
  BY OtherEnd
<1>2. in \in Seq(Unit) /\ frame[s][x] \in Seq(Unit) /\ in # <<>>
  BY <1>1 DEF Types
<1>3. due \in Seq(Packets)
  <2> HIDE DEF o
  <2>1. Prefix(s, o)
    BY <1>1 DEF SInv
  <2> QED BY <1>1, <2>1, DueType
<1>4. ~ Over(s, x) /\ Body(s, o) = in /\ Stream(s, o)
  BY <1>1 DEF Over, Body, Early, SInv
<1>5. PICK later \in Seq(Unit) : frame[s][x] \o (in \o later) = Enc(due)
  <2> HIDE DEF o, in
  <2> QED BY <1>1, <1>4 DEF Stream
<1> DEFINE t == Tail(in)
<1>6. f \in Seq(Unit) /\ t \in Seq(Unit) /\ f \o (t \o later) = frame[s][x] \o (in \o later)
  <2> HIDE DEF in
  <2> QED BY <1>2, MoveUnit DEF in, Reading
<1>7. t \o later \in Seq(Unit)
  <2> HIDE DEF t
  <2> QED BY <1>6, ConcatProperties
<1> HIDE DEF due, in, t, f
<1>8. f \o (t \o later) = Enc(due)
  BY <1>5, <1>6
<1>9. due[1] \in Packets /\ f = FrameOf(due[1])
  BY <1>3, <1>6, <1>7, <1>8, FrameRead DEF f
<1> QED BY <1>9 DEF f

(* A unit that completes a frame takes the first packet in flight; any      *)
(* other is not visible.                                                    *)
LEMMA ReadRefines ==
  ASSUME Types, Types', NEW s \in Sessions, NEW x \in Ends, SInv(s), Greeted(s), Read(s, x),
         ~ Finish(s, x)
  PROVE  Contract!Step(s) \/ Quiet(s)
<1> DEFINE o == Other(x)
           in == wire[s][o]
           f == Append(frame[s][x], Head(in))
<1>1. o \in Ends /\ o # x /\ Other(o) = x /\ \A e \in Ends : e = x \/ e = o
  BY OtherEnd
<1>2. /\ st[s][x] = "up" /\ in # <<>> /\ UNCHANGED <<st, reg, outq, pending>>
      /\ IsComplete(f) => MacMatches(f)
  BY DEF Read
<1>3. /\ wire' = [wire EXCEPT ![s][o] = Tail(in)]
      /\ frame' = [frame EXCEPT ![s][x] = IF IsComplete(f) THEN <<>> ELSE f]
  BY DEF Read, Types
<1>4. IsComplete(f) => \E p \in Packets : f = FrameOf(p)
  <2>1. f = Reading(s, x)
    BY DEF Reading
  <2> QED BY <1>2, <2>1, NextFrame
<1>5. in \in Seq(Unit) /\ frame[s][x] \in Seq(Unit)
  BY <1>1 DEF Types
<1>6. s \in reg[x]
  BY <1>2 DEF Greeted
<1> HIDE DEF o, in, f
<1>7. wire'[s][o] = Tail(in) /\ wire'[s][x] = wire[s][x]
  BY <1>1, <1>3 DEF Types
<1>8. frame'[s][o] = frame[s][o] /\ frame'[s][x] = IF IsComplete(f) THEN <<>> ELSE f
  BY <1>1, <1>3 DEF Types
<1>9. \A e \in Ends : (Over(s, e)' <=> Over(s, e)) /\ EndOf(s, e)' = EndOf(s, e)
  BY <1>2 DEF Over, EndOf
<1>10. ~ Over(s, x) /\ EndOf(s, x) = "open"
  BY <1>2, <1>6 DEF EndOf, Over
<1>11. InFlight(s, x)' = InFlight(s, x)
  BY <1>1, <1>2, <1>7, <1>8, <1>9, FlightKept DEF o
<1> DEFINE p == pending[s][o]
           c == Enc(outq[s][o])
           t == Tail(in)
<1>12. /\ p \in Seq(Unit) /\ c \in Seq(Unit)
       /\ InFlight(s, o) = PacketsOf(Way(frame[s][x], in, p, c))
  BY <1>1, <1>10, FlightNow DEF in
<1>13. InFlight(s, o)' = PacketsOf(Way(frame'[s][x], t, p, c))
  BY <1>1, <1>2, <1>7, <1>9, <1>10, FlightThen
<1>14. t \in Seq(Unit)
  BY <1>2, <1>5, HeadTailProperties
<1> HIDE DEF p, c
<1>15. Way(f, t, p, c) = Way(frame[s][x], in, p, c)
  BY <1>2, <1>5, <1>12, WayRead DEF f
<1> HIDE DEF t
<1>16. CASE ~ IsComplete(f)
  <2>1. InFlight(s, o)' = InFlight(s, o)
    BY <1>8, <1>12, <1>13, <1>15, <1>16
  <2> QED BY <1>1, <1>9, <1>11, <2>1 DEF Quiet
<1>17. CASE IsComplete(f)
  <2>1. PICK y \in Packets : f = FrameOf(y)
    BY <1>4, <1>17
  <2>2. /\ PacketsOf(Way(FrameOf(y), t, p, c)) # <<>>
        /\ PacketsOf(Way(<<>>, t, p, c)) = Tail(PacketsOf(Way(FrameOf(y), t, p, c)))
    BY <1>12, <1>14, WayTaken
  <2>3. InFlight(s, o) # <<>> /\ InFlight(s, o)' = Tail(InFlight(s, o))
    BY <1>8, <1>12, <1>13, <1>15, <1>17, <2>1, <2>2
  <2> QED BY <1>9, <1>10, <1>11, <2>3, StepTake DEF o
<1> QED BY <1>16, <1>17

(* What Greeted says of a session that a step does not touch.               *)
LEMMA GreetedSame ==
  ASSUME NEW s \in Sessions, Greeted(s), SameSession(s)
  PROVE  Greeted(s)'
BY DEF Greeted, SameSession, Early

(* Every step keeps the handshakes first.                                   *)
LEMMA StaysGreeted ==
  ASSUME IInv, Next, NEW s \in Sessions, Greeted(s)
  PROVE  Greeted(s)'
<1>1. Types /\ SInv(s) /\ Setup(s)
  BY DEF IInv, SInv
<1>2. ASSUME st'[s] = st[s], wire'[s] = wire[s], \A e \in Ends : s \in reg[e] => s \in reg'[e]
      PROVE  Greeted(s)'
  BY <1>2 DEF Greeted, Early
<1>3. CASE BackoffEnds \/ ConnectFails
  BY <1>2, <1>3 DEF BackoffEnds, ConnectFails
<1>4. ASSUME NEW r \in Sessions, Connect(r) PROVE Greeted(s)'
  <2>1. CASE r # s
    BY <1>4, <2>1, ConnectIsNew, GreetedSame
  <2>2. CASE r = s
    <3>1. st[s]["I"] = "none" /\ st[s]["L"] = "none"
      BY <1>1, <1>4, <2>2, ConnectIsNew DEF Setup
    <3>2. /\ st'[s]["I"] = "hello" /\ st'[s]["L"] = "none"
          /\ wire'[s]["I"] = <<Hello(key)>> /\ wire'[s]["L"] = wire[s]["L"]
      BY <1>1, <1>4, <2>2, <3>1, EndsAre DEF Connect, Types
    <3>3. Head(wire'[s]["I"]).unit = "hello"
      BY <3>2 DEF Hello
    <3>4. wire[s]["L"] = <<>>
      BY <1>1, <3>1 DEF Setup, Early
    <3> QED BY <3>2, <3>3, <3>4 DEF Greeted, Ends
  <2> QED BY <2>1, <2>2
<1>5. ASSUME NEW e \in Ends, Clean(e) PROVE Greeted(s)'
  <2>1. reg' = [reg EXCEPT ![e] = {r \in reg[e] : ~ Over(r, e)}] /\ st' = st /\ wire' = wire
    BY <1>1, <1>5 DEF Clean, Types
  <2>2. \A x \in Ends : st[s][x] = "up" /\ s \in reg[x] => s \in reg'[x]
    BY <1>1, <2>1 DEF Types, Over
  <2> QED BY <2>1, <2>2 DEF Greeted, Early
<1>6. ASSUME NEW r \in Sessions, Accept(r) PROVE Greeted(s)'
  <2>1. /\ st[r]["L"] = "none" /\ st' = [st EXCEPT ![r]["L"] = "hello"]
        /\ wire' = wire /\ reg' = reg
    BY <1>6 DEF Accept
  <2>2. \A x \in Ends : (Early(s, x)' <=> Early(s, x)) /\ (st'[s][x] = "up" => st[s][x] = "up")
    BY <1>1, <2>1 DEF Types, Early, Ends
  <2> QED BY <2>1, <2>2, OtherEnd DEF Greeted
<1>7. ASSUME NEW r \in Sessions, Cut(r) PROVE Greeted(s)'
  BY <1>2, <1>7 DEF Cut
<1>8. ASSUME NEW r \in Sessions, NEW e \in Ends, NEW p \in Packets, Enqueue(r, e, p)
      PROVE  Greeted(s)'
  BY <1>2, <1>8 DEF Enqueue
<1>9. ASSUME NEW r \in Sessions, NEW x \in Ends, Task(r, x) \/ Reset(r, x)
      PROVE  Greeted(s)'
  <2>1. CASE r # s
    BY <1>9, <2>1, TaskOnly, GreetedSame DEF Only
  <2> DEFINE o == Other(x)
  <2>2. o \in Ends /\ o # x /\ Other(o) = x /\ \A e \in Ends : e = x \/ e = o
    BY OtherEnd
  <2>3. ASSUME Alive(s, x), Finish(s, x) PROVE Greeted(s)'
    <3>1. /\ st'[s][x] = "over" /\ st'[s][o] = st[s][o] /\ reg'[o] = reg[o]
          /\ wire'[s][x] = wire[s][x] /\ wire'[s][o] = <<>>
      BY <1>1, <2>3, FinishEffect
    <3> HIDE DEF o
    <3>2. ~ (Early(s, x)' \/ st'[s][x] = "up" \/ wire'[s][o] # <<>>)
      BY <3>1 DEF Early
    <3>3. Early(s, o)' <=> Early(s, o)
      BY <3>1 DEF Early
    <3> QED BY <2>2, <3>1, <3>2, <3>3 DEF Greeted, o
  <2>4. ASSUME ReadHello(s, x), KeyMatches(x, Head(wire[s][o]).key) PROVE Greeted(s)'
    <3>1. st[s][x] = "hello" /\ st' = [st EXCEPT ![s][x] = "up"] /\ reg' = [reg EXCEPT ![x] = @ \cup {s}]
      BY <2>4 DEF ReadHello
    <3> HIDE DEF o
    <3>2. st'[s][x] = "up" /\ st'[s][o] = st[s][o] /\ s \in reg'[x] /\ reg'[o] = reg[o]
      BY <1>1, <2>2, <3>1 DEF Types
    <3>3. CASE x = "I"
      <4>1. wire' = [wire EXCEPT ![s]["L"] = Tail(wire[s]["L"])] /\ o = "L"
        BY <2>4, <3>3, EndsAre DEF ReadHello, o
      <4>2. wire'[s][x] = wire[s][x]
        BY <1>1, <3>3, <4>1, EndsAre DEF Types
      <4>3. (Early(s, o)' <=> Early(s, o)) /\ ~ Early(s, x)'
        BY <3>2 DEF Early
      <4> QED BY <2>2, <3>2, <4>2, <4>3 DEF Greeted, o
    <3>4. CASE x = "L"
      <4>1. wire[s]["L"] = <<>>
        BY <1>1, <3>1, <3>4 DEF Setup, Early
      <4>2. wire'[s]["L"] = Append(<<>>, Hello(Head(wire[s][o]).key))
        <5> DEFINE w == [e \in Ends |->
                           IF e = "L" THEN Append(wire[s]["L"], Hello(Head(wire[s][o]).key))
                                      ELSE Tail(wire[s][o])]
        <5>1. wire' = [wire EXCEPT ![s] = w]
          BY <2>4, <3>4, EndsAre DEF ReadHello, o
        <5>2. w["L"] = Append(<<>>, Hello(Head(wire[s][o]).key))
          BY <4>1, EndsAre
        <5> HIDE DEF w
        <5> QED BY <1>1, <5>1, <5>2 DEF Types
      <4>3. Head(wire'[s]["L"]).unit = "hello"
        BY <4>2 DEF Hello
      <4> QED BY <2>2, <3>2, <3>4, <4>3 DEF Greeted, Early
    <3> QED BY <3>3, <3>4 DEF Ends
  <2>5. ASSUME Encode(s, x), ~ TooLong(x, outq[s][x], BatchOf(x, outq[s][x])) PROVE Greeted(s)'
    BY <1>2, <2>5 DEF Encode
  <2>6. ASSUME Write(s, x) PROVE Greeted(s)'
    <3> DEFINE w == wire[s][x]
               u == Head(pending[s][x])
    <3>1. /\ pending[s][x] # <<>> /\ st' = st /\ reg' = reg
          /\ wire' = wire \/ wire' = [wire EXCEPT ![s][x] = Append(w, u)]
      BY <1>1, <2>6 DEF Write, Types
    <3>2. s \in reg[x] /\ Alive(s, x)
      BY <1>1, <3>1 DEF Setup
    <3>3. CASE wire' = wire
      BY <1>2, <3>1, <3>3
    <3>4. CASE wire' = [wire EXCEPT ![s][x] = Append(w, u)]
      <4> HIDE DEF o, w, u
      <4>1. wire'[s][x] = Append(w, u) /\ wire'[s][o] = wire[s][o]
        BY <1>1, <2>2, <3>4 DEF Types
      <4>2. ASSUME Early(s, o) PROVE Head(wire'[s][x]).unit = "hello"
        <5>1. w # <<>> /\ w \in Seq(Unit)
          BY <1>1, <2>2, <3>2, <4>2 DEF Setup, w, o, Types
        <5>2. Head(Append(w, u)) = Head(w)
          BY <5>1
        <5>3. Head(w).unit = "hello"
          BY <2>2, <4>2, <5>1 DEF Greeted, w, o
        <5> QED BY <4>1, <5>2, <5>3
      <4> QED BY <2>2, <3>1, <4>1, <4>2 DEF Greeted, Early, o
    <3> QED BY <3>1, <3>3, <3>4
  <2>7. ASSUME Read(s, x), ~ Finish(s, x) PROVE Greeted(s)'
    <3>1. /\ st[s][x] = "up" /\ st' = st /\ reg' = reg
          /\ wire' = [wire EXCEPT ![s][o] = Tail(@)]
      BY <2>7 DEF Read
    <3> HIDE DEF o
    <3>2. wire'[s][x] = wire[s][x]
      BY <1>1, <2>2, <3>1 DEF Types
    <3> QED BY <2>2, <3>1, <3>2 DEF Greeted, Early
  <2>8. CASE r = s
    BY <1>9, <2>3, <2>4, <2>5, <2>6, <2>7, <2>8, TaskOnly
  <2> QED BY <2>1, <2>8
<1> QED
  BY <1>3, <1>4, <1>5, <1>6, <1>7, <1>8, <1>9 DEF Next, Dialler

(* Every step of the link is, for each session, a step that Session allows. *)
LEMMA StepsRefine ==
  ASSUME IInv, IInv', Next, NEW s \in Sessions, Greeted(s)
  PROVE  Contract!Step(s) \/ Quiet(s)
<1>1. Types /\ Types' /\ SInv(s)
  BY DEF IInv
<1>2. ASSUME UNCHANGED <<st, reg, outq, pending, wire, frame>> PROVE Quiet(s)
  <2>1. ASSUME NEW e \in Ends PROVE EndOf(s, e)' = EndOf(s, e) /\ InFlight(s, e)' = InFlight(s, e)
    <3>1. \A x : Over(s, x)' <=> Over(s, x)
      BY <1>2 DEF Over
    <3>2. EndOf(s, e)' = EndOf(s, e)
      BY <1>2, <3>1 DEF EndOf
    <3>3. InFlight(s, e)' = InFlight(s, e)
      BY <1>2, <3>1, FlightKept
    <3> QED BY <3>2, <3>3
  <2> QED BY <2>1 DEF Quiet
<1>3. CASE BackoffEnds \/ ConnectFails
  BY <1>2, <1>3 DEF BackoffEnds, ConnectFails
<1>4. ASSUME NEW r \in Sessions, Connect(r) PROVE Contract!Step(s) \/ Quiet(s)
  <2>1. CASE r # s
    BY <1>4, <2>1, ConnectIsNew, OthersQuiet
  <2>2. CASE r = s
    BY <1>1, <1>4, <2>2, ConnectIsNew, ConnectRefines
  <2> QED BY <2>1, <2>2
<1>5. ASSUME NEW e \in Ends, Clean(e) PROVE Quiet(s)
  BY <1>1, <1>5, CleanRefines
<1>6. ASSUME NEW r \in Sessions, Accept(r) PROVE Quiet(s)
  <2>1. CASE r # s
    BY <1>6, <2>1, AcceptKeeps, OthersQuiet DEF IInv, Only
  <2>2. CASE r = s
    BY <1>1, <1>6, <2>2, AcceptRefines
  <2> QED BY <2>1, <2>2
<1>7. ASSUME NEW r \in Sessions, Cut(r) PROVE Quiet(s)
  BY <1>2, <1>7 DEF Cut
<1>8. ASSUME NEW r \in Sessions, NEW e \in Ends, NEW p \in Packets, Enqueue(r, e, p)
      PROVE  Contract!Step(s) \/ Quiet(s)
  <2>1. CASE r # s
    BY <1>8, <2>1, EnqueueKeeps, OthersQuiet DEF IInv, Only
  <2>2. CASE r = s
    BY <1>1, <1>8, <2>2, EnqueueRefines
  <2> QED BY <2>1, <2>2
<1>9. ASSUME NEW r \in Sessions, NEW x \in Ends, Task(r, x) \/ Reset(r, x)
      PROVE  Contract!Step(s) \/ Quiet(s)
  <2>1. CASE r # s
    BY <1>9, <2>1, TaskOnly, OthersQuiet DEF Only
  <2>2. ASSUME Alive(s, x), Finish(s, x) PROVE Contract!Step(s)
    BY <1>1, <2>2, FinishCloses
  <2>3. ASSUME ReadHello(s, x), KeyMatches(x, Head(wire[s][Other(x)]).key)
        PROVE  Contract!Step(s) \/ Quiet(s)
    BY <1>1, <2>3, ReadHelloRefines
  <2>4. ASSUME Encode(s, x), ~ TooLong(x, outq[s][x], BatchOf(x, outq[s][x])) PROVE Quiet(s)
    BY <1>1, <2>4, EncodeRefines
  <2>5. ASSUME Write(s, x) PROVE Quiet(s)
    BY <1>1, <2>5, WriteRefines
  <2>6. ASSUME Read(s, x), ~ Finish(s, x) PROVE Contract!Step(s) \/ Quiet(s)
    BY <1>1, <2>6, ReadRefines
  <2>7. CASE r = s
    BY <1>9, <2>2, <2>3, <2>4, <2>5, <2>6, <2>7, TaskOnly
  <2> QED BY <2>1, <2>7
<1> QED
  BY <1>3, <1>4, <1>5, <1>6, <1>7, <1>8, <1>9 DEF Next, Dialler

(* Each session of the link is what Session promises the mesh, for every    *)
(* mix of implementations, all packets, buffers and sockets, and whatever   *)
(* fails: packets in flight are read in order and once, a closing end loses *)
(* what was on its way to it and keeps a first part of what it had sent,    *)
(* and a closed end stays closed (legacy_tcp.rs, LegacyTcp.cs).             *)
THEOREM LinkIsASession == Spec => ImplementsSession
<1> DEFINE RInv == IInv /\ \A s \in Sessions : Greeted(s)
<1>1. Init => RInv
  <2> SUFFICES ASSUME Init PROVE RInv
    OBVIOUS
  <2>1. ASSUME NEW s \in Sessions PROVE Greeted(s)
    BY DEF Init, PerEnd, Greeted
  <2> QED BY <2>1, InitKeeps
<1>2. RInv /\ [Next]_vars => RInv'
  <2> SUFFICES ASSUME RInv, [Next]_vars PROVE RInv'
    OBVIOUS
  <2>1. IInv'
    BY NextKeeps
  <2>2. CASE Next
    BY <2>1, <2>2, StaysGreeted
  <2>3. CASE UNCHANGED vars
    BY <2>1, <2>3, GreetedSame DEF vars, SameSession
  <2> QED BY <2>2, <2>3
<1>3. Init => Contract!Init
  <2> SUFFICES ASSUME Init, NEW s \in Sessions, NEW e \in Ends PROVE InFlight(s, e) = <<>>
    BY DEF Contract!Init, Contract!Sides, Ends
  <2>1. Types
    BY InitKeeps DEF IInv
  <2>2. /\ frame[s][Other(e)] = <<>> /\ wire[s][e] = <<>> /\ pending[s][e] = <<>>
        /\ outq[s][e] = <<>> /\ ~ Over(s, Other(e))
    BY OtherEnd DEF Init, PerEnd, Over
  <2>3. InFlight(s, e) = PacketsOf(Way(<<>>, <<>>, <<>>, <<>>))
    BY <2>1, <2>2, FlightNow, EncEmpty
  <2>4. Way(<<>>, <<>>, <<>>, <<>>) = <<>>
    BY DEF Way
  <2> QED BY <2>3, <2>4, PacketsOfNothing
<1>4. RInv /\ RInv' /\ [Next]_vars => [Contract!Next]_(Contract!vars)
  <2> SUFFICES ASSUME RInv, RInv', [Next]_vars PROVE Contract!Next
    OBVIOUS
  <2>1. ASSUME NEW s \in Sessions PROVE Contract!Step(s) \/ Quiet(s)
    <3>1. CASE Next
      BY <3>1, StepsRefine
    <3>2. CASE UNCHANGED vars
      <4>1. SameSession(s)
        BY <3>2 DEF vars, SameSession
      <4> QED BY <4>1, OthersQuiet
    <3> QED BY <3>1, <3>2
  <2>2. ASSUME NEW s \in Sessions, Quiet(s)
        PROVE  /\ [e \in Ends |-> EndOf(s, e)]' = [e \in Ends |-> EndOf(s, e)]
               /\ [e \in Ends |-> InFlight(s, e)]' = [e \in Ends |-> InFlight(s, e)]
    BY <2>2 DEF Quiet
  <2> QED BY <2>1, <2>2 DEF Contract!Next
<1> QED BY <1>1, <1>2, <1>3, <1>4, PTL DEF Spec, ImplementsSession, Contract!Spec
=============================================================================
