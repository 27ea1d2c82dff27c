-------------------------- MODULE SeenPacketsProofs --------------------------
(***************************************************************************)
(* For every set of packets, every hash and every capacity, the set and the *)
(* queue of SeenPackets stay in step and answer as DuplicateFilter demands. *)
(***************************************************************************)
EXTENDS SeenPackets, TLAPS

(* The inductive invariant: the queue is a suffix of the history, the set   *)
(* is the queue's range, and no fingerprint is queued twice.                *)
IInv == TypeOK /\ SetMatchesQueue /\ QueueIsRecent

USE HashAssumption, CapacityAssumption

-----------------------------------------------------------------------------
(* What SeenPackets::add makes of the queue, index by index: unless it was  *)
(* full it grows at its end, otherwise every entry moves up by one place.   *)
LEMMA PopFrontShape ==
  ASSUME NEW q \in Seq(Hashes), NEW h \in Hashes, Len(q) <= Capacity
  PROVE  LET r == PopFront(Append(q, h)) IN
         /\ r \in Seq(Hashes)
         /\ Len(q) < Capacity =>
              /\ Len(r) = Len(q) + 1
              /\ \A i \in 1..Len(r) : r[i] = IF i = Len(r) THEN h ELSE q[i]
         /\ Len(q) = Capacity =>
              /\ Len(r) = Len(q)
              /\ \A i \in 1..Len(r) : r[i] = IF i = Len(r) THEN h ELSE q[i + 1]
<1> DEFINE a == Append(q, h)
<1>1. /\ a \in Seq(Hashes)
      /\ Len(a) = Len(q) + 1
      /\ \A i \in 1..Len(a) : a[i] = IF i = Len(a) THEN h ELSE q[i]
  OBVIOUS
<1>2. CASE Len(q) < Capacity
  <2>1. PopFront(a) = a
    BY <1>1, <1>2 DEF PopFront
  <2> QED BY <1>1, <1>2, <2>1
<1>3. CASE Len(q) = Capacity
  <2>1. PopFront(a) = Tail(a)
    BY <1>1, <1>3 DEF PopFront
  <2>2. /\ Tail(a) \in Seq(Hashes)
        /\ Len(Tail(a)) = Len(q)
        /\ \A i \in 1..Len(q) : Tail(a)[i] = a[i + 1]
    BY <1>1
  <2>3. \A i \in 1..Len(q) : Tail(a)[i] = IF i = Len(q) THEN h ELSE q[i + 1]
    <3> TAKE i \in 1..Len(q)
    <3>1. i + 1 \in 1..Len(a) /\ (i + 1 = Len(a) <=> i = Len(q))
      BY <1>1
    <3> QED BY <1>1, <2>2, <3>1
  <2>4. Len(q) \in Nat /\ ~(Len(q) < Capacity)
    BY <1>3
  <2> HIDE DEF a
  <2>5. PopFront(Append(q, h)) = Tail(a)
    BY <2>1 DEF a
  <2> QED BY <1>3, <2>2, <2>3, <2>4, <2>5
<1> QED BY <1>2, <1>3

(* The queue and the set after a new packet was added.                      *)
LEMMA AddNewPreserves ==
  ASSUME IInv, NEW p \in Packets, AddNew(p)
  PROVE  SetMatchesQueue' /\ QueueIsRecent' /\ TypeOK'
<1> DEFINE h == Hash[p]
           L == Len(deque)
<1>0. h \in Hashes /\ h \notin hashset
  BY DEF AddNew
<1>1. /\ deque \in Seq(Hashes) /\ L \in Nat /\ L <= Capacity
      /\ accepted \in Seq(Hashes)
  BY DEF IInv, TypeOK
<1>2. /\ accepted' \in Seq(Hashes)
      /\ Len(accepted') = Len(accepted) + 1
      /\ \A i \in 1..Len(accepted) : accepted'[i] = accepted[i]
      /\ accepted'[Len(accepted) + 1] = h
  BY <1>0, <1>1 DEF AddNew
<1>3. deque' = PopFront(Append(deque, h))
  BY DEF AddNew
<1>4. \A i \in 1..L : deque[i] # h
  BY <1>0 DEF IInv, SetMatchesQueue
<1>5. answer' \in Packets \X BOOLEAN
  BY DEF AddNew
<1>6. CASE L < Capacity
  <2>1. /\ deque' \in Seq(Hashes) /\ Len(deque') = L + 1
        /\ \A i \in 1..(L + 1) : deque'[i] = IF i = L + 1 THEN h ELSE deque[i]
    BY <1>0, <1>1, <1>3, <1>6, PopFrontShape
  <2>2. hashset' = hashset \cup {h}
    BY <1>0, <1>1, <1>6 DEF AddNew, ForgetFront
  <2>3. SetMatchesQueue'
    <3>1. hashset' = {deque'[i] : i \in 1..Len(deque')}
      <4>1. hashset = {deque[i] : i \in 1..L}
        BY DEF IInv, SetMatchesQueue
      <4>2. {deque'[i] : i \in 1..(L + 1)} = {deque[i] : i \in 1..L} \cup {h}
        <5>1. \A i \in 1..L : i \in 1..(L + 1) /\ deque'[i] = deque[i]
          BY <1>1, <2>1
        <5>2. L + 1 \in 1..(L + 1) /\ deque'[L + 1] = h
          BY <1>1, <2>1
        <5>3. \A i \in 1..(L + 1) : i \in 1..L \/ i = L + 1
          BY <1>1
        <5> QED BY <5>1, <5>2, <5>3
      <4> QED BY <2>1, <2>2, <4>1, <4>2
    <3>2. \A i, j \in 1..Len(deque') : deque'[i] = deque'[j] => i = j
      BY <1>1, <1>4, <2>1 DEF IInv, SetMatchesQueue
    <3> QED BY <3>1, <3>2 DEF SetMatchesQueue
  <2>4. QueueIsRecent'
    <3>1. L = Len(accepted)
      BY <1>1, <1>6 DEF IInv, QueueIsRecent
    <3>2. \A i \in 1..L : deque[i] = accepted[i]
      BY <1>1, <3>1 DEF IInv, QueueIsRecent
    <3>3. Len(deque') = Len(accepted')
      BY <1>2, <2>1, <3>1
    <3>4. Len(deque') <= Capacity
      BY <1>1, <1>6, <2>1
    <3>5. ASSUME NEW i \in 1..Len(deque') PROVE deque'[i] = accepted'[i]
      <4>1. CASE i = L + 1
        BY <1>2, <2>1, <3>1, <4>1
      <4>2. CASE i # L + 1
        <5>1. i \in 1..L /\ deque'[i] = deque[i]
          BY <1>1, <2>1, <4>2
        <5> QED BY <1>2, <3>1, <3>2, <5>1
      <4> QED BY <4>1, <4>2
    <3>6. Len(accepted') \in Nat
      BY <1>2
    <3>7. ASSUME NEW i \in 1..Len(deque')
          PROVE  Len(accepted') - Len(deque') + i = i
      BY <3>3, <3>6
    <3> QED BY <3>3, <3>4, <3>5, <3>6, <3>7 DEF QueueIsRecent
  <2>5. TypeOK'
    BY <1>0, <1>1, <1>2, <1>5, <1>6, <2>1, <2>2 DEF TypeOK, IInv
  <2> QED BY <2>3, <2>4, <2>5
<1>7. CASE L = Capacity
  <2>1. /\ deque' \in Seq(Hashes) /\ Len(deque') = L
        /\ \A i \in 1..L : deque'[i] = IF i = L THEN h ELSE deque[i + 1]
    <3> DEFINE r == PopFront(Append(deque, h))
    <3>1. /\ r \in Seq(Hashes) /\ Len(r) = L
          /\ \A i \in 1..Len(r) : r[i] = IF i = Len(r) THEN h ELSE deque[i + 1]
      BY <1>0, <1>1, <1>7, PopFrontShape
    <3> HIDE DEF r
    <3>2. deque' = r
      BY <1>3 DEF r
    <3> QED BY <3>1, <3>2
  <2>2. hashset' = (hashset \cup {h}) \ {IF L = 0 THEN h ELSE deque[1]}
    <3>1. Head(Append(deque, h)) = IF L = 0 THEN h ELSE deque[1]
      BY <1>0, <1>1
    <3> QED BY <1>0, <1>1, <1>7, <3>1 DEF AddNew, ForgetFront
  <2>3. SetMatchesQueue'
    <3>1. hashset' = {deque'[i] : i \in 1..Len(deque')}
      <4>0. hashset = {deque[i] : i \in 1..L}
        BY DEF IInv, SetMatchesQueue
      <4>1. CASE L = 0
        BY <1>1, <2>1, <2>2, <4>0, <4>1
      <4>2. CASE L > 0
        <5>1. hashset' = (hashset \cup {h}) \ {deque[1]}
          BY <1>1, <2>2, <4>2
        <5>2. \A x \in hashset' : \E i \in 1..L : x = deque'[i]
          <6> TAKE x \in hashset'
          <6>1. CASE x = h
            BY <1>1, <2>1, <4>2, <6>1
          <6>2. CASE x # h
            <7>1. PICK j \in 1..L : x = deque[j]
              BY <4>0, <5>1, <6>2
            <7>2. j # 1 /\ j - 1 \in 1..L /\ j - 1 # L
              BY <1>1, <5>1, <7>1
            <7>3. deque'[j - 1] = deque[j - 1 + 1]
              BY <2>1, <7>2
            <7> QED BY <7>1, <7>2, <7>3
          <6> QED BY <6>1, <6>2
        <5>3. \A i \in 1..L : deque'[i] \in hashset'
          <6> TAKE i \in 1..L
          <6>1. CASE i = L
            <7>1. deque'[i] = h /\ h # deque[1]
              BY <1>1, <1>4, <2>1, <4>2, <6>1
            <7> QED BY <5>1, <7>1
          <6>2. CASE i # L
            <7>1. i + 1 \in 1..L /\ 1 \in 1..L /\ i + 1 # 1
              BY <1>1, <6>2
            <7>2. deque'[i] = deque[i + 1] /\ deque[i + 1] # deque[1]
              BY <2>1, <6>2, <7>1 DEF IInv, SetMatchesQueue
            <7> QED BY <4>0, <5>1, <7>1, <7>2
          <6> QED BY <6>1, <6>2
        <5> QED BY <2>1, <5>2, <5>3
      <4> QED BY <1>1, <4>1, <4>2
    <3>2. ASSUME NEW i \in 1..L, NEW j \in 1..L, deque'[i] = deque'[j]
          PROVE  i = j
      <4>1. CASE i = L /\ j = L
        BY <4>1
      <4>2. CASE i = L /\ j # L
        <5>1. deque'[i] = h /\ deque'[j] = deque[j + 1] /\ j + 1 \in 1..L
          BY <1>1, <2>1, <4>2
        <5> QED BY <1>4, <3>2, <5>1
      <4>3. CASE i # L /\ j = L
        <5>1. deque'[j] = h /\ deque'[i] = deque[i + 1] /\ i + 1 \in 1..L
          BY <1>1, <2>1, <4>3
        <5> QED BY <1>4, <3>2, <5>1
      <4>4. CASE i # L /\ j # L
        <5>1. i + 1 \in 1..L /\ j + 1 \in 1..L /\ deque[i + 1] = deque[j + 1]
          BY <1>1, <2>1, <3>2, <4>4
        <5>2. i + 1 = j + 1
          BY <5>1 DEF IInv, SetMatchesQueue
        <5> QED BY <5>2
      <4> QED BY <4>1, <4>2, <4>3, <4>4
    <3> QED BY <2>1, <3>1, <3>2 DEF SetMatchesQueue
  <2>4. QueueIsRecent'
    <3>1. /\ L <= Len(accepted)
          /\ \A i \in 1..L : deque[i] = accepted[Len(accepted) - L + i]
      BY <1>1, <1>7 DEF IInv, QueueIsRecent
    <3>2. ASSUME NEW i \in 1..L
          PROVE  deque'[i] = accepted'[Len(accepted') - L + i]
      <4>1. CASE i = L
        BY <1>1, <1>2, <2>1, <4>1
      <4>2. CASE i # L
        <5>1. /\ i + 1 \in 1..L
              /\ Len(accepted) - L + (i + 1) = Len(accepted') - L + i
              /\ Len(accepted) - L + (i + 1) \in 1..Len(accepted)
          BY <1>1, <1>2, <3>1, <4>2
        <5> QED BY <1>2, <2>1, <3>1, <4>2, <5>1
      <4> QED BY <4>1, <4>2
    <3>3. Len(deque') <= Len(accepted') /\ Len(deque') = Capacity
      BY <1>1, <1>2, <1>7, <2>1, <3>1
    <3> QED BY <2>1, <3>2, <3>3 DEF QueueIsRecent
  <2>5. TypeOK'
    BY <1>0, <1>1, <1>2, <1>5, <1>7, <2>1, <2>2 DEF TypeOK, IInv
  <2> QED BY <2>3, <2>4, <2>5
<1> QED BY <1>1, <1>6, <1>7

LEMMA InitIInv == Init => IInv
  BY DEF Init, IInv, TypeOK, SetMatchesQueue, QueueIsRecent

LEMMA NextIInv == IInv /\ [Next]_vars => IInv'
<1> SUFFICES ASSUME IInv, [Next]_vars PROVE IInv'
  OBVIOUS
<1>1. ASSUME NEW p \in Packets, AddSeen(p) PROVE IInv'
  <2>1. TypeOK' /\ QueueIsRecent'
    BY <1>1 DEF AddSeen, IInv, TypeOK, QueueIsRecent
  <2>2. SetMatchesQueue'
    BY <1>1 DEF AddSeen, IInv, SetMatchesQueue
  <2> QED BY <2>1, <2>2 DEF IInv
<1>2. ASSUME NEW p \in Packets, AddNew(p) PROVE IInv'
  BY <1>2, AddNewPreserves DEF IInv
<1>3. CASE UNCHANGED vars
  <2>1. TypeOK' /\ QueueIsRecent'
    BY <1>3 DEF vars, IInv, TypeOK, QueueIsRecent
  <2>2. SetMatchesQueue'
    BY <1>3 DEF vars, IInv, SetMatchesQueue
  <2> QED BY <2>1, <2>2 DEF IInv
<1> QED BY <1>1, <1>2, <1>3 DEF Next

(* The hash set and the queue of SeenPackets never drift apart, whatever    *)
(* the hash, the capacity (0 included) and the order of the packets.        *)
THEOREM SetMatchesQueueAlways == Spec => []SetMatchesQueue
<1>1. IInv => SetMatchesQueue
  BY DEF IInv
<1> QED BY InitIInv, NextIInv, <1>1, PTL DEF Spec

(* The queue is always exactly the last Capacity accepted fingerprints.     *)
THEOREM QueueIsRecentAlways == Spec => []QueueIsRecent
<1>1. IInv => QueueIsRecent
  BY DEF IInv
<1> QED BY InitIInv, NextIInv, <1>1, PTL DEF Spec

(* The fingerprints DuplicateFilter remembers are those of the hash set.    *)
LEMMA WindowIsHashset == IInv => Filter!Window = hashset
<1> SUFFICES ASSUME IInv PROVE Filter!Window = hashset
  OBVIOUS
<1> DEFINE L == Len(deque)
           N == Len(accepted)
<1>1. /\ deque \in Seq(Hashes) /\ L \in Nat /\ L <= Capacity
      /\ accepted \in Seq(Hashes) /\ N \in Nat
      /\ L <= N /\ (L = N \/ L = Capacity)
      /\ \A i \in 1..L : deque[i] = accepted[N - L + i]
      /\ hashset = {deque[i] : i \in 1..L}
  BY DEF IInv, TypeOK, SetMatchesQueue, QueueIsRecent
<1>2. ASSUME NEW j \in 1..N, j + Capacity > N
      PROVE  accepted[j] \in hashset
  <2>1. j - (N - L) \in 1..L /\ N - L + (j - (N - L)) = j
    BY <1>1, <1>2
  <2> QED BY <1>1, <2>1
<1>3. ASSUME NEW i \in 1..L
      PROVE  N - L + i \in 1..N /\ (N - L + i) + Capacity > N
  BY <1>1, <1>3
<1>4. Filter!Window = {accepted[j] : j \in {k \in 1..N : k + Capacity > N}}
  BY DEF Filter!Window
<1> HIDE DEF L, N
<1>5. ASSUME NEW h \in hashset PROVE h \in Filter!Window
  <2>1. PICK i \in 1..L : h = deque[i]
    BY <1>1
  <2>2. h = accepted[N - L + i]
    BY <1>1, <2>1
  <2>3. N - L + i \in {k \in 1..N : k + Capacity > N}
    BY <1>3
  <2> QED BY <1>4, <2>2, <2>3
<1>6. ASSUME NEW h \in Filter!Window PROVE h \in hashset
  <2>1. PICK j \in {k \in 1..N : k + Capacity > N} : h = accepted[j]
    BY <1>4
  <2> QED BY <1>2, <2>1
<1> QED BY <1>5, <1>6

(* Both SeenPackets classes implement the duplicate filter: a packet is     *)
(* refused exactly when its fingerprint is among the last Capacity          *)
(* accepted ones.                                                           *)
THEOREM Implements == Spec => ImplementsDuplicateFilter
<1>1. Init => Filter!Init
  BY DEF Init, Filter!Init
<1>2. IInv /\ [Next]_vars => [Filter!Next]_<<accepted, answer>>
  <2> SUFFICES ASSUME IInv, [Next]_vars
               PROVE  [Filter!Next]_<<accepted, answer>>
    OBVIOUS
  <2>0. Filter!Window = hashset
    BY WindowIsHashset
  <2>1. ASSUME NEW p \in Packets, AddSeen(p) PROVE Filter!Refuse(p)
    BY <2>0, <2>1 DEF AddSeen, Filter!Refuse
  <2>2. ASSUME NEW p \in Packets, AddNew(p) PROVE Filter!Accept(p)
    BY <2>0, <2>2 DEF AddNew, Filter!Accept
  <2>3. CASE UNCHANGED vars
    BY <2>3 DEF vars
  <2> QED BY <2>1, <2>2, <2>3 DEF Next, Filter!Next
<1> QED BY <1>1, <1>2, InitIInv, NextIInv, PTL
        DEF Spec, ImplementsDuplicateFilter, Filter!Spec
=============================================================================
