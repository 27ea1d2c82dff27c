---------------------------- MODULE CipherProofs ----------------------------
(***************************************************************************)
(* Proofs about Gimli and Cipher, for every key, every message and every    *)
(* set of piece sizes: the two implementations' permutations, absorbing and *)
(* tags are equal, and the .NET end decrypts what the Rust end encrypted.   *)
(*                                                                          *)
(* A round of gimli.rs goes column by column, a round of Crypto.cs row by   *)
(* row: the first part shows that each word of the state comes out the      *)
(* same.  What is built from rounds is a recursive function in both; the    *)
(* bodies of the two definitions are then equal for every function that     *)
(* stands for the recursive call, and equal bodies define equal functions.  *)
(*                                                                          *)
(* The invariant says that there is one keystream and that each end is at   *)
(* its place in it, the Rust end after the bytes that were sent, the .NET   *)
(* end after the bytes that were read; the wire holds the bytes in between. *)
(***************************************************************************)
EXTENDS Cipher, SequenceTheorems, FiniteSetTheorems, TLAPS

-----------------------------------------------------------------------------
(* Induction                                                                *)

(* A nonempty set of natural numbers has a least element.                   *)
LEMMA LeastNumber ==
  ASSUME NEW T \in SUBSET Nat, T # {}
  PROVE  \E m \in T : \A k \in T : m <= k
<1> DEFINE U == {0 .. (n - 1) : n \in T}
           F == FiniteSubsetsOf(Nat)
<1>1. U \subseteq F /\ U # {}
  <2>1. ASSUME NEW n \in T
        PROVE  0 .. (n - 1) \in F
    <3>1. IsFiniteSet(0 .. (n - 1))
      <4>1. n - 1 \in Int /\ 0 \in Int
        OBVIOUS
      <4> QED BY <4>1, FS_Interval
    <3> QED BY <3>1 DEF FiniteSubsetsOf
  <2> QED BY <2>1
<1>2. IsWellFoundedOn(StrictSubsetOrdering(Nat), F)
  BY FS_StrictSubsetOrderingWellFounded
<1>3. PICK x \in U : \A y \in U : ~ (<<y, x>> \in StrictSubsetOrdering(Nat))
  <2> HIDE DEF U, F
  <2> QED BY <1>1, <1>2, WFMin
<1>4. PICK m \in T : x = 0 .. (m - 1)
  OBVIOUS
<1>5. ASSUME NEW k \in T, k < m PROVE FALSE
  <2>1. 0 .. (k - 1) \in U
    OBVIOUS
  <2>2. 0 .. (k - 1) \subseteq x /\ k \in x /\ k \notin 0 .. (k - 1)
    BY <1>4, <1>5
  <2>3. <<0 .. (k - 1), x>> \in StrictSubsetOrdering(Nat)
    BY <2>2, <1>4 DEF StrictSubsetOrdering
  <2> QED BY <2>1, <2>3, <1>3
<1> QED BY <1>4, <1>5

(* Induction up to n, for a set of numbers.                                 *)
LEMMA UpTo ==
  ASSUME NEW n \in Nat, NEW T, 0 \in T, \A k \in 0 .. n : k \in T => k + 1 \in T
  PROVE  \A k \in 0 .. n : k \in T
<1> DEFINE W == {k \in 0 .. n : k \notin T}
<1> SUFFICES ASSUME W # {} PROVE FALSE
  OBVIOUS
<1>1. PICK m \in W : \A k \in W : m <= k
  <2>1. W \in SUBSET Nat
    OBVIOUS
  <2> HIDE DEF W
  <2> QED BY <2>1, LeastNumber
<1>2. m - 1 \in 0 .. n /\ m - 1 \notin W
  BY <1>1
<1> QED BY <1>1, <1>2

-----------------------------------------------------------------------------
(* The permutation                                                          *)

(* What a round makes of the three words of a column.                       *)
Top(x, y, z) == Xor(z, Xor(y, Shl(x \cap y, 3)))
Middle(x, y, z) == Xor(y, Xor(x, Shl(x \cup z, 1)))
Bottom(x, y, z) == Xor(x, Xor(Shl(z, 1), Shl(y \cap z, 2)))

(* The words of column i before and after.                                  *)
NewTop(s, i) == Top(Rotl(s[i], 24), Rotl(s[i + 4], 9), s[i + 8])
NewMiddle(s, i) == Middle(Rotl(s[i], 24), Rotl(s[i + 4], 9), s[i + 8])
NewBottom(s, i) == Bottom(Rotl(s[i], 24), Rotl(s[i + 4], 9), s[i + 8])

(* A state of twelve words, whatever is in them.                            *)
Wide(s) == s = [i \in 1..12 |-> s[i]]

(* A column at a time: only its own words change.                           *)
LEMMA ColumnIs ==
  ASSUME NEW s, Wide(s), NEW c \in 1..4
  PROVE  /\ Wide(Column(s, c))
         /\ Column(s, c)[c] = NewTop(s, c)
         /\ Column(s, c)[c + 4] = NewMiddle(s, c)
         /\ Column(s, c)[c + 8] = NewBottom(s, c)
         /\ \A i \in 1..12 : i # c /\ i # c + 4 /\ i # c + 8 => Column(s, c)[i] = s[i]
<1> DEFINE a == NewTop(s, c)
           b == NewMiddle(s, c)
           d == NewBottom(s, c)
<1>1. Column(s, c) = [s EXCEPT ![c + 8] = d, ![c + 4] = b, ![c] = a]
  BY DEF Column, NewTop, NewMiddle, NewBottom, Top, Middle, Bottom
<1>2. c \in 1..12 /\ c + 4 \in 1..12 /\ c + 8 \in 1..12 /\ c # c + 4 /\ c # c + 8 /\ c + 4 # c + 8
  OBVIOUS
<1> HIDE DEF a, b, d
<1>3. DOMAIN s = 1..12
  BY DEF Wide
<1> DEFINE r == [s EXCEPT ![c + 8] = d, ![c + 4] = b, ![c] = a]
<1>4. /\ r = [i \in 1..12 |-> r[i]] /\ r[c] = a /\ r[c + 4] = b /\ r[c + 8] = d
      /\ \A i \in 1..12 : i # c /\ i # c + 4 /\ i # c + 8 => r[i] = s[i]
  BY <1>2, <1>3
<1> QED BY <1>1, <1>4 DEF Wide, a, b, d

(* After all four columns, every word is the new one of its own column.     *)
LEMMA ColumnsAre ==
  ASSUME NEW s \in State
  PROVE  LET cols == Column(Column(Column(Column(s, 1), 2), 3), 4)
         IN  /\ Wide(cols)
             /\ \A i \in 1..4 : /\ cols[i] = NewTop(s, i)
                                /\ cols[i + 4] = NewMiddle(s, i)
                                /\ cols[i + 8] = NewBottom(s, i)
<1> DEFINE s1 == Column(s, 1)
           s2 == Column(s1, 2)
           s3 == Column(s2, 3)
           s4 == Column(s3, 4)
<1>0. Wide(s)
  BY DEF State, Wide
<1>1. /\ Wide(s1) /\ s1[1] = NewTop(s, 1) /\ s1[5] = NewMiddle(s, 1) /\ s1[9] = NewBottom(s, 1)
      /\ \A i \in 1..12 : i # 1 /\ i # 5 /\ i # 9 => s1[i] = s[i]
  <2>1. 1 \in 1..4 /\ 1 + 4 = 5 /\ 1 + 8 = 9
    OBVIOUS
  <2> QED BY <1>0, <2>1, ColumnIs
<1> HIDE DEF s1
<1>2. /\ Wide(s2) /\ s2[2] = NewTop(s1, 2) /\ s2[6] = NewMiddle(s1, 2) /\ s2[10] = NewBottom(s1, 2)
      /\ \A i \in 1..12 : i # 2 /\ i # 6 /\ i # 10 => s2[i] = s1[i]
  <2>1. 2 \in 1..4 /\ 2 + 4 = 6 /\ 2 + 8 = 10
    OBVIOUS
  <2> QED BY <1>1, <2>1, ColumnIs
<1> HIDE DEF s2
<1>3. /\ Wide(s3) /\ s3[3] = NewTop(s2, 3) /\ s3[7] = NewMiddle(s2, 3) /\ s3[11] = NewBottom(s2, 3)
      /\ \A i \in 1..12 : i # 3 /\ i # 7 /\ i # 11 => s3[i] = s2[i]
  <2>1. 3 \in 1..4 /\ 3 + 4 = 7 /\ 3 + 8 = 11
    OBVIOUS
  <2> QED BY <1>2, <2>1, ColumnIs
<1> HIDE DEF s3
<1>4. /\ Wide(s4) /\ s4[4] = NewTop(s3, 4) /\ s4[8] = NewMiddle(s3, 4) /\ s4[12] = NewBottom(s3, 4)
      /\ \A i \in 1..12 : i # 4 /\ i # 8 /\ i # 12 => s4[i] = s3[i]
  <2>1. 4 \in 1..4 /\ 4 + 4 = 8 /\ 4 + 8 = 12
    OBVIOUS
  <2> QED BY <1>3, <2>1, ColumnIs
<1> HIDE DEF s4
<1>5. s1[2] = s[2] /\ s1[6] = s[6] /\ s1[10] = s[10]
  BY <1>1
<1>6. s2[3] = s[3] /\ s2[7] = s[7] /\ s2[11] = s[11]
  BY <1>1, <1>2
<1>7. s3[4] = s[4] /\ s3[8] = s[8] /\ s3[12] = s[12]
  BY <1>1, <1>2, <1>3
<1>8. /\ NewTop(s1, 2) = NewTop(s, 2) /\ NewMiddle(s1, 2) = NewMiddle(s, 2)
      /\ NewBottom(s1, 2) = NewBottom(s, 2)
  BY <1>5 DEF NewTop, NewMiddle, NewBottom
<1>9. /\ NewTop(s2, 3) = NewTop(s, 3) /\ NewMiddle(s2, 3) = NewMiddle(s, 3)
      /\ NewBottom(s2, 3) = NewBottom(s, 3)
  BY <1>6 DEF NewTop, NewMiddle, NewBottom
<1>10. /\ NewTop(s3, 4) = NewTop(s, 4) /\ NewMiddle(s3, 4) = NewMiddle(s, 4)
       /\ NewBottom(s3, 4) = NewBottom(s, 4)
  BY <1>7 DEF NewTop, NewMiddle, NewBottom
<1>11. s4[1] = NewTop(s, 1) /\ s4[5] = NewMiddle(s, 1) /\ s4[9] = NewBottom(s, 1)
  BY <1>1, <1>2, <1>3, <1>4
<1>12. s4[2] = NewTop(s, 2) /\ s4[6] = NewMiddle(s, 2) /\ s4[10] = NewBottom(s, 2)
  BY <1>2, <1>3, <1>4, <1>8
<1>13. s4[3] = NewTop(s, 3) /\ s4[7] = NewMiddle(s, 3) /\ s4[11] = NewBottom(s, 3)
  BY <1>3, <1>4, <1>9
<1>14. s4[4] = NewTop(s, 4) /\ s4[8] = NewMiddle(s, 4) /\ s4[12] = NewBottom(s, 4)
  BY <1>4, <1>10
<1>15. ASSUME NEW i \in 1..4
       PROVE  s4[i] = NewTop(s, i) /\ s4[i + 4] = NewMiddle(s, i) /\ s4[i + 8] = NewBottom(s, i)
  <2>1. i = 1 \/ i = 2 \/ i = 3 \/ i = 4
    OBVIOUS
  <2> QED BY <2>1, <1>11, <1>12, <1>13, <1>14
<1> QED BY <1>4, <1>15 DEF s1, s2, s3, s4

(* Three rows of four words, one after the other.                           *)
LEMMA RowsJoined ==
  ASSUME NEW a, NEW b, NEW c, a = [i \in 1..4 |-> a[i]], b = [i \in 1..4 |-> b[i]],
         c = [i \in 1..4 |-> c[i]]
  PROVE  /\ Wide((a \o b) \o c)
         /\ \A i \in 1..4 : /\ ((a \o b) \o c)[i] = a[i]
                            /\ ((a \o b) \o c)[i + 4] = b[i]
                            /\ ((a \o b) \o c)[i + 8] = c[i]
<1> DEFINE T == {a[i] : i \in 1..4} \cup {b[i] : i \in 1..4} \cup {c[i] : i \in 1..4}
<1>1. a \in [1..4 -> T] /\ b \in [1..4 -> T] /\ c \in [1..4 -> T]
  <2>1. (\A i \in 1..4 : a[i] \in T) /\ (\A i \in 1..4 : b[i] \in T) /\ (\A i \in 1..4 : c[i] \in T)
    OBVIOUS
  <2> HIDE DEF T
  <2> QED BY <2>1
<1> HIDE DEF T
<1>2. /\ a \in Seq(T) /\ b \in Seq(T) /\ c \in Seq(T)
      /\ Len(a) = 4 /\ Len(b) = 4 /\ Len(c) = 4
  BY <1>1
<1> DEFINE d == a \o b
<1>3. d \in Seq(T) /\ Len(d) = 8 /\ \A i \in 1..4 : d[i] = a[i] /\ d[i + 4] = b[i]
  BY <1>2
<1> HIDE DEF d
<1> DEFINE e == d \o c
<1>4. e \in Seq(T) /\ Len(e) = 12 /\ \A i \in 1..12 : e[i] = IF i <= 8 THEN d[i] ELSE c[i - 8]
  <2>1. /\ e \in Seq(T) /\ Len(e) = Len(d) + Len(c)
        /\ \A i \in 1..Len(d) + Len(c) : e[i] = IF i <= Len(d) THEN d[i] ELSE c[i - Len(d)]
    BY <1>2, <1>3, ConcatProperties
  <2>2. Len(d) = 8 /\ Len(c) = 4 /\ 8 + 4 = 12
    BY <1>2, <1>3
  <2> HIDE DEF e
  <2> QED BY <2>1, <2>2
<1>5. \A i \in 1..4 : e[i + 8] = c[i]
  <2>1. \A i \in 1..4 : i + 8 \in 1..12 /\ ~ (i + 8 <= 8) /\ (i + 8) - 8 = i
    OBVIOUS
  <2> HIDE DEF e
  <2> QED BY <1>4, <2>1
<1> HIDE DEF e
<1>6. Wide(e)
  BY <1>4 DEF Wide
<1>7. \A i \in 1..4 : e[i] = a[i] /\ e[i + 4] = b[i]
  <2>1. \A i \in 1..4 : i \in 1..12 /\ i <= 8 /\ i + 4 \in 1..12 /\ i + 4 <= 8
    OBVIOUS
  <2> QED BY <1>3, <1>4, <2>1
<1> QED BY <1>5, <1>6, <1>7 DEF d, e

(* The new top row, before the swaps.                                       *)
Row(s) == [i \in 1..4 |-> NewTop(s, i)]

(* The swaps of a round and its constant.                                   *)
Swapped(a, round) ==
  CASE round % 4 = 0 -> <<Xor(a[2], RoundConstant \cup Word(round)), a[1], a[4], a[3]>>
    [] round % 4 = 2 -> <<a[3], a[4], a[1], a[2]>>
    [] OTHER -> a

(* The .NET round, word by word.                                            *)
LEMMA DotNetRoundIs ==
  ASSUME NEW s \in State, NEW round \in 1..24
  PROVE  /\ Wide(DotNetRound(s, round))
         /\ \A i \in 1..4 : /\ DotNetRound(s, round)[i] = Swapped(Row(s), round)[i]
                            /\ DotNetRound(s, round)[i + 4] = NewMiddle(s, i)
                            /\ DotNetRound(s, round)[i + 8] = NewBottom(s, i)
<1> DEFINE x == [i \in 1..4 |-> Rotl(s[i], 24)]
           y == [i \in 1..4 |-> Rotl(s[4 + i], 9)]
           z == SubSeq(s, 9, 12)
           a == [i \in 1..4 |-> Top(x[i], y[i], z[i])]
           b == [i \in 1..4 |-> Middle(x[i], y[i], z[i])]
           c == [i \in 1..4 |-> Bottom(x[i], y[i], z[i])]
           t == Swapped(a, round)
<1>1. DotNetRound(s, round) = (t \o b) \o c
  BY DEF DotNetRound, Swapped, Top, Middle, Bottom
<1>2. \A i \in 1..4 : z[i] = s[i + 8]
  <2>1. s \in Seq(SUBSET Bits) /\ Len(s) = 12
    <3> DEFINE T == SUBSET Bits
    <3>1. s \in [1..12 -> T]
      BY DEF State
    <3> HIDE DEF T
    <3>2. s \in Seq(T) /\ DOMAIN s = 1..12
      BY <3>1, SeqDef
    <3>3. Len(s) = 12
      BY <3>2, LenProperties
    <3> QED BY <3>2, <3>3 DEF T
  <2> QED BY <2>1
<1> HIDE DEF z
<1>3. \A i \in 1..4 : x[i] = Rotl(s[i], 24) /\ y[i] = Rotl(s[i + 4], 9) /\ z[i] = s[i + 8]
  <2>1. \A i \in 1..4 : 4 + i = i + 4
    OBVIOUS
  <2> QED BY <1>2, <2>1
<1> HIDE DEF x, y
<1>4. \A i \in 1..4 : a[i] = NewTop(s, i) /\ b[i] = NewMiddle(s, i) /\ c[i] = NewBottom(s, i)
  BY <1>3 DEF NewTop, NewMiddle, NewBottom
<1>5. a = Row(s)
  BY <1>4 DEF Row
<1>6. b = [i \in 1..4 |-> b[i]] /\ c = [i \in 1..4 |-> c[i]] /\ a = [i \in 1..4 |-> a[i]]
  OBVIOUS
<1> HIDE DEF a, b, c
<1>7. t = [i \in 1..4 |-> t[i]]
  BY <1>6 DEF Swapped
<1> HIDE DEF t
<1>8. /\ Wide((t \o b) \o c)
      /\ \A i \in 1..4 : ((t \o b) \o c)[i] = t[i] /\ ((t \o b) \o c)[i + 4] = b[i]
                           /\ ((t \o b) \o c)[i + 8] = c[i]
  BY <1>6, <1>7, RowsJoined
<1>9. t = Swapped(Row(s), round)
  BY <1>5 DEF t
<1> QED BY <1>1, <1>4, <1>8, <1>9

(* The Rust round, word by word.                                            *)
LEMMA RustRoundIs ==
  ASSUME NEW s \in State, NEW round \in 1..24
  PROVE  /\ Wide(RustRound(s, round))
         /\ \A i \in 1..4 : /\ RustRound(s, round)[i] = Swapped(Row(s), round)[i]
                            /\ RustRound(s, round)[i + 4] = NewMiddle(s, i)
                            /\ RustRound(s, round)[i + 8] = NewBottom(s, i)
<1> DEFINE cols == Column(Column(Column(Column(s, 1), 2), 3), 4)
           k == RoundConstant \cup Word(round)
           r == RustRound(s, round)
<1>1. /\ Wide(cols)
      /\ \A i \in 1..4 : cols[i] = NewTop(s, i) /\ cols[i + 4] = NewMiddle(s, i)
                           /\ cols[i + 8] = NewBottom(s, i)
  BY ColumnsAre
<1>2. r = CASE round % 4 = 0 -> [Swap(Swap(cols, 1, 2), 3, 4) EXCEPT ![1] = Xor(@, k)]
            [] round % 4 = 2 -> Swap(Swap(cols, 1, 3), 2, 4)
            [] OTHER -> cols
  BY DEF RustRound
<1> HIDE DEF cols, r, k
<1>3. ASSUME NEW q, Wide(q), NEW i \in 1..12, NEW j \in 1..12, i # j
      PROVE  /\ Wide(Swap(q, i, j)) /\ Swap(q, i, j)[i] = q[j] /\ Swap(q, i, j)[j] = q[i]
             /\ \A h \in 1..12 : h # i /\ h # j => Swap(q, i, j)[h] = q[h]
  BY <1>3 DEF Wide, Swap
<1>4. /\ cols[1] = Row(s)[1] /\ cols[2] = Row(s)[2] /\ cols[3] = Row(s)[3] /\ cols[4] = Row(s)[4]
  BY <1>1 DEF Row
<1>5. ASSUME NEW q, \A h \in 5..12 : q[h] = cols[h]
      PROVE  \A i \in 1..4 : q[i + 4] = NewMiddle(s, i) /\ q[i + 8] = NewBottom(s, i)
  <2>1. \A i \in 1..4 : i + 4 \in 5..12 /\ i + 8 \in 5..12
    OBVIOUS
  <2> QED BY <1>1, <1>5, <2>1
<1>6. ASSUME NEW u, r[1] = u[1], r[2] = u[2], r[3] = u[3], r[4] = u[4]
      PROVE  \A i \in 1..4 : r[i] = u[i]
  <2>1. \A i \in 1..4 : i = 1 \/ i = 2 \/ i = 3 \/ i = 4
    OBVIOUS
  <2> QED BY <1>6, <2>1
<1>7. CASE round % 4 = 0
  <2> DEFINE p == Swap(cols, 1, 2)
             q == Swap(p, 3, 4)
  <2>1. /\ Wide(p) /\ p[1] = cols[2] /\ p[2] = cols[1]
        /\ \A h \in 1..12 : h # 1 /\ h # 2 => p[h] = cols[h]
    BY <1>1, <1>3
  <2> HIDE DEF p
  <2>2. /\ Wide(q) /\ q[3] = p[4] /\ q[4] = p[3]
        /\ \A h \in 1..12 : h # 3 /\ h # 4 => q[h] = p[h]
    BY <2>1, <1>3
  <2>3. r = [q EXCEPT ![1] = Xor(@, k)]
    BY <1>2, <1>7 DEF p
  <2> HIDE DEF q
  <2>4. Wide(r) /\ r[1] = Xor(q[1], k) /\ \A h \in 1..12 : h # 1 => r[h] = q[h]
    <3>1. DOMAIN q = 1..12 /\ r = [q EXCEPT ![1] = Xor(q[1], k)]
      BY <2>2, <2>3 DEF Wide
    <3>2. r = [h \in 1..12 |-> IF h = 1 THEN Xor(q[1], k) ELSE q[h]]
      BY <3>1
    <3> QED BY <3>2 DEF Wide
  <2>5. \A h \in 5..12 : r[h] = cols[h]
    BY <2>1, <2>2, <2>4
  <2>6. r[1] = Xor(cols[2], k) /\ r[2] = cols[1] /\ r[3] = cols[4] /\ r[4] = cols[3]
    BY <2>1, <2>2, <2>4
  <2> DEFINE u == Swapped(Row(s), round)
             v == Row(s)
  <2>7. u = <<Xor(v[2], k), v[1], v[4], v[3]>>
    BY <1>7 DEF Swapped, k
  <2>8. r[1] = u[1] /\ r[2] = u[2] /\ r[3] = u[3] /\ r[4] = u[4]
    <3> HIDE DEF u, v
    <3> QED BY <1>4, <2>6, <2>7 DEF v
  <2> HIDE DEF u
  <2> QED BY <1>5, <1>6, <2>4, <2>5, <2>8 DEF u, r
<1>8. CASE round % 4 = 2
  <2> DEFINE p == Swap(cols, 1, 3)
             q == Swap(p, 2, 4)
  <2>1. /\ Wide(p) /\ p[1] = cols[3] /\ p[3] = cols[1]
        /\ \A h \in 1..12 : h # 1 /\ h # 3 => p[h] = cols[h]
    BY <1>1, <1>3
  <2> HIDE DEF p
  <2>2. /\ Wide(q) /\ q[2] = p[4] /\ q[4] = p[2]
        /\ \A h \in 1..12 : h # 2 /\ h # 4 => q[h] = p[h]
    BY <2>1, <1>3
  <2>3. r = q
    BY <1>2, <1>8 DEF p
  <2> HIDE DEF q
  <2>5. \A h \in 5..12 : r[h] = cols[h]
    BY <2>1, <2>2, <2>3
  <2>6. r[1] = cols[3] /\ r[2] = cols[4] /\ r[3] = cols[1] /\ r[4] = cols[2]
    BY <2>1, <2>2, <2>3
  <2> DEFINE u == Swapped(Row(s), round)
             v == Row(s)
  <2>7. u = <<v[3], v[4], v[1], v[2]>>
    BY <1>8 DEF Swapped
  <2>8. r[1] = u[1] /\ r[2] = u[2] /\ r[3] = u[3] /\ r[4] = u[4]
    <3> HIDE DEF u, v
    <3> QED BY <1>4, <2>6, <2>7 DEF v
  <2> HIDE DEF u
  <2> QED BY <1>5, <1>6, <2>2, <2>3, <2>5, <2>8 DEF u, r
<1>9. CASE round % 4 # 0 /\ round % 4 # 2
  <2>1. r = cols /\ Swapped(Row(s), round) = Row(s)
    BY <1>2, <1>9 DEF Swapped
  <2> QED BY <1>1, <1>4, <1>6, <2>1 DEF r
<1> QED BY <1>7, <1>8, <1>9

(* Column by column or row by row: a round does the same.                   *)
LEMMA RoundsAgree ==
  ASSUME NEW s \in State, NEW round \in 1..24
  PROVE  RustRound(s, round) = DotNetRound(s, round)
<1> DEFINE r == RustRound(s, round)
           d == DotNetRound(s, round)
<1>1. Wide(r) /\ Wide(d)
  BY RustRoundIs, DotNetRoundIs
<1>2. \A i \in 1..4 : r[i] = d[i] /\ r[i + 4] = d[i + 4] /\ r[i + 8] = d[i + 8]
  BY RustRoundIs, DotNetRoundIs
<1> HIDE DEF r, d
<1>3. ASSUME NEW j \in 1..12 PROVE r[j] = d[j]
  <2>1. PICK i \in 1..4 : j = i \/ j = i + 4 \/ j = i + 8
    <3>1. CASE j \in 1..4
      BY <3>1
    <3>2. CASE j \in 5..8
      <4>1. j - 4 \in 1..4 /\ j = (j - 4) + 4
        BY <3>2
      <4> QED BY <4>1
    <3>3. CASE j \in 9..12
      <4>1. j - 8 \in 1..4 /\ j = (j - 8) + 8
        BY <3>3
      <4> QED BY <4>1
    <3> QED BY <3>1, <3>2, <3>3
  <2> QED BY <1>2, <2>1
<1>4. r = d
  BY <1>1, <1>3 DEF Wide
<1> QED BY <1>4 DEF r, d

(* The permutations are the same.  Each is a recursive function of pairs;   *)
(* the two definitions have the same body for every function that is called *)
(* in it, so they choose the same function.                                 *)
LEMMA PermutationsAgree ==
  ASSUME NEW s
  PROVE  RustPermute(s) = DotNetPermute(s)
<1> DEFINE R(f) == [x \in State \X (0..24) |->
                      IF x[2] = 0 THEN x[1] ELSE f[<<RustRound(x[1], x[2]), x[2] - 1>>]]
           D(f) == [x \in State \X (0..24) |->
                      IF x[2] = 0 THEN x[1] ELSE f[<<DotNetRound(x[1], x[2]), x[2] - 1>>]]
<1>1. ASSUME NEW f PROVE R(f) = D(f)
  <2>1. ASSUME NEW x \in State \X (0..24), x[2] # 0
        PROVE  RustRound(x[1], x[2]) = DotNetRound(x[1], x[2])
    <3>1. x[1] \in State /\ x[2] \in 1..24
      BY <2>1
    <3> QED BY <3>1, RoundsAgree
  <2> QED BY <2>1
<1>2. (CHOOSE f : f = R(f)) = (CHOOSE f : f = D(f))
  <2> HIDE DEF R, D
  <2> QED BY <1>1, Zenon
<1>3. RustPermute(s) = (CHOOSE f : f = R(f))[<<s, 24>>]
  BY DEF RustPermute
<1>4. DotNetPermute(s) = (CHOOSE f : f = D(f))[<<s, 24>>]
  BY DEF DotNetPermute
<1> HIDE DEF R, D
<1> QED BY <1>2, <1>3, <1>4, Zenon

(* Both absorb the same way, whatever the length of the data.               *)
LEMMA AbsorbAgrees ==
  ASSUME NEW s, NEW data
  PROVE  RustAbsorb(s, data) = DotNetAbsorb(s, data)
<1> DEFINE R(f) == [x \in State \X Nat |->
                      IF x[2] >= Len(data) THEN x[1]
                      ELSE f[<<RustPermute(XorInto(x[1], Chunk(data, x[2]))), x[2] + Rate>>]]
           D(f) == [x \in State \X Nat |->
                      IF x[2] >= Len(data) THEN x[1]
                      ELSE f[<<DotNetPermute(XorInto(x[1], Chunk(data, x[2]))), x[2] + Rate>>]]
<1>1. ASSUME NEW f PROVE R(f) = D(f)
  BY PermutationsAgree
<1>2. (CHOOSE f : f = R(f)) = (CHOOSE f : f = D(f))
  <2> HIDE DEF R, D
  <2> QED BY <1>1, Zenon
<1>3. RustAbsorb(s, data) = (CHOOSE f : f = R(f))[<<s, 0>>]
  BY DEF RustAbsorb
<1>4. DotNetAbsorb(s, data) = (CHOOSE f : f = D(f))[<<s, 0>>]
  BY DEF DotNetAbsorb
<1> HIDE DEF R, D
<1> QED BY <1>2, <1>3, <1>4, Zenon

(* Both absorb the lengths of all inputs first, the same way.               *)
LEMMA LengthsAgree ==
  ASSUME NEW inputs
  PROVE  RustLengths(inputs) = DotNetLengths(inputs)
<1> DEFINE R(f) == [x \in State \X Nat |->
                      IF x[2] > Len(inputs) THEN x[1]
                      ELSE f[<<RustAbsorbLength(x[1], Len(inputs[x[2]])), x[2] + 1>>]]
           D(f) == [x \in State \X Nat |->
                      IF x[2] > Len(inputs) THEN x[1]
                      ELSE f[<<DotNetPermute(WithLength(x[1], Len(inputs[x[2]]))), x[2] + 1>>]]
<1>1. ASSUME NEW f PROVE R(f) = D(f)
  BY PermutationsAgree DEF RustAbsorbLength
<1>2. (CHOOSE f : f = R(f)) = (CHOOSE f : f = D(f))
  <2> HIDE DEF R, D
  <2> QED BY <1>1, Zenon
<1>3. RustLengths(inputs) = (CHOOSE f : f = R(f))[<<Zero, 1>>]
  BY DEF RustLengths
<1>4. DotNetLengths(inputs) = (CHOOSE f : f = D(f))[<<Zero, 1>>]
  BY DEF DotNetLengths
<1> HIDE DEF R, D
<1> QED BY <1>2, <1>3, <1>4, Zenon

(* Both implementations make the same tag of any list of inputs, of any     *)
(* number and lengths: multigimli2 and multigimli3 of the Rust node and     *)
(* Gimli.Multi of the .NET node. The tag is what each end compares with its *)
(* own (handshake, packets), so two nodes of different kinds could not talk *)
(* if they differed.                                                        *)
THEOREM TagsTheSame ==
  ASSUME NEW inputs
  PROVE  RustMulti(inputs) = DotNetMulti(inputs)
<1> DEFINE R(f) == [x \in State \X Nat |->
                      IF x[2] > Len(inputs) THEN x[1]
                      ELSE f[<<RustAbsorb(x[1], inputs[x[2]]), x[2] + 1>>]]
           D(f) == [x \in State \X Nat |->
                      IF x[2] > Len(inputs) THEN x[1]
                      ELSE f[<<DotNetAbsorb(x[1], inputs[x[2]]), x[2] + 1>>]]
<1>1. ASSUME NEW f PROVE R(f) = D(f)
  BY AbsorbAgrees
<1>2. (CHOOSE f : f = R(f)) = (CHOOSE f : f = D(f))
  <2> HIDE DEF R, D
  <2> QED BY <1>1, Zenon
<1>3. RustMulti(inputs) = Block((CHOOSE f : f = R(f))[<<RustLengths(inputs), 1>>])
  BY DEF RustMulti
<1>4. DotNetMulti(inputs) = Block((CHOOSE f : f = D(f))[<<DotNetLengths(inputs), 1>>])
  BY DEF DotNetMulti
<1> HIDE DEF R, D
<1> QED BY <1>2, <1>3, <1>4, LengthsAgree, Zenon

(* Encrypting twice with the same byte gives the byte back.                 *)
LEMMA XorTwice ==
  ASSUME NEW a, NEW b
  PROVE  Xor(Xor(a, b), b) = a
BY DEF Xor

-----------------------------------------------------------------------------
(* The keystreams                                                           *)

(* A keystream of the Rust end.                                             *)
Shaped(g) == g = [state |-> g.state, n |-> g.n]

(* The keystream of the .NET end that is where g is.                        *)
AsDotNet(g) == [state |-> g.state, position |-> g.n]

(* The byte that g encrypts with.                                           *)
KeyByte(g) == Byte(g.state, g.n)

(* f[i] is where the keystream g is after i bytes.                          *)
IsStream(f, g, k) ==
  /\ f = [i \in 0..k |-> f[i]]
  /\ f[0] = g
  /\ \A i \in 1..k : f[i] = Advanced(f[i - 1])

(* The .NET end moves on as the Rust end does.                              *)
StepDotNet(k) ==
  IF k.position + 1 = Rate THEN [state |-> DotNetPermute(k.state), position |-> 0]
                           ELSE [k EXCEPT !.position = @ + 1]

(* One byte further: the .NET keystream that is where g is goes where g     *)
(* goes.                                                                    *)
LEMMA InStep ==
  ASSUME NEW g, Shaped(g)
  PROVE  Shaped(Advanced(g)) /\ StepDotNet(AsDotNet(g)) = AsDotNet(Advanced(g))
<1> DEFINE s == g.state
           n == g.n
<1>1. g = [state |-> s, n |-> n]
  BY DEF Shaped
<1> HIDE DEF s, n
<1>2. RustPermute(s) = DotNetPermute(s)
  BY PermutationsAgree
<1>3. CASE n + 1 = Rate
  <2>1. Advanced(g) = [state |-> RustPermute(s), n |-> 0]
    BY <1>1, <1>3 DEF Advanced
  <2>2. StepDotNet(AsDotNet(g)) = [state |-> DotNetPermute(s), position |-> 0]
    BY <1>1, <1>3 DEF StepDotNet, AsDotNet
  <2> QED BY <1>2, <2>1, <2>2 DEF Shaped, AsDotNet
<1>4. CASE n + 1 # Rate
  <2>1. Advanced(g) = [state |-> s, n |-> n + 1]
    BY <1>1, <1>4 DEF Advanced
  <2>2. StepDotNet(AsDotNet(g)) = [state |-> s, position |-> n + 1]
    BY <1>1, <1>4 DEF StepDotNet, AsDotNet
  <2> QED BY <2>1, <2>2 DEF Shaped, AsDotNet
<1> QED BY <1>3, <1>4

(* A keystream can be followed for any number of bytes.                     *)
LEMMA StreamExists ==
  ASSUME NEW g, NEW k \in Nat
  PROVE  \E f : IsStream(f, g, k)
<1> DEFINE W == {i \in 0..k : \E f : IsStream(f, g, i)} \cup {k + 1}
<1>1. 0 \in W
  <2>1. IsStream([i \in 0..0 |-> g], g, 0)
    BY DEF IsStream
  <2> QED BY <2>1
<1>2. ASSUME NEW i \in 0..k, i \in W, i # k PROVE i + 1 \in W
  <2>1. PICK h : IsStream(h, g, i)
    BY <1>2
  <2> DEFINE f == [j \in 0..i + 1 |-> IF j = i + 1 THEN Advanced(h[i]) ELSE h[j]]
  <2>2. \A j \in 0..i : j # i + 1 /\ j \in 0..i + 1 /\ f[j] = h[j]
    OBVIOUS
  <2>3. f = [j \in 0..i + 1 |-> f[j]] /\ f[0] = g
    BY <2>1, <2>2 DEF IsStream
  <2>4. f[i + 1] = Advanced(h[i])
    <3>1. i + 1 \in 0..i + 1
      OBVIOUS
    <3> QED BY <3>1, Zenon
  <2> HIDE DEF f
  <2>5. ASSUME NEW j \in 1..i + 1 PROVE f[j] = Advanced(f[j - 1])
    <3>1. j - 1 \in 0..i /\ f[j - 1] = h[j - 1]
      BY <2>2
    <3>2. CASE j = i + 1
      BY <2>4, <3>1, <3>2
    <3>3. CASE j # i + 1
      <4>1. j \in 1..i /\ j \in 0..i
        BY <3>3
      <4> QED BY <2>1, <2>2, <3>1, <4>1 DEF IsStream
    <3> QED BY <3>2, <3>3
  <2>6. IsStream(f, g, i + 1)
    BY <2>3, <2>5 DEF IsStream
  <2> QED BY <1>2, <2>6
<1>3. ASSUME NEW i \in 0..k, i = k PROVE i + 1 \in W
  BY <1>3
<1>4. k \in W
  <2>1. \A i \in 0..k : i \in W => i + 1 \in W
    BY <1>2, <1>3
  <2>2. k \in 0..k
    OBVIOUS
  <2> HIDE DEF W
  <2> QED BY <1>1, <2>1, <2>2, UpTo
<1> QED BY <1>4

(* Every place of a keystream is one.                                       *)
LEMMA StreamShaped ==
  ASSUME NEW k \in Nat, NEW g, Shaped(g), NEW f, IsStream(f, g, k)
  PROVE  \A i \in 0..k : Shaped(f[i])
<1> DEFINE W == {i \in 0..k : Shaped(f[i])} \cup {k + 1}
<1>1. 0 \in W
  BY DEF IsStream
<1>2. ASSUME NEW i \in 0..k, i \in W PROVE i + 1 \in W
  <2>1. CASE i = k
    BY <2>1
  <2>2. CASE i # k
    <3>1. PICK j \in 1..k : j = i + 1
      BY <2>2
    <3>2. j - 1 = i /\ Shaped(f[i])
      BY <1>2, <2>2, <3>1
    <3>3. f[j] = Advanced(f[j - 1])
      BY DEF IsStream
    <3>4. Shaped(f[j])
      BY <3>2, <3>3, InStep
    <3> QED BY <3>1, <3>4
  <2> QED BY <2>1, <2>2
<1>3. \A i \in 0..k : i \in W
  <2> HIDE DEF W
  <2> QED BY <1>1, <1>2, UpTo
<1>4. ASSUME NEW i \in 0..k PROVE Shaped(f[i])
  BY <1>3
<1> QED BY <1>4

(* h is a keystream of the .NET end, started where g is, over n bytes.      *)
Moves(h, g, n) ==
  /\ h[0] = AsDotNet(g)
  /\ \A i \in 1..n : h[i] = StepDotNet(h[i - 1])

(* The .NET end, started where f is after b bytes, follows it.              *)
LEMMA Follows ==
  ASSUME NEW k \in Nat, NEW g, Shaped(g), NEW f, IsStream(f, g, k),
         NEW b \in Nat, NEW n \in Nat, b + n <= k, NEW h, Moves(h, f[b], n)
  PROVE  \A i \in 0..n : h[i] = AsDotNet(f[b + i])
<1>0. h[0] = AsDotNet(f[b]) /\ \A i \in 1..n : h[i] = StepDotNet(h[i - 1])
  BY DEF Moves
<1> DEFINE W == {i \in 0..n : h[i] = AsDotNet(f[b + i])} \cup {n + 1}
<1>1. 0 \in W
  <2>1. b + 0 = b /\ 0 \in 0..n
    OBVIOUS
  <2> QED BY <1>0, <2>1, Zenon
<1>2. ASSUME NEW i \in 0..n, i \in W PROVE i + 1 \in W
  <2>1. CASE i = n
    BY <2>1
  <2>2. CASE i # n
    <3>1. i + 1 \in 1..n /\ (i + 1) - 1 = i /\ h[i] = AsDotNet(f[b + i])
      BY <1>2, <2>2
    <3>2. b + i \in 0..k /\ b + (i + 1) \in 1..k /\ (b + (i + 1)) - 1 = b + i
      BY <2>2
    <3>3. h[i + 1] = StepDotNet(h[i])
      BY <1>0, <3>1
    <3>4. f[b + (i + 1)] = Advanced(f[b + i])
      <4>1. f[b + (i + 1)] = Advanced(f[(b + (i + 1)) - 1])
        BY <3>2, Zenon DEF IsStream
      <4> QED BY <3>2, <4>1
    <3>5. Shaped(f[b + i])
      BY <3>2, StreamShaped
    <3>6. h[i + 1] = AsDotNet(f[b + (i + 1)])
      BY <3>1, <3>3, <3>4, <3>5, InStep
    <3> QED BY <3>1, <3>6
  <2> QED BY <2>1, <2>2
<1>3. \A i \in 0..n : i \in W
  <2> HIDE DEF W
  <2> QED BY <1>1, <1>2, UpTo
<1>4. ASSUME NEW i \in 0..n PROVE h[i] = AsDotNet(f[b + i])
  BY <1>3
<1> QED BY <1>4

-----------------------------------------------------------------------------
(* The inductive invariant                                                  *)

(* Where both keystreams start.                                             *)
Begin == [state |-> RustAbsorb(RustAbsorbLength(Zero, Len(Key)), Key), n |-> 0]

(* What is on the wire are the bytes between those that were sent and those *)
(* that were read, encrypted with the keystream at their own place; each    *)
(* end is at its place in the same keystream.                               *)
InStream(f) ==
  /\ IsStream(f, Begin, sent)
  /\ rust = f[sent] /\ dotnet = AsDotNet(f[Len(got)])
  /\ \A i \in 1..Len(wire) :
       wire[i] = Xor(Message[Len(got) + i], KeyByte(f[Len(got) + i - 1]))

(* How many bytes are where.                                                *)
Counted ==
  /\ sent \in 0..Len(Message) /\ wire \in Seq(Octet) /\ got \in Seq(Octet)
  /\ Len(got) + Len(wire) = sent

IInv ==
  /\ Counted
  /\ \A i \in 1..Len(got) : got[i] = Message[i]
  /\ \E f : InStream(f)

(* Both ends start their keystream at the same state, from the same key.    *)
LEMMA InitIInv == Init => IInv
<1> SUFFICES ASSUME Init PROVE IInv
  OBVIOUS
<1>1. Counted /\ sent = 0 /\ wire = <<>> /\ got = <<>>
  BY CipherAssumption DEF Init, Counted
<1>2. rust = Begin
  BY DEF Init, Begin
<1>3. dotnet = AsDotNet(Begin)
  <2>1. RustAbsorbLength(Zero, Len(Key)) = DotNetPermute(WithLength(Zero, Len(Key)))
    BY PermutationsAgree DEF RustAbsorbLength
  <2>2. RustAbsorb(RustAbsorbLength(Zero, Len(Key)), Key)
          = DotNetAbsorb(DotNetPermute(WithLength(Zero, Len(Key))), Key)
    BY <2>1, AbsorbAgrees
  <2> QED BY <2>2 DEF Init, AsDotNet, Begin
<1>4. PICK f : IsStream(f, Begin, 0)
  BY StreamExists
<1>5. Len(got) = 0 /\ Len(wire) = 0 /\ f[0] = Begin
  BY <1>1, <1>4 DEF IsStream
<1>6. InStream(f)
  <2> HIDE DEF Begin
  <2> QED BY <1>1, <1>2, <1>3, <1>4, <1>5 DEF InStream
<1> QED BY <1>1, <1>5, <1>6 DEF IInv

(* The start of the keystream is a place of one.                            *)
LEMMA BeginShaped == Shaped(Begin)
BY DEF Begin, Shaped

(* An encrypted byte is a byte.                                             *)
LEMMA XorType ==
  ASSUME NEW a \in Octet, NEW g
  PROVE  Xor(a, KeyByte(g)) \in Octet
BY DEF Octet, Xor, KeyByte, Byte

(* A function on 1..n is a sequence.                                        *)
LEMMA FunctionIsSeq ==
  ASSUME NEW T, NEW n \in Nat, NEW c \in [1..n -> T]
  PROVE  c \in Seq(T) /\ Len(c) = n
<1>1. c \in Seq(T) /\ DOMAIN c = 1..n
  BY SeqDef
<1>2. Len(c) \in Nat /\ 1..Len(c) = 1..n
  BY <1>1, LenProperties
<1>3. Len(c) = n
  <2>1. \A i \in Nat : i \in 1..Len(c) <=> i \in 1..n
    BY <1>2
  <2> QED BY <1>2, <2>1
<1> QED BY <1>1, <1>3

(* Encrypting a piece: the keystream that is known so far is continued by   *)
(* as many bytes as the piece has, and the piece goes on the wire at its    *)
(* own place.                                                               *)
LEMMA EncryptKeeps ==
  ASSUME IInv, NEW n \in Pieces, Encrypt(n)
  PROVE  IInv'
<1> DEFINE D(f) == [i \in 0..n |-> IF i = 0 THEN rust ELSE Advanced(f[i - 1])]
           gen == CHOOSE f : f = D(f)
           m == Len(got)
           w == Len(wire)
<1>1. PICK f : InStream(f)
  BY DEF IInv
<1>2. /\ n \in Nat /\ sent \in Nat /\ m \in Nat /\ w \in Nat /\ m + w = sent
      /\ wire \in Seq(Octet) /\ got \in Seq(Octet) /\ Message \in Seq(Octet)
      /\ sent \in 0..Len(Message) /\ Len(Message) \in Nat
  BY CipherAssumption DEF IInv, Counted
<1>3. /\ sent + n <= Len(Message) /\ sent' = sent + n /\ got' = got /\ dotnet' = dotnet
      /\ wire' = wire \o [i \in 1..n |-> Xor(Piece(n)[i], Byte(gen[i - 1].state, gen[i - 1].n))]
      /\ rust' = gen[n]
  BY DEF Encrypt
<1>4. gen = D(gen)
  <2>1. PICK h : IsStream(h, rust, n)
    BY <1>2, StreamExists
  <2>2. h = D(h)
    <3>1. h = [i \in 0..n |-> h[i]] /\ h[0] = rust
      BY <2>1 DEF IsStream
    <3>2. \A i \in 0..n : i # 0 => h[i] = Advanced(h[i - 1])
      <4>1. \A i \in 0..n : i # 0 => i \in 1..n
        BY <1>2
      <4> QED BY <2>1, <4>1 DEF IsStream
    <3>3. \A i \in 0..n : h[i] = IF i = 0 THEN rust ELSE Advanced(h[i - 1])
      BY <3>1, <3>2
    <3> QED BY <3>1, <3>3
  <2> HIDE DEF D
  <2> QED BY <2>2
<1> HIDE DEF gen
<1>5. IsStream(gen, rust, n)
  <2>1. gen = [i \in 0..n |-> gen[i]] /\ gen[0] = rust
    BY <1>2, <1>4
  <2>2. \A i \in 1..n : gen[i] = Advanced(gen[i - 1])
    <3>1. \A i \in 1..n : i \in 0..n /\ i # 0
      BY <1>2
    <3> QED BY <1>4, <3>1
  <2> QED BY <2>1, <2>2 DEF IsStream
<1> DEFINE c == [i \in 1..n |-> Xor(Piece(n)[i], KeyByte(gen[i - 1]))]
<1>6. wire' = wire \o c
  BY <1>3 DEF KeyByte
<1>7. \A i \in 1..n : c[i] = Xor(Message[sent + i], KeyByte(gen[i - 1])) /\ c[i] \in Octet
  <2>1. ASSUME NEW i \in 1..n PROVE Piece(n)[i] = Message[sent + i] /\ Message[sent + i] \in Octet
    <3>1. /\ sent + 1 \in 1..Len(Message) + 1 /\ sent + i \in 1..Len(Message)
          /\ i \in 1..(sent + n) - (sent + 1) + 1
      BY <1>2, <1>3
    <3>2. Message[sent + i] \in Octet
      BY <1>2, <3>1
    <3>3. SubSeq(Message, sent + 1, sent + n)[i] = Message[sent + i]
      <4> HIDE DEF Octet
      <4> QED BY <1>2, <1>3, <3>1
    <3> QED BY <3>2, <3>3 DEF Piece
  <2> QED BY <2>1, XorType
<1>8. c \in Seq(Octet) /\ Len(c) = n
  <2>1. c \in [1..n -> Octet]
    <3> HIDE DEF Octet
    <3> QED BY <1>7
  <2> QED BY <1>2, <2>1, FunctionIsSeq
<1> HIDE DEF c
<1>9. /\ wire' \in Seq(Octet) /\ Len(wire') = w + n
      /\ \A i \in 1..w + n : wire'[i] = IF i <= w THEN wire[i] ELSE c[i - w]
  BY <1>2, <1>6, <1>8, ConcatProperties
<1>10. Counted' /\ Len(got') = m
  <2>1. Len(got') = m
    BY <1>3
  <2>2. m \in Nat /\ w \in Nat /\ sent \in Nat /\ n \in Nat /\ Len(Message) \in Nat
    BY <1>2
  <2>3. m + w = sent /\ sent + n <= Len(Message)
    BY <1>2, <1>3
  <2> HIDE DEF m, w
  <2>4. m + (w + n) = sent + n /\ sent + n \in 0..Len(Message)
    BY <2>2, <2>3
  <2> QED BY <1>2, <1>3, <1>9, <2>1, <2>4 DEF Counted
<1> DEFINE h == [i \in 0..sent + n |-> IF i <= sent THEN f[i] ELSE gen[i - sent]]
<1>11. /\ \A i \in 0..sent : h[i] = f[i]
       /\ \A i \in 0..n : h[sent + i] = gen[i]
  <2>1. \A i \in 0..sent : i \in 0..sent + n /\ i <= sent
    BY <1>2
  <2>2. f[sent] = gen[0]
    BY <1>1, <1>5 DEF InStream, IsStream
  <2>3. ASSUME NEW i \in 0..n PROVE h[sent + i] = gen[i]
    <3>1. sent + i \in 0..sent + n /\ (sent + i) - sent = i /\ (sent + i <= sent => i = 0 /\ sent + i = sent)
      BY <1>2
    <3> QED BY <2>2, <3>1
  <2> QED BY <2>1, <2>3
<1>12. IsStream(h, Begin, sent + n)
  <2>1. h = [i \in 0..sent + n |-> h[i]]
    OBVIOUS
  <2> HIDE DEF h
  <2>2. h[0] = Begin
    BY <1>1, <1>2, <1>11 DEF InStream, IsStream
  <2>3. ASSUME NEW i \in 1..sent + n PROVE h[i] = Advanced(h[i - 1])
    <3>1. CASE i <= sent
      <4>1. i \in 1..sent /\ i \in 0..sent /\ i - 1 \in 0..sent
        BY <1>2, <3>1
      <4>2. f[i] = Advanced(f[i - 1])
        BY <1>1, <4>1 DEF InStream, IsStream
      <4> QED BY <1>11, <4>1, <4>2
    <3>2. CASE ~ (i <= sent)
      <4>1. PICK j \in 1..n : i = sent + j
        <5>1. i - sent \in 1..n /\ i = sent + (i - sent)
          BY <1>2, <3>2
        <5> QED BY <5>1
      <4>2. j \in 0..n /\ j - 1 \in 0..n /\ i - 1 = sent + (j - 1)
        BY <1>2, <4>1
      <4>3. gen[j] = Advanced(gen[j - 1])
        BY <1>5 DEF IsStream
      <4> QED BY <1>11, <4>1, <4>2, <4>3
    <3> QED BY <3>1, <3>2
  <2> QED BY <2>1, <2>2, <2>3 DEF IsStream
<1> HIDE DEF h
<1>13. rust' = h[sent'] /\ dotnet' = AsDotNet(h[Len(got')])
  <2>1. n \in 0..n /\ m \in 0..sent
    BY <1>2
  <2> QED BY <1>1, <1>3, <1>10, <1>11, <2>1 DEF InStream
<1>14. ASSUME NEW i \in 1..Len(wire')
       PROVE  wire'[i] = Xor(Message[Len(got') + i], KeyByte(h[Len(got') + i - 1]))
  <2>1. i \in 1..w + n
    BY <1>9
  <2>2. CASE i <= w
    <3>1. i \in 1..w /\ m + i - 1 \in 0..sent
      BY <1>2, <2>1, <2>2
    <3>2. wire[i] = Xor(Message[m + i], KeyByte(f[m + i - 1]))
      BY <1>1, <3>1 DEF InStream
    <3> QED BY <1>9, <1>10, <1>11, <2>1, <2>2, <3>1, <3>2
  <2>3. CASE ~ (i <= w)
    <3>1. PICK j \in 1..n : i = w + j
      <4>1. i - w \in 1..n /\ i = w + (i - w)
        BY <1>2, <2>1, <2>3
      <4> QED BY <4>1
    <3>2. j - 1 \in 0..n /\ m + i = sent + j /\ m + i - 1 = sent + (j - 1) /\ i - w = j
      BY <1>2, <3>1
    <3>3. wire'[i] = c[j]
      BY <1>9, <2>1, <2>3, <3>2
    <3>4. h[m + i - 1] = gen[j - 1]
      BY <1>11, <3>2
    <3>5. c[j] = Xor(Message[sent + j], KeyByte(gen[j - 1]))
      BY <1>7
    <3> QED BY <1>10, <3>2, <3>3, <3>4, <3>5
  <2> QED BY <2>2, <2>3
<1>15. \E k : InStream(k)'
  <2>1. ASSUME NEW k, k = h PROVE InStream(k)'
    BY <1>3, <1>12, <1>13, <1>14, <2>1 DEF InStream, AsDotNet, KeyByte, Begin
  <2> QED BY <2>1
<1>16. \A i \in 1..Len(got') : got'[i] = Message[i]
  BY <1>3 DEF IInv
<1> QED BY <1>10, <1>15, <1>16 DEF IInv

(* Decrypting a piece, at whatever place in whatever block it starts.       *)
LEMMA DecryptKeeps ==
  ASSUME IInv, NEW n \in Pieces, Decrypt(n)
  PROVE  IInv'
<1> DEFINE D(k) == [i \in 0..n |-> IF i = 0 THEN dotnet ELSE StepDotNet(k[i - 1])]
           ks == CHOOSE k : k = D(k)
           m == Len(got)
           w == Len(wire)
<1>1. PICK f : InStream(f)
  BY DEF IInv
<1>2. /\ n \in Nat /\ sent \in Nat /\ m \in Nat /\ w \in Nat /\ m + w = sent
      /\ wire \in Seq(Octet) /\ got \in Seq(Octet) /\ Message \in Seq(Octet)
      /\ sent \in 0..Len(Message) /\ Len(Message) \in Nat
  BY CipherAssumption DEF IInv, Counted
<1>3. /\ n <= w /\ sent' = sent /\ rust' = rust
      /\ got' = got \o [i \in 1..n |-> Xor(wire[i], Byte(ks[i - 1].state, ks[i - 1].position))]
      /\ wire' = SubSeq(wire, n + 1, w)
      /\ dotnet' = ks[n]
  BY DEF Decrypt, StepDotNet
<1>4. /\ IsStream(f, Begin, sent) /\ dotnet = AsDotNet(f[m]) /\ rust = f[sent]
      /\ \A i \in 1..w : wire[i] = Xor(Message[m + i], KeyByte(f[m + i - 1]))
  BY <1>1 DEF InStream
<1> HIDE DEF m, w
<1>5. ks = D(ks)
  <2> DEFINE h == [i \in 0..n |-> AsDotNet(f[m + i])]
  <2>1. h[0] = dotnet
    <3>1. 0 \in 0..n /\ m + 0 = m
      BY <1>2
    <3> QED BY <1>4, <3>1
  <2>2. ASSUME NEW i \in 0..n, i # 0 PROVE h[i] = StepDotNet(h[i - 1])
    <3>1. i \in Nat /\ i <= n /\ i >= 1
      BY <1>2, <2>2
    <3>2. i - 1 \in 0..n /\ m + i \in 1..sent /\ (m + i) - 1 = m + (i - 1) /\ m + (i - 1) \in 0..sent
      BY <1>2, <1>3, <3>1
    <3>3. f[m + i] = Advanced(f[(m + i) - 1])
      BY <1>4, <3>2 DEF IsStream
    <3>4. Shaped(f[m + (i - 1)])
      BY <1>2, <1>4, <3>2, BeginShaped, StreamShaped
    <3>5. h[i - 1] = AsDotNet(f[m + (i - 1)])
      BY <3>2
    <3>6. StepDotNet(AsDotNet(f[m + (i - 1)])) = AsDotNet(Advanced(f[m + (i - 1)]))
      BY <3>4, InStep
    <3>7. h[i] = AsDotNet(f[m + i])
      OBVIOUS
    <3> HIDE DEF h
    <3> QED BY <3>2, <3>3, <3>5, <3>6, <3>7
  <2>3. h = [i \in 0..n |-> h[i]]
    OBVIOUS
  <2> HIDE DEF h
  <2>4. h = D(h)
    <3>1. \A i \in 0..n : h[i] = IF i = 0 THEN dotnet ELSE StepDotNet(h[i - 1])
      BY <2>1, <2>2
    <3> QED BY <2>3, <3>1
  <2> HIDE DEF D
  <2> QED BY <2>4
<1> HIDE DEF ks
<1>6. ASSUME NEW i \in 0..n PROVE ks[i] = AsDotNet(f[m + i])
  <2>1. ks[0] = AsDotNet(f[m])
    <3>1. 0 \in 0..n
      BY <1>2
    <3> QED BY <1>4, <1>5, <3>1
  <2>2. \A j \in 1..n : ks[j] = StepDotNet(ks[j - 1])
    <3>1. \A j \in 1..n : j \in 0..n /\ j # 0
      BY <1>2
    <3> QED BY <1>5, <3>1
  <2>3. m + n <= sent
    BY <1>2, <1>3
  <2>4. IsStream(f, Begin, sent) /\ Shaped(Begin) /\ m \in Nat /\ sent \in Nat /\ n \in Nat
    BY <1>2, <1>4, BeginShaped
  <2> HIDE DEF D
  <2>5. Moves(ks, f[m], n)
    BY <2>1, <2>2 DEF Moves
  <2>6. \A j \in 0..n : ks[j] = AsDotNet(f[m + j])
    BY <2>3, <2>4, <2>5, Follows
  <2> QED BY <2>6
<1> DEFINE c == [i \in 1..n |-> Xor(wire[i], Byte(ks[i - 1].state, ks[i - 1].position))]
<1>7. ASSUME NEW i \in 1..n PROVE c[i] = Message[m + i] /\ m + i \in 1..Len(Message)
  <2>1. i \in Nat /\ 1 <= i /\ i <= n
    BY <1>2
  <2>2. i - 1 \in 0..n /\ i \in 1..w /\ m + i - 1 = m + (i - 1) /\ m + i \in 1..Len(Message)
    BY <1>2, <1>3, <2>1
  <2>3. ks[i - 1] = AsDotNet(f[m + (i - 1)])
    BY <1>6, <2>2
  <2>4. Byte(ks[i - 1].state, ks[i - 1].position) = KeyByte(f[m + (i - 1)])
    BY <2>3 DEF AsDotNet, KeyByte
  <2>5. wire[i] = Xor(Message[m + i], KeyByte(f[m + (i - 1)]))
    BY <1>4, <2>2
  <2>6. c[i] = Xor(Xor(Message[m + i], KeyByte(f[m + (i - 1)])), KeyByte(f[m + (i - 1)]))
    BY <2>4, <2>5
  <2> QED BY <2>2, <2>6, XorTwice
<1>8. c \in Seq(Octet) /\ Len(c) = n
  <2>1. \A i \in 1..n : c[i] \in Octet
    <3> HIDE DEF c, Octet
    <3> QED BY <1>2, <1>7, ElementOfSeq
  <2>2. c \in [1..n -> Octet]
    <3> HIDE DEF Octet
    <3> QED BY <2>1
  <2> QED BY <1>2, <2>2, FunctionIsSeq
<1>9. got' = got \o c
  BY <1>3
<1> HIDE DEF c
<1>10. /\ got' \in Seq(Octet) /\ Len(got') = m + n
       /\ \A i \in 1..m + n : got'[i] = IF i <= m THEN got[i] ELSE c[i - m]
  BY <1>2, <1>8, <1>9, ConcatProperties DEF m
<1>11. /\ wire' \in Seq(Octet) /\ Len(wire') = w - n
       /\ \A i \in 1..w - n : wire'[i] = wire[n + i]
  <2>1. n + 1 \in 1..w + 1 /\ w \in 0..Len(wire) /\ Len(wire) = w /\ w \in Nat
    BY <1>2, <1>3 DEF w
  <2> HIDE DEF Octet
  <2> QED BY <1>2, <1>3, <2>1
<1>12. Counted'
  <2>1. (m + n) + (w - n) = sent
    BY <1>2, <1>3
  <2> QED BY <1>2, <1>3, <1>10, <1>11, <2>1 DEF Counted
<1>13. ASSUME NEW i \in 1..Len(got') PROVE got'[i] = Message[i]
  <2>1. i \in 1..m + n
    BY <1>10
  <2>2. CASE i <= m
    <3>1. i \in 1..Len(got)
      BY <1>2, <2>1, <2>2 DEF m
    <3> QED BY <1>10, <2>1, <2>2, <3>1 DEF IInv
  <2>3. CASE ~ (i <= m)
    <3>1. i - m \in 1..n /\ m + (i - m) = i
      BY <1>2, <2>1, <2>3
    <3> QED BY <1>7, <1>10, <2>1, <2>3, <3>1
  <2> QED BY <2>2, <2>3
<1>14. dotnet' = AsDotNet(f[Len(got')])
  <2>1. n \in 0..n
    BY <1>2
  <2> QED BY <1>3, <1>6, <1>10, <2>1
<1>15. ASSUME NEW i \in 1..Len(wire')
       PROVE  wire'[i] = Xor(Message[Len(got') + i], KeyByte(f[Len(got') + i - 1]))
  <2>1. i \in 1..w - n /\ n + i \in 1..w /\ m + (n + i) = (m + n) + i /\ m + (n + i) - 1 = (m + n) + i - 1
    BY <1>2, <1>3, <1>11
  <2>2. wire'[i] = wire[n + i]
    BY <1>11, <2>1
  <2>3. wire[n + i] = Xor(Message[m + (n + i)], KeyByte(f[m + (n + i) - 1]))
    BY <1>4, <2>1
  <2> QED BY <1>10, <2>1, <2>2, <2>3
<1>16. InStream(f)'
  BY <1>3, <1>4, <1>14, <1>15 DEF InStream, AsDotNet, KeyByte, Begin
<1> QED BY <1>12, <1>13, <1>16 DEF IInv

(* Every step keeps the invariant.                                          *)
LEMMA NextIInv == IInv /\ [Next]_vars => IInv'
<1> SUFFICES ASSUME IInv, [Next]_vars PROVE IInv'
  OBVIOUS
<1>1. CASE Next
  BY <1>1, EncryptKeeps, DecryptKeeps DEF Next
<1>2. CASE UNCHANGED vars
  BY <1>2 DEF vars, IInv, Counted, InStream
<1> QED BY <1>1, <1>2

(* For every key and every message, and however the bytes are cut up on     *)
(* either side, what the .NET end has decrypted (Keystream.Apply) is what   *)
(* the Rust end encrypted (KeystreamGen::next).                             *)
THEOREM MessagesDecrypted == Spec => []DecryptsToTheMessage
<1>1. IInv => DecryptsToTheMessage
  <2> SUFFICES ASSUME IInv PROVE DecryptsToTheMessage
    OBVIOUS
  <2> DEFINE m == Len(got)
             p == SubSeq(Message, 1, m)
  <2>1. /\ got \in Seq(Octet) /\ Message \in Seq(Octet) /\ m \in Nat /\ m \in 0..Len(Message)
        /\ \A i \in 1..m : got[i] = Message[i]
    <3>1. /\ got \in Seq(Octet) /\ wire \in Seq(Octet) /\ m + Len(wire) = sent
          /\ sent \in 0..Len(Message) /\ Message \in Seq(Octet)
      BY CipherAssumption DEF IInv, Counted
    <3>2. m \in Nat /\ Len(wire) \in Nat /\ Len(Message) \in Nat
      BY <3>1, LenProperties
    <3>3. \A i \in 1..m : got[i] = Message[i]
      BY DEF IInv
    <3> HIDE DEF m
    <3> QED BY <3>1, <3>2, <3>3
  <2>2. p \in Seq(Octet) /\ Len(p) = m /\ \A i \in 1..m : p[i] = Message[i]
    <3> HIDE DEF Octet, m
    <3> QED BY <2>1
  <2> HIDE DEF p
  <2>3. got = p
    BY <2>1, <2>2, SeqEqual
  <2> QED BY <2>3 DEF p, DecryptsToTheMessage
<1> QED BY <1>1, InitIInv, NextIInv, PTL DEF Spec
=============================================================================
