------------------------------- MODULE Gimli -------------------------------
(***************************************************************************)
(* The Gimli permutation and what both implementations build from it: the   *)
(* hash, the keyed tags of the handshake and of every packet (multigimli),  *)
(* the keystream of a link.  Rust works column by column on twelve words    *)
(* (gimli.rs), .NET on three rows of four words at once (Crypto.cs).        *)
(*                                                                          *)
(* A word is the set of the positions of its one-bits, a byte likewise, so  *)
(* exclusive-or is the symmetric difference.  Words are little-endian:      *)
(* byte k of the state is bits 8 * (k % 4) and up of word k \div 4.         *)
(***************************************************************************)
EXTENDS Integers, Sequences

Rate == 16                       \* RATE_BYTES
Bits == 0..31
Xor(a, b) == (a \ b) \cup (b \ a)
Rotl(w, k) == {(i + k) % 32 : i \in w}
Shl(w, k) == {i + k : i \in {j \in w : j + k < 32}}

(* The bits of a number below 2^31.                                         *)
Word(n) == {i \in 0..30 : (n \div 2^i) % 2 = 1}

(* 0x9e377900, whose top bit does not fit in a number of TLC.               *)
RoundConstant == {31} \cup Word(506951936)

(* The state: three rows of four words, row after row.  A loop over it is a *)
(* recursive function of a pair: the state and what is left to do.          *)
State == [1..12 -> SUBSET Bits]
Zero == <<{}, {}, {}, {}, {}, {}, {}, {}, {}, {}, {}, {}>>

-----------------------------------------------------------------------------
(* Rust: for every column, then the swaps of row 0 and the constant.        *)
Column(s, col) ==
  LET x == Rotl(s[col], 24)
      y == Rotl(s[col + 4], 9)
      z == s[col + 8]
  IN [s EXCEPT ![col + 8] = Xor(x, Xor(Shl(z, 1), Shl(y \cap z, 2))),
               ![col + 4] = Xor(y, Xor(x, Shl(x \cup z, 1))),
               ![col] = Xor(z, Xor(y, Shl(x \cap y, 3)))]

Swap(s, i, j) == [s EXCEPT ![i] = s[j], ![j] = s[i]]

RustRound(s, round) ==
  LET cols == Column(Column(Column(Column(s, 1), 2), 3), 4) IN
  CASE round % 4 = 0 -> [Swap(Swap(cols, 1, 2), 3, 4)
                           EXCEPT ![1] = Xor(@, RoundConstant \cup Word(round))]
    [] round % 4 = 2 -> Swap(Swap(cols, 1, 3), 2, 4)
    [] OTHER -> cols

RustPermute(s) ==
  LET from[x \in State \X (0..24)] ==
        IF x[2] = 0 THEN x[1] ELSE from[<<RustRound(x[1], x[2]), x[2] - 1>>]
  IN  from[<<s, 24>>]

-----------------------------------------------------------------------------
(* .NET: each row is a vector, and a round handles all columns at once.     *)
DotNetRound(s, round) ==
  LET x == [i \in 1..4 |-> Rotl(s[i], 24)]
      y == [i \in 1..4 |-> Rotl(s[4 + i], 9)]
      z == SubSeq(s, 9, 12)
      a == [i \in 1..4 |-> Xor(z[i], Xor(y[i], Shl(x[i] \cap y[i], 3)))]
      b == [i \in 1..4 |-> Xor(y[i], Xor(x[i], Shl(x[i] \cup z[i], 1)))]
      c == [i \in 1..4 |-> Xor(x[i], Xor(Shl(z[i], 1), Shl(y[i] \cap z[i], 2)))]
      top == CASE round % 4 = 0 ->
                    <<Xor(a[2], RoundConstant \cup Word(round)), a[1], a[4], a[3]>>
               [] round % 4 = 2 -> <<a[3], a[4], a[1], a[2]>>
               [] OTHER -> a
  IN top \o b \o c

DotNetPermute(s) ==
  LET from[x \in State \X (0..24)] ==
        IF x[2] = 0 THEN x[1] ELSE from[<<DotNetRound(x[1], x[2]), x[2] - 1>>]
  IN  from[<<s, 24>>]

-----------------------------------------------------------------------------
(* Bytes of the state, counted from 0.                                     *)
Byte(s, k) == {b \in 0..7 : 8 * (k % 4) + b \in s[k \div 4 + 1]}
XorByte(s, k, byte) ==
  [s EXCEPT ![k \div 4 + 1] = Xor(@, {8 * (k % 4) + b : b \in byte})]
Block(s) == [i \in 1..Rate |-> Byte(s, i - 1)]

(* for i in 0..chunk.len(): state[i] ^= chunk[i].                           *)
XorInto(s, chunk) ==
  LET from[x \in State \X (0..Rate)] ==
        IF x[2] = Len(chunk) THEN x[1]
        ELSE from[<<XorByte(x[1], x[2], chunk[x[2] + 1]), x[2] + 1>>]
  IN  from[<<s, 0>>]

(* A length overwrites the first eight bytes.                               *)
WithLength(s, n) == [s EXCEPT ![1] = Word(n), ![2] = {}]

Upto(a, b) == IF a < b THEN a ELSE b
Chunk(data, at) == SubSeq(data, at + 1, Upto(at + Rate, Len(data)))

-----------------------------------------------------------------------------
(* The two padding bytes, which may be the same one.                        *)
Padded(s, n) == XorByte(XorByte(s, n % Rate, Word(31)), Rate - 1, {7})

(* gimli_hash: whole blocks are permuted, a shorter last one is padded; the *)
(* output is taken a block at a time.                                       *)
RustHash(input, outLen) ==
  LET absorb[x \in State \X Nat] ==
        LET chunk == Chunk(input, x[2])
            t == XorInto(x[1], chunk)
        IN CASE x[2] >= Len(input) -> x[1]
             [] x[2] < Len(input) /\ Len(chunk) = Rate ->
                  absorb[<<RustPermute(t), x[2] + Rate>>]
             [] OTHER -> t
      squeeze[x \in State \X Nat] ==
        IF x[2] <= Rate THEN SubSeq(Block(x[1]), 1, x[2])
                        ELSE Block(x[1]) \o squeeze[<<RustPermute(x[1]), x[2] - Rate>>]
  IN squeeze[<<RustPermute(Padded(absorb[<<Zero, 0>>], Len(input))), outLen>>]

(* for chunk in buf.chunks(RATE_BYTES): every chunk is permuted.            *)
RustAbsorb(s, data) ==
  LET from[x \in State \X Nat] ==
        IF x[2] >= Len(data) THEN x[1]
        ELSE from[<<RustPermute(XorInto(x[1], Chunk(data, x[2]))), x[2] + Rate>>]
  IN  from[<<s, 0>>]

(* multigimli2, multigimli3: first all lengths, then all inputs.            *)
(* Mutation: without the lengths.                                           *)
LengthForgotten(s, n) == RustPermute(s)

RustAbsorbLength(s, n) == RustPermute(WithLength(s, n))

RustLengths(inputs) ==
  LET from[x \in State \X Nat] ==
        IF x[2] > Len(inputs) THEN x[1]
        ELSE from[<<RustAbsorbLength(x[1], Len(inputs[x[2]])), x[2] + 1>>]
  IN  from[<<Zero, 1>>]

RustMulti(inputs) ==
  LET from[x \in State \X Nat] ==
        IF x[2] > Len(inputs) THEN x[1]
        ELSE from[<<RustAbsorb(x[1], inputs[x[2]]), x[2] + 1>>]
  IN  Block(from[<<RustLengths(inputs), 1>>])

(* Gimli.Absorb and Gimli.Multi.                                            *)
DotNetAbsorb(s, data) ==
  LET from[x \in State \X Nat] ==
        IF x[2] >= Len(data) THEN x[1]
        ELSE from[<<DotNetPermute(XorInto(x[1], Chunk(data, x[2]))), x[2] + Rate>>]
  IN  from[<<s, 0>>]

DotNetLengths(inputs) ==
  LET from[x \in State \X Nat] ==
        IF x[2] > Len(inputs) THEN x[1]
        ELSE from[<<DotNetPermute(WithLength(x[1], Len(inputs[x[2]]))), x[2] + 1>>]
  IN  from[<<Zero, 1>>]

DotNetMulti(inputs) ==
  LET from[x \in State \X Nat] ==
        IF x[2] > Len(inputs) THEN x[1]
        ELSE from[<<DotNetAbsorb(x[1], inputs[x[2]]), x[2] + 1>>]
  IN  Block(from[<<DotNetLengths(inputs), 1>>])
=============================================================================
