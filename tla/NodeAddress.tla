---------------------------- MODULE NodeAddress ----------------------------
(***************************************************************************)
(* Deriving a node's IPv6 address from its name: Speck rounds (raw_speck.rs)*)
(* over the bytes of the name, then as many more as it takes to arrive at   *)
(* the prefix of the mesh (ip_addr.rs).  The .NET node (Protocol.cs) must   *)
(* come to the same address, or the two cannot reach each other by name.    *)
(* Both are run side by side here, a round per step.                        *)
(*                                                                          *)
(* A word is the set of the positions of its one-bits.                      *)
(***************************************************************************)
EXTENDS Integers, Sequences

CONSTANT Names    \* names, as sequences of bytes

VARIABLES
  keys,           \* the keys of the rounds that are left before the search
  rust,           \* <<a, b>> of IpAddr::from_node_name
  dotnet,         \* <<a, b>> of Protocol.NodeAddress
  done            \* the implementations that have left their loop

vars == <<keys, rust, dotnet, done>>

Bits == 0..63
Word(n) == {i \in 0..30 : (n \div 2^i) % 2 = 1}
Xor(x, y) == (x \ y) \cup (y \ x)
RotateLeft(x, k) == {(i + k) % 64 : i \in x}
RotateRight(x, k) == {(i - k + 64) % 64 : i \in x}

(* The carry goes from the lowest place upwards, and out of the last one is *)
(* lost.                                                                    *)
WrappingAdd(x, y) ==
  LET carries(i, in) == (i \in x /\ i \in y) \/ (in /\ (i \in x \/ i \in y))
      from[at \in SUBSET Bits, i \in Bits] ==
        IF i = 63 THEN at
        ELSE from[IF carries(i, i \in at) THEN at \cup {i + 1} ELSE at, i + 1]
  IN  Xor(Xor(x, y), from[{}, 0])

(* A round.                                                                 *)
Ernd(x, y, k) ==
  LET mixed == Xor(WrappingAdd(RotateRight(x, 8), y), k)
  IN  <<mixed, Xor(RotateLeft(y, 3), mixed)>>

(* Protocol.SpeckRound.                                                     *)
SpeckRound(x, y, k) ==
  LET x2 == Xor(WrappingAdd(RotateRight(x, 8), y), k)
      y2 == Xor(RotateLeft(y, 3), x2)
  IN  <<x2, y2>>

-----------------------------------------------------------------------------
(* Each byte of the name is followed by 32 rounds with key 0, and there are *)
(* 32 more at the end.                                                      *)
RoundKeys(name) ==
  [i \in 1..(33 * Len(name) + 32) |->
     IF i % 33 = 1 /\ i <= 33 * Len(name) THEN Word(name[i \div 33 + 1]) ELSE {}]

Init ==
  \E name \in Names :
    /\ keys = RoundKeys(name)
    /\ rust = <<Word(69), Word(Len(name))>>
    /\ dotnet = <<Word(69), Word(Len(name))>>
    /\ done = {}

(* Byte i of a word in little-endian order, and the byte 0xfd.              *)
Byte(w, i) == {b \in 0..7 : 8 * i + b \in w}
Fd == {0, 2, 3, 4, 5, 6, 7}

(* buf[0] == 0xfd && buf[1] == 0x00, and (b & 0xffff) == 0x00fd.            *)
(* Mutation of the first: the second byte is not looked at.                 *)
RustFirstByte(b) == Byte(b, 0) = Fd

RustHasPrefix(b) == Byte(b, 0) = Fd /\ Byte(b, 1) = {}

DotNetHasPrefix(b) == b \cap 0..15 = Fd

(* (a, b) = ernd(a, b, k) and the same of the .NET node.                    *)
Rounds(k) ==
  /\ rust' = Ernd(rust[1], rust[2], k)
  /\ dotnet' = SpeckRound(dotnet[1], dotnet[2], k)

Mix ==
  /\ keys # <<>>
  /\ Rounds(Head(keys))
  /\ keys' = Tail(keys)
  /\ UNCHANGED done

(* The loop: another round unless the prefix is there.                      *)
Search ==
  /\ keys = <<>>
  /\ done = {}
  /\ ~ RustHasPrefix(rust[2]) /\ ~ DotNetHasPrefix(dotnet[2])
  /\ Rounds({})
  /\ UNCHANGED <<keys, done>>

Found ==
  /\ keys = <<>>
  /\ done = {}
  /\ done' = {i \in {"rust"} : RustHasPrefix(rust[2])}
               \cup {i \in {"dotnet"} : DotNetHasPrefix(dotnet[2])}
  /\ done' # {}
  /\ UNCHANGED <<keys, rust, dotnet>>

Next == Mix \/ Search \/ Found

(* A program that computes and does not stop.                               *)
Spec == Init /\ [][Next]_vars /\ WF_vars(Next)

-----------------------------------------------------------------------------
(* b's bytes first, then a's.                                               *)
Address(ab) == [i \in 0..15 |-> IF i < 8 THEN Byte(ab[2], i) ELSE Byte(ab[1], i - 8)]

(* The same address, after as many rounds, and one of the mesh (README.md:  *)
(* "its IPv6 address (in fd00::/16) is derived from" the name): with the    *)
(* prefix in the order of the bytes on the wire.                            *)
SameMeshAddress ==
  /\ done = {"rust", "dotnet"} /\ rust = dotnet
  /\ Address(rust)[0] = Fd /\ Address(rust)[1] = {}

(* Both nodes find the same address for the name, and they do find one.     *)
FindsMeshAddress == <>SameMeshAddress
=============================================================================
