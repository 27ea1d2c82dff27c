------------------------------- MODULE Cipher -------------------------------
(***************************************************************************)
(* One direction of a link, from a Rust node to a .NET node, as bytes: the  *)
(* Rust end encrypts a packet's bytes as it sends them, in pieces of any    *)
(* size, and the .NET end decrypts pieces of other sizes (a length, a body  *)
(* and a tag of a frame).  Each end keeps a keystream and its place in the  *)
(* current block; nothing on the wire says where the other end is.          *)
(***************************************************************************)
EXTENDS Gimli, FiniteSets

CONSTANTS
  Key,          \* the session key of this direction, derived by both ends
  Message,      \* the bytes to send
  Pieces        \* sizes in which bytes are encrypted and decrypted

(* A byte, as the set of its one-bits.                                      *)
Octet == SUBSET (0..7)

ASSUME CipherAssumption ==
  Key \in Seq(Octet) /\ Message \in Seq(Octet) /\ Pieces \subseteq Nat

VARIABLES
  sent,         \* how many bytes of Message were encrypted
  wire,         \* encrypted bytes that were not read yet
  got,          \* the bytes the .NET end has decrypted
  rust,         \* KeystreamGen of the Rust end: state and n
  dotnet        \* Keystream of the .NET end: state and position

vars == <<sent, wire, got, rust, dotnet>>

Piece(n) == SubSeq(Message, sent + 1, sent + n)

Init ==
  /\ sent = 0
  /\ wire = <<>>
  /\ got = <<>>
  /\ rust = [state |-> RustAbsorb(RustAbsorbLength(Zero, Len(Key)), Key), n |-> 0]
  /\ dotnet = [state |-> DotNetAbsorb(DotNetPermute(WithLength(Zero, Len(Key))), Key),
               position |-> 0]

(* KeystreamGen.next: after a byte, the place in the block moves on.        *)
(* Mutation: the block is one byte longer than the rate.                    *)
AdvancedLate(g) ==
  IF g.n = Rate THEN [state |-> RustPermute(g.state), n |-> 0]
                ELSE [g EXCEPT !.n = @ + 1]

Advanced(g) ==
  IF g.n + 1 = Rate THEN [state |-> RustPermute(g.state), n |-> 0]
                    ELSE [g EXCEPT !.n = @ + 1]

Encrypt(n) ==
  LET gen[i \in 0..n] == IF i = 0 THEN rust ELSE Advanced(gen[i - 1]) IN
  /\ sent + n <= Len(Message)
  /\ sent' = sent + n
  /\ wire' = wire \o [i \in 1..n |-> Xor(Piece(n)[i], Byte(gen[i - 1].state, gen[i - 1].n))]
  /\ rust' = gen[n]
  /\ UNCHANGED <<got, dotnet>>

(* Keystream.Apply over a span of n bytes.                                  *)
Decrypt(n) ==
  LET step(k) ==
        IF k.position + 1 = Rate THEN [state |-> DotNetPermute(k.state), position |-> 0]
                                 ELSE [k EXCEPT !.position = @ + 1]
      ks[i \in 0..n] == IF i = 0 THEN dotnet ELSE step(ks[i - 1])
  IN
  /\ n <= Len(wire)
  /\ got' = got \o [i \in 1..n |-> Xor(wire[i], Byte(ks[i - 1].state, ks[i - 1].position))]
  /\ wire' = SubSeq(wire, n + 1, Len(wire))
  /\ dotnet' = ks[n]
  /\ UNCHANGED <<sent, rust>>

Next == \E n \in Pieces : Encrypt(n) \/ Decrypt(n)

Spec == Init /\ [][Next]_vars

-----------------------------------------------------------------------------
(* However the bytes were cut up on either side, and across the ends of     *)
(* blocks, what the .NET end has decrypted is what the Rust end encrypted.  *)
DecryptsToTheMessage == got = SubSeq(Message, 1, Len(got))

(* The tag that goes with a packet of the bytes so far is the same for both *)
(* implementations, for lengths that fill the last block more or less.      *)
(* Checked where nothing has been read yet: it is about sent only.          *)
TagsAgree ==
  got = <<>> => LET p == SubSeq(Message, 1, sent) IN
                RustMulti(<<Key, p>>) = DotNetMulti(<<Key, p>>)

(* A tag tells where one input ends and the next one starts, which is what  *)
(* the lengths in front are for: as many zero bytes as were sent so far     *)
(* have another tag for each place to cut them in two.  (A short block is   *)
(* filled with zeros, so zero bytes are the hard case.)                     *)
TagsTellInputsApart ==
  got = <<>> /\ sent <= Rate + 2 =>
    LET zeros(n) == [i \in 1..n |-> {}]
    IN  Cardinality({RustMulti(<<zeros(i), zeros(sent - i)>>) : i \in 0..sent}) = sent + 1
=============================================================================
