------------------------------ MODULE MCBytes -------------------------------
(* Small instances of Cipher and of NodeAddress, the two places where the   *)
(* implementations have to agree on every bit.  They share no state: view   *)
(* says which of them moves, the other one stays as it was at the start.    *)
EXTENDS Cipher

VARIABLES view, keys, ab, abDotNet, done

(* Names for which the search is short: vy, lq, sb.                         *)
FirstName == <<118, 121>>
ShortNames == {FirstName, <<108, 113>>, <<115, 98>>}

N == INSTANCE NodeAddress WITH Names <- ShortNames, rust <- ab, dotnet <- abDotNet

nameVars == <<keys, ab, abDotNet, done>>
allVars == <<view, vars, nameVars>>

(* The messages of the test vectors of gimli_hash, and the vectors.         *)
Bytes(nums) == [i \in 1..Len(nums) |-> Word(nums[i])]
Dwarf == Bytes(
  <<84, 104, 101, 114, 101, 39, 115, 32, 112, 108, 101, 110, 116, 121, 32,
    102, 111, 114, 32, 116, 104, 101, 32, 98, 111, 116, 104, 32, 111, 102,
    32, 117, 115, 44, 32, 109, 97, 121, 32, 116, 104, 101, 32, 98, 101,
    115, 116, 32, 68, 119, 97, 114, 102, 32, 119, 105, 110, 46>>)
HashOfDwarf == Bytes(
  <<74, 251, 63, 247, 132, 199, 173, 105, 67, 212, 156, 245, 218, 121,
    250, 207, 167, 196, 67, 78, 28, 228, 79, 93, 212, 178, 143, 145, 168,
    77, 34, 200>>)
HashOfNothing == Bytes(
  <<176, 99, 75, 44, 11, 8, 42, 237, 197, 192, 162, 254, 78, 227, 173,
    207, 201, 137, 236, 5, 222, 111, 0, 173, 219, 4, 179, 170, 172, 39,
    31, 103>>)

SomeKey == [i \in 1..Rate |-> Word(i)]

MCInit ==
  /\ Init /\ N!Init
  /\ view \in {"cipher", "address"}
  /\ view = "cipher" => keys = N!RoundKeys(FirstName)

InAddress == view = "address" /\ N!Next /\ UNCHANGED <<view, vars>>

MCNext ==
  \/ view = "cipher" /\ Next /\ UNCHANGED <<view, nameVars>>
  \/ InAddress

MCSpec == MCInit /\ [][MCNext]_allVars /\ WF_allVars(InAddress)

-----------------------------------------------------------------------------
(* gimli_hash gives the digests that the tests of gimli.rs expect.          *)
HashVectors ==
  got = <<>> => /\ sent = 0 => RustHash(<<>>, 32) = HashOfNothing
                /\ sent = Len(Dwarf) => RustHash(Dwarf, 32) = HashOfDwarf

(* What is made of the permutation is right: both implementations give the  *)
(* same tag (Cipher!TagsAgree), a tag tells where its inputs end            *)
(* (Cipher!TagsTellInputsApart), and gimli_hash has the expected digests.   *)
HashesAreRight ==
  view = "cipher" => TagsAgree /\ TagsTellInputsApart /\ HashVectors

(* Both nodes find the same address for a name, one of the mesh, after as   *)
(* many rounds: NodeAddress!FindsMeshAddress.                               *)
FindsMeshAddress == (view = "address") => N!FindsMeshAddress
=============================================================================
