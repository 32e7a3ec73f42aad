------------------------------- MODULE Cipher -------------------------------
(***************************************************************************)
(* utils.cpp of the clients: DES in ECB mode as both clients apply it to   *)
(* the text of a message.  The block cipher itself is a permutation of the *)
(* blocks; what matters here is what happens around it: the padding with   *)
(* zero bytes, and the C strings the ciphertext is squeezed through.       *)
(***************************************************************************)
EXTENDS Naturals, Sequences, SequencesExt

CONSTANTS Byte,      \* values of a byte; 0 is NUL
          BlockLen   \* bytes of a block (8)

ASSUME CipherAssumption ==
    /\ Byte \subseteq Nat /\ 0 \in Byte
    /\ BlockLen \in Nat \ {0}

Block == [1..BlockLen -> Byte]

\* DES under a key is one of the permutations of the blocks.
Key == Bijection(Block, Block)

\* The last block is filled up with zero bytes.
Padded(s) ==
    LET n == (Len(s) + BlockLen - 1) \div BlockLen
    IN [i \in 1..(n * BlockLen) |-> IF i <= Len(s) THEN s[i] ELSE 0]

\* The block that byte i of s belongs to.
BlockAt(s, i) ==
    LET before == ((i - 1) \div BlockLen) * BlockLen
    IN [j \in 1..BlockLen |-> s[before + j]]

ByBlock(permutation, s) ==
    LET p == Padded(s)
    IN [i \in 1..Len(p) |->
            permutation[BlockAt(p, i)][((i - 1) % BlockLen) + 1]]

des_encrypt(text, key) == ByBlock(key, text)

des_decrypt(text, key) == ByBlock(Inverse(key, Block, Block), text)

\* What strlen(), %s and the constructor of std::string see of a char array.
CStr(s) ==
    LET nul == SelectInSeq(s, LAMBDA b : b = 0)
    IN IF nul = 0 THEN s ELSE SubSeq(s, 1, nul - 1)
=============================================================================
