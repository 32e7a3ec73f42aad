---------------------------- MODULE CipherProofs ----------------------------
(***************************************************************************)
(* What comes back when a ciphertext is decrypted, for every text, every   *)
(* length of a block and every permutation of the blocks.                  *)
(***************************************************************************)
EXTENDS Cipher, TLAPS

-----------------------------------------------------------------------------
(* Division. *)

LEMMA DivMod ==
    ASSUME NEW a \in Nat, NEW b \in Nat \ {0}
    PROVE  /\ a \div b \in Nat /\ a % b \in 0..(b - 1)
           /\ a = (a \div b) * b + (a % b)
  OBVIOUS

LEMMA Multiple ==
    ASSUME NEW m \in Nat, NEW b \in Nat
    PROVE  m * b \in Nat /\ (m >= 1 => m * b >= b)
  OBVIOUS

LEMMA DivUnique ==
    ASSUME NEW b \in Nat \ {0}, NEW q \in Nat, NEW r \in 0..(b - 1)
    PROVE  /\ q * b + r \in Nat
           /\ (q * b + r) \div b = q
           /\ (q * b + r) % b = r
<1> DEFINE a == q * b + r
           p == a \div b
           t == a % b
<1>1. a \in Nat
  OBVIOUS
<1> HIDE DEF a
<1>2. p \in Nat /\ t \in 0..(b - 1) /\ a = p * b + t
  BY <1>1, DivMod
<1> HIDE DEF p, t
<1>3. p * b + t = q * b + r
  BY <1>2 DEF a
<1>4. (p - q) * b = r - t /\ (q - p) * b = t - r
  BY <1>2, <1>3
<1>5. ~(p > q)
  <2> SUFFICES ASSUME p > q PROVE FALSE
    OBVIOUS
  <2>1. p - q \in Nat /\ p - q >= 1
    BY <1>2
  <2>2. (p - q) * b >= b
    BY <2>1, Multiple
  <2> QED
    BY <1>2, <1>4, <2>2
<1>6. ~(q > p)
  <2> SUFFICES ASSUME q > p PROVE FALSE
    OBVIOUS
  <2>1. q - p \in Nat /\ q - p >= 1
    BY <1>2
  <2>2. (q - p) * b >= b
    BY <2>1, Multiple
  <2> QED
    BY <1>2, <1>4, <2>2
<1>7. p = q
  BY <1>2, <1>5, <1>6
<1>8. t = r
  BY <1>2, <1>3, <1>7
<1> QED
  BY <1>1, <1>7, <1>8 DEF a, p, t

-----------------------------------------------------------------------------
(* The bytes of n blocks: byte j of block q is number q * BlockLen + j.    *)

LEMMA Place ==
    ASSUME NEW n \in Nat, NEW i \in 1..(n * BlockLen)
    PROVE  \E q \in 0..(n - 1), j \in 1..BlockLen :
              /\ i = q * BlockLen + j
              /\ (i - 1) \div BlockLen = q
              /\ ((i - 1) % BlockLen) + 1 = j
<1> DEFINE q == (i - 1) \div BlockLen
           r == (i - 1) % BlockLen
<1>1. BlockLen \in Nat \ {0}
  BY CipherAssumption
<1>2. n * BlockLen \in Nat
  BY <1>1, Multiple
<1>3. i - 1 \in Nat /\ i \in Nat /\ i <= n * BlockLen
  BY <1>2
<1>4. q \in Nat /\ r \in 0..(BlockLen - 1) /\ i - 1 = q * BlockLen + r
  BY <1>1, <1>3, DivMod
<1> HIDE DEF q, r
<1>5. q < n
  <2> SUFFICES ASSUME q >= n PROVE FALSE
    BY <1>4
  <2>1. q - n \in Nat
    BY <1>4
  <2>2. (q - n) * BlockLen \in Nat
    BY <1>1, <2>1, Multiple
  <2>3. (q - n) * BlockLen = q * BlockLen - n * BlockLen
    BY <1>1, <1>4
  <2>4. q * BlockLen \in Nat
    BY <1>1, <1>4, Multiple
  <2> QED
    BY <1>1, <1>2, <1>3, <1>4, <2>2, <2>3, <2>4
<1>6. q \in 0..(n - 1) /\ r + 1 \in 1..BlockLen
  BY <1>1, <1>4, <1>5
<1>7. q * BlockLen \in Nat
  BY <1>1, <1>4, Multiple
<1>8. i = q * BlockLen + (r + 1)
  BY <1>3, <1>4, <1>7
<1> QED
  BY <1>6, <1>8 DEF q, r

LEMMA Spot ==
    ASSUME NEW n \in Nat, NEW q \in 0..(n - 1), NEW j \in 1..BlockLen
    PROVE  /\ n * BlockLen \in Nat /\ q * BlockLen \in Nat
           /\ q * BlockLen + j \in 1..(n * BlockLen)
           /\ (q * BlockLen + j - 1) \div BlockLen = q
           /\ (q * BlockLen + j - 1) % BlockLen = j - 1
<1>1. BlockLen \in Nat \ {0} /\ q \in Nat /\ j - 1 \in 0..(BlockLen - 1)
  BY CipherAssumption
<1>2. n * BlockLen \in Nat /\ q * BlockLen \in Nat
  BY <1>1, Multiple
<1>3. n - q \in Nat /\ n - q >= 1
  OBVIOUS
<1>4. (n - q) * BlockLen >= BlockLen
  BY <1>1, <1>3, Multiple
<1>5. (n - q) * BlockLen = n * BlockLen - q * BlockLen
  BY <1>1
<1>6. q * BlockLen + j \in 1..(n * BlockLen)
  BY <1>1, <1>2, <1>4, <1>5
<1>7. q * BlockLen + j - 1 = q * BlockLen + (j - 1)
  BY <1>1, <1>2
<1>8. /\ (q * BlockLen + (j - 1)) \div BlockLen = q
      /\ (q * BlockLen + (j - 1)) % BlockLen = j - 1
  BY <1>1, DivUnique
<1> QED
  BY <1>2, <1>6, <1>7, <1>8

-----------------------------------------------------------------------------
(* The padding. *)

\* A text is filled up to whole blocks with zero bytes.
LEMMA PaddedText ==
    ASSUME NEW s \in Seq(Byte)
    PROVE  \E n \in Nat :
              /\ Padded(s) \in Seq(Byte)
              /\ Len(Padded(s)) = n * BlockLen /\ Len(s) <= n * BlockLen
              /\ \A i \in 1..(n * BlockLen) :
                    Padded(s)[i] = IF i <= Len(s) THEN s[i] ELSE 0
<1> DEFINE n == (Len(s) + BlockLen - 1) \div BlockLen
<1>1. BlockLen \in Nat \ {0} /\ Len(s) \in Nat /\ 0 \in Byte
  BY CipherAssumption
<1>2. Len(s) + BlockLen - 1 \in Nat
  BY <1>1
<1>3. PICK r \in 0..(BlockLen - 1) :
         n \in Nat /\ Len(s) + BlockLen - 1 = n * BlockLen + r
  BY <1>1, <1>2, DivMod
<1>4. Padded(s) = [i \in 1..(n * BlockLen) |-> IF i <= Len(s) THEN s[i] ELSE 0]
  BY DEF Padded
<1> HIDE DEF n
<1>5. n * BlockLen \in Nat
  BY <1>1, <1>3, Multiple
<1>6. Len(s) <= n * BlockLen
  BY <1>1, <1>3, <1>5
<1>7. Padded(s) \in [1..(n * BlockLen) -> Byte]
  BY <1>1, <1>4, <1>5
<1>8. Padded(s) \in Seq(Byte) /\ Len(Padded(s)) = n * BlockLen
  BY <1>5, <1>7
<1> QED
  BY <1>3, <1>4, <1>6, <1>8

\* Whole blocks stay as they are.
LEMMA PaddedBlocks ==
    ASSUME NEW s \in Seq(Byte), NEW n \in Nat, Len(s) = n * BlockLen
    PROVE  Padded(s) = s
<1>1. BlockLen \in Nat \ {0} /\ BlockLen - 1 \in 0..(BlockLen - 1)
  BY CipherAssumption
<1>2. n * BlockLen \in Nat
  BY <1>1, Multiple
<1>3. Len(s) + BlockLen - 1 = n * BlockLen + (BlockLen - 1)
  BY <1>1, <1>2
<1>4. (n * BlockLen + (BlockLen - 1)) \div BlockLen = n
  BY <1>1, DivUnique
<1>5. (Len(s) + BlockLen - 1) \div BlockLen = n
  BY <1>3, <1>4
<1>6. Padded(s) = [i \in 1..(n * BlockLen) |-> IF i <= Len(s) THEN s[i] ELSE 0]
  BY <1>5 DEF Padded
<1>7. \A i \in 1..(n * BlockLen) : i <= Len(s)
  BY <1>2
<1>8. Padded(s) = [i \in 1..Len(s) |-> s[i]]
  BY <1>6, <1>7
<1> QED
  BY <1>8

-----------------------------------------------------------------------------
(* Block by block. *)

\* Byte i is byte j of block q.
LEMMA BlockOf ==
    ASSUME NEW n \in Nat, NEW q \in 0..(n - 1), NEW j \in 1..BlockLen,
           NEW i, i = q * BlockLen + j
    PROVE  /\ i \in 1..(n * BlockLen)
           /\ (i - 1) \div BlockLen = q
           /\ ((i - 1) % BlockLen) + 1 = j
<1>1. /\ i \in 1..(n * BlockLen)
      /\ (i - 1) \div BlockLen = q /\ (i - 1) % BlockLen = j - 1
  BY Spot
<1>2. (j - 1) + 1 = j
  BY CipherAssumption
<1> QED
  BY <1>1, <1>2

LEMMA Blockwise ==
    ASSUME NEW s \in Seq(Byte), NEW n \in Nat, Len(s) = n * BlockLen,
           NEW f \in [Block -> Block]
    PROVE  /\ ByBlock(f, s) \in Seq(Byte)
           /\ Len(ByBlock(f, s)) = n * BlockLen
           /\ \A i \in 1..(n * BlockLen) :
                 \E j \in 1..BlockLen :
                 /\ BlockAt(s, i) \in Block
                 /\ BlockAt(s, i)[j] = s[i]
                 /\ ByBlock(f, s)[i] = f[BlockAt(s, i)][j]
                 /\ ((i - 1) % BlockLen) + 1 = j
                 /\ BlockAt(ByBlock(f, s), i) = f[BlockAt(s, i)]
<1> DEFINE c == ByBlock(f, s)
<1>1. n * BlockLen \in Nat /\ BlockLen \in Nat \ {0}
  BY Multiple, CipherAssumption
<1>2. c = [i \in 1..(n * BlockLen) |-> f[BlockAt(s, i)][((i - 1) % BlockLen) + 1]]
  BY PaddedBlocks DEF ByBlock
<1> HIDE DEF c
<1>3. ASSUME NEW i \in 1..(n * BlockLen)
      PROVE  \E j \in 1..BlockLen :
             /\ BlockAt(s, i) \in Block
             /\ BlockAt(s, i)[j] = s[i]
             /\ c[i] = f[BlockAt(s, i)][j] /\ c[i] \in Byte
             /\ ((i - 1) % BlockLen) + 1 = j
             /\ BlockAt(c, i) = f[BlockAt(s, i)]
  <2>1. PICK q \in 0..(n - 1), j \in 1..BlockLen : i = q * BlockLen + j
    BY Place
  <2> DEFINE base == q * BlockLen
             b == [k \in 1..BlockLen |-> s[base + k]]
  <2>2. /\ BlockAt(s, i) = b
        /\ BlockAt(c, i) = [k \in 1..BlockLen |-> c[base + k]]
        /\ ((i - 1) % BlockLen) + 1 = j
    <3>1. (i - 1) \div BlockLen = q /\ ((i - 1) % BlockLen) + 1 = j
      BY <2>1, BlockOf
    <3>2. BlockAt(s, i) = b
      BY <3>1, Zenon DEF BlockAt
    <3>3. BlockAt(c, i) = [k \in 1..BlockLen |-> c[base + k]]
      BY <3>1, Zenon DEF BlockAt
    <3> QED
      BY <3>1, <3>2, <3>3
  <2>3. ASSUME NEW k \in 1..BlockLen
        PROVE  s[base + k] \in Byte /\ c[base + k] = f[b][k]
    <3>1. /\ base + k \in 1..(n * BlockLen)
          /\ (((base + k) - 1) % BlockLen) + 1 = k
          /\ BlockAt(s, base + k) = b
      <4> DEFINE i0 == base + k
      <4>1. i0 = q * BlockLen + k
        OBVIOUS
      <4> HIDE DEF i0
      <4>2. /\ i0 \in 1..(n * BlockLen)
            /\ ((i0 - 1) % BlockLen) + 1 = k
            /\ BlockAt(s, i0) = b
        <5>1. /\ i0 \in 1..(n * BlockLen) /\ (i0 - 1) \div BlockLen = q
              /\ ((i0 - 1) % BlockLen) + 1 = k
          BY <4>1, BlockOf
        <5>2. BlockAt(s, i0) = b
          BY <5>1, Zenon DEF BlockAt
        <5> QED
          BY <5>1, <5>2
      <4> QED
        BY <4>2 DEF i0
    <3> DEFINE x == base + k
    <3>2. x \in 1..(n * BlockLen) /\ ((x - 1) % BlockLen) + 1 = k /\ BlockAt(s, x) = b
      BY <3>1
    <3> HIDE DEF x, base, b
    <3>3. c[x] = f[BlockAt(s, x)][((x - 1) % BlockLen) + 1]
      BY <1>2, <3>2
    <3>4. s[x] \in Byte
      BY <3>2
    <3>5. c[x] = f[b][k]
      BY <3>2, <3>3
    <3> QED
      BY <3>4, <3>5 DEF x
  <2>4. b \in Block
    BY <2>3 DEF Block
  <2>5. f[b] \in Block /\ b[j] = s[i]
    BY <2>1, <2>4
  <2>6. c[i] = f[b][j]
    BY <2>1, <2>3
  <2> HIDE DEF b
  <2>7. [k \in 1..BlockLen |-> c[base + k]] = f[b]
    <3>1. f[b] = [k \in 1..BlockLen |-> f[b][k]]
      BY <2>5 DEF Block
    <3> QED
      BY <2>3, <3>1
  <2>8. f[b][j] \in Byte
    BY <2>5 DEF Block
  <2> QED
    BY <2>2, <2>4, <2>5, <2>6, <2>7, <2>8
<1>4. c \in Seq(Byte) /\ Len(c) = n * BlockLen
  <2>1. \A i \in 1..(n * BlockLen) : c[i] \in Byte
    BY <1>3
  <2>2. c \in [1..(n * BlockLen) -> Byte]
    BY <1>2, <2>1
  <2> QED
    BY <1>1, <2>2
<1> QED
  BY <1>3, <1>4 DEF c

\* A key's inverse undoes it.
LEMMA KeyInverse ==
    ASSUME NEW key \in Key
    PROVE  /\ key \in [Block -> Block]
           /\ Inverse(key, Block, Block) \in [Block -> Block]
           /\ \A b \in Block : Inverse(key, Block, Block)[key[b]] = b
<1> DEFINE inv == Inverse(key, Block, Block)
<1>1. /\ key \in [Block -> Block]
      /\ \A a, b \in Block : key[a] = key[b] => a = b
      /\ \A t \in Block : \E b \in Block : key[b] = t
  BY DEF Key, Bijection, Injection, Surjection, IsInjective
<1>2. inv = [t \in Block |-> CHOOSE b \in Block : t \in Range(key) => key[b] = t]
  BY DEF Inverse
<1>3. ASSUME NEW t \in Block
      PROVE  inv[t] \in Block /\ (t \in Range(key) => key[inv[t]] = t)
  BY <1>1, <1>2
<1>4. inv \in [Block -> Block]
  BY <1>2, <1>3
<1>5. ASSUME NEW b \in Block
      PROVE  inv[key[b]] = b
  <2>1. key[b] \in Block /\ key[b] \in Range(key)
    BY <1>1 DEF Range
  <2>2. inv[key[b]] \in Block /\ key[inv[key[b]]] = key[b]
    BY <1>3, <2>1
  <2> QED
    BY <1>1, <2>2
<1> QED
  BY <1>1, <1>4, <1>5

-----------------------------------------------------------------------------
\* des_decrypt (utils.cpp 69-117) gives back the text that des_encrypt (15-66)
\* got, filled up with zero bytes to whole blocks, under every key.
THEOREM RoundTrip ==
    ASSUME NEW text \in Seq(Byte), NEW key \in Key
    PROVE  des_decrypt(des_encrypt(text, key), key) = Padded(text)
<1> DEFINE p == Padded(text)
           inv == Inverse(key, Block, Block)
           c == ByBlock(key, p)
           d == ByBlock(inv, c)
<1>1. PICK n \in Nat : p \in Seq(Byte) /\ Len(p) = n * BlockLen
  BY PaddedText
<1>2. /\ key \in [Block -> Block] /\ inv \in [Block -> Block]
      /\ \A b \in Block : inv[key[b]] = b
  BY KeyInverse
<1>3. des_encrypt(text, key) = c
  <2>1. Padded(p) = p
    BY <1>1, PaddedBlocks
  <2> QED
    BY <2>1 DEF des_encrypt, ByBlock
<1> HIDE DEF p, inv
<1>4. /\ c \in Seq(Byte) /\ Len(c) = n * BlockLen
      /\ \A i \in 1..(n * BlockLen) : \E j \in 1..BlockLen :
            /\ BlockAt(p, i) \in Block
            /\ BlockAt(p, i)[j] = p[i]
            /\ c[i] = key[BlockAt(p, i)][j]
            /\ ((i - 1) % BlockLen) + 1 = j
            /\ BlockAt(c, i) = key[BlockAt(p, i)]
  BY <1>1, <1>2, Blockwise, Zenon
<1> HIDE DEF c
<1>5. /\ d \in Seq(Byte) /\ Len(d) = n * BlockLen
      /\ \A i \in 1..(n * BlockLen) : \E j \in 1..BlockLen :
            /\ d[i] = inv[BlockAt(c, i)][j]
            /\ ((i - 1) % BlockLen) + 1 = j
  BY <1>2, <1>4, Blockwise
<1> HIDE DEF d
<1>6. ASSUME NEW i \in 1..(n * BlockLen) PROVE d[i] = p[i]
  <2> DEFINE j == ((i - 1) % BlockLen) + 1
  <2>1. /\ BlockAt(p, i) \in Block /\ BlockAt(p, i)[j] = p[i]
        /\ BlockAt(c, i) = key[BlockAt(p, i)]
    BY <1>4
  <2>2. d[i] = inv[BlockAt(c, i)][j]
    BY <1>5
  <2>3. inv[BlockAt(c, i)] = BlockAt(p, i)
    BY <1>2, <2>1
  <2> HIDE DEF j
  <2> QED
    BY <2>1, <2>2, <2>3
<1>7. d = p
  BY <1>1, <1>5, <1>6
<1> QED
  BY <1>3, <1>7 DEF des_decrypt, d, p, inv

\* A text without a zero byte comes back exactly, whatever its length, once the
\* zero bytes of the padding end the string that recv_process prints with %s
\* (client_linux.cpp 214-243).  That the ciphertext has no zero byte either is
\* what the clients take for granted: des_decrypt sees only CStr of it.
THEOREM TextComesBack ==
    ASSUME NEW text \in Seq(Byte), NEW key \in Key,
           \A i \in 1..Len(text) : text[i] # 0
    PROVE  CStr(des_decrypt(des_encrypt(text, key), key)) = text
<1> DEFINE p == Padded(text)
           I == {i \in 1..Len(p) : p[i] = 0}
<1>1. des_decrypt(des_encrypt(text, key), key) = p
  BY RoundTrip
<1>2. PICK m \in Nat :
         /\ p \in Seq(Byte) /\ Len(p) = m /\ Len(text) <= m
         /\ \A i \in 1..m : p[i] = IF i <= Len(text) THEN text[i] ELSE 0
  <2>1. PICK n \in Nat :
           /\ p \in Seq(Byte)
           /\ Len(p) = n * BlockLen /\ Len(text) <= n * BlockLen
           /\ \A i \in 1..(n * BlockLen) :
                 p[i] = IF i <= Len(text) THEN text[i] ELSE 0
    BY PaddedText
  <2> QED
    BY <2>1
<1> HIDE DEF p
<1>3. CStr(p) = LET nul == IF I # {} THEN Min(I) ELSE 0
                IN IF nul = 0 THEN p ELSE SubSeq(p, 1, nul - 1)
  BY DEF CStr, SelectInSeq
<1>4. Len(text) \in Nat
  OBVIOUS
<1>5. CASE Len(text) = m
  <2>1. I = {}
    BY <1>2, <1>4, <1>5
  <2>2. CStr(p) = p
    BY <1>3, <2>1
  <2>3. p = text
    BY <1>2, <1>4, <1>5
  <2> QED
    BY <1>1, <2>2, <2>3
<1>6. CASE Len(text) < m
  <2>1. I = (Len(text) + 1)..m
    BY <1>2, <1>4, <1>6
  <2>2. Min(I) = Len(text) + 1
    BY <1>2, <1>4, <1>6, <2>1 DEF Min
  <2> HIDE DEF I
  <2>3. I # {}
    <3>1. Len(text) + 1 \in (Len(text) + 1)..m
      BY <1>2, <1>4, <1>6
    <3> QED
      BY <2>1, <3>1
  <2>4. CStr(p) = SubSeq(p, 1, Len(text))
    BY <1>3, <1>4, <2>2, <2>3
  <2>5. SubSeq(p, 1, Len(text)) = text
    BY <1>2, <1>4, <1>6
  <2> QED
    BY <1>1, <2>4, <2>5
<1> QED
  BY <1>2, <1>4, <1>5, <1>6
=============================================================================
