---------------------------- MODULE FramingProofs ----------------------------
(***************************************************************************)
(* What is proved of Framing, for all texts, block lengths, permutations,  *)
(* lengths of headers, recv() and socket buffers, and any number of        *)
(* messages.                                                               *)
(*                                                                         *)
(* A stream is cut twice: into the messages it was sent as, and into the   *)
(* bytes that have arrived and those that have not.  The invariant says    *)
(* that both cuts are of the same stream: what was sent is what was taken, *)
(* then the buffer, then the rest.  FlattenSeq chooses its function, so    *)
(* what it does to one message more is proved from the least place where   *)
(* two such functions could differ.                                        *)
(***************************************************************************)
EXTENDS Framing, CipherProofs, SequenceTheorems, FiniteSetTheorems

-----------------------------------------------------------------------------
(* Streams of several pieces. *)

\* The least element of a set of numbers: what stands for induction here.
LEMMA LeastNumber ==
    ASSUME NEW T \in SUBSET Nat, T # {}
    PROVE  \E m \in T : \A k \in T : m <= k
<1> DEFINE R == OpToRel(<, Nat)
<1>1. \A a, b \in Nat : a < b => <<a, b>> \in R
  BY DEF OpToRel
<1>2. IsWellFoundedOn(R, Nat)
  BY NatLessThanWellFounded, Zenon
<1> HIDE DEF R
<1>3. PICK m \in T : \A k \in T : <<k, m>> \notin R
  BY <1>2, WFMin
<1>4. \A k \in T : ~(k < m)
  BY <1>1, <1>3
<1> QED
  BY <1>4

\* FlattenSeq joins the pieces from left to right: the function it chooses is
\* the one that joins one piece more at each place.
LEMMA Flattened ==
    ASSUME NEW C, NEW ss \in Seq(Seq(C)), Len(ss) # 0
    PROVE  \E f \in [1..Len(ss) -> Seq(C)] :
              /\ FlattenSeq(ss) = f[Len(ss)]
              /\ \A i \in 1..Len(ss) :
                    f[i] = IF i = 1 THEN ss[i] ELSE f[i - 1] \o ss[i]
<1> DEFINE n == Len(ss)
           Step(f, i) == IF i = 1 THEN ss[i] ELSE f[i - 1] \o ss[i]
           Good(f, k) == \A i \in 1..k : f[i] = Step(f, i)
           Has(k) == \E f \in [1..k -> Seq(C)] : Good(f, k)
           T == {k \in 0..n : ~Has(k)}
           Whole(f) == f = [i \in 1..n |-> Step(f, i)]
           d == CHOOSE f : Whole(f)
<1>1. n \in Nat \ {0} /\ \A i \in 1..n : ss[i] \in Seq(C)
  OBVIOUS
<1>2. Has(0)
  <2>1. [i \in 1..0 |-> <<>>] \in [1..0 -> Seq(C)]
    OBVIOUS
  <2>2. Good([i \in 1..0 |-> <<>>], 0)
    OBVIOUS
  <2> QED
    BY <2>1, <2>2
<1>3. ASSUME NEW k \in 1..n, Has(k - 1)
      PROVE  Has(k)
  <2>1. PICK g \in [1..(k - 1) -> Seq(C)] : Good(g, k - 1)
    BY <1>3
  <2> DEFINE h == [i \in 1..k |-> IF i < k THEN g[i] ELSE Step(g, k)]
  <2> HIDE DEF n
  <2>2. k \in Nat /\ k # 0 /\ 1..(k - 1) = {i \in 1..k : i < k}
    BY <1>1
  <2>3. Step(g, k) \in Seq(C)
    <3>1. ss[k] \in Seq(C)
      BY <1>1
    <3>2. CASE k = 1
      BY <3>1, <3>2
    <3>3. CASE k # 1
      <4>1. g[k - 1] \in Seq(C)
        BY <3>3, <2>2
      <4>2. g[k - 1] \o ss[k] \in Seq(C)
        BY <3>1, <4>1, ConcatProperties
      <4> QED
        BY <3>3, <4>2
    <3> QED
      BY <3>2, <3>3
  <2>4. h \in [1..k -> Seq(C)]
    <3>1. ASSUME NEW i \in 1..k PROVE h[i] \in Seq(C)
      <4>1. i < k => g[i] \in Seq(C)
        BY <2>2
      <4> QED
        BY <4>1, <2>3
    <3> QED
      BY <3>1
  <2>5. Good(h, k)
    <3> SUFFICES ASSUME NEW i \in 1..k PROVE h[i] = Step(h, i)
      OBVIOUS
    <3>1. i # 1 => h[i - 1] = g[i - 1]
      BY <2>2
    <3>2. Step(h, i) = Step(g, i)
      BY <3>1
    <3>3. i < k => g[i] = Step(g, i)
      BY <2>1, <2>2
    <3>4. h[i] = IF i < k THEN g[i] ELSE Step(g, k)
      OBVIOUS
    <3>5. ~(i < k) => i = k
      BY <2>2
    <3> HIDE DEF h, Step
    <3> QED
      BY <3>2, <3>3, <3>4, <3>5
  <2> QED
    BY <2>4, <2>5
<1> HIDE DEF Has
<1>4. Has(n)
  <2>1. SUFFICES ASSUME ~Has(n) PROVE FALSE
    OBVIOUS
  <2>2. T \in SUBSET Nat /\ n \in T
    <3>1. n \in 0..n /\ 0..n \subseteq Nat
      BY <1>1
    <3> QED
      BY <2>1, <3>1
  <2>3. PICK k \in T : \A j \in T : k <= j
    BY <2>2, LeastNumber
  <2>4. k \in 0..n /\ ~Has(k) /\ k # 0
    BY <2>3, <1>2
  <2>5. k - 1 \in 0..n /\ ~(k <= k - 1)
    BY <2>4, <1>1
  <2>6. Has(k - 1)
    BY <2>3, <2>5
  <2> QED
    BY <2>4, <2>6, <1>1, <1>3
<1>5. PICK e \in [1..n -> Seq(C)] : Good(e, n)
  BY <1>4 DEF Has
<1> HIDE DEF Step, n
<1>6. Whole(e)
  <2>1. e = [i \in 1..n |-> e[i]]
    OBVIOUS
  <2>2. \A i \in 1..n : e[i] = Step(e, i)
    BY <1>5
  <2> QED
    BY <2>1, <2>2
<1> HIDE DEF Whole
<1>7. Whole(d)
  BY <1>6, Zenon
<1>8. FlattenSeq(ss) = d[n]
  BY <1>1, Zenon DEF FlattenSeq, Whole, Step, n
<1> HIDE DEF d
<1>9. \A i \in 1..n : d[i] = Step(d, i)
  BY <1>7 DEF Whole
<1>10. \A i \in 1..n : d[i] \in Seq(C)
  <2> DEFINE U == {i \in 1..n : d[i] \notin Seq(C)}
  <2>1. SUFFICES ASSUME U # {} PROVE FALSE
    OBVIOUS
  <2>2. U \in SUBSET Nat
    BY <1>1
  <2>3. PICK k \in U : \A j \in U : k <= j
    BY <2>1, <2>2, LeastNumber
  <2>4. k \in 1..n /\ d[k] \notin Seq(C) /\ ss[k] \in Seq(C)
    BY <2>3, <1>1
  <2>5. k # 1
    BY <2>4, <1>9 DEF Step
  <2>6. k - 1 \in 1..n /\ d[k - 1] \in Seq(C)
    BY <2>3, <2>4, <2>5, <1>1
  <2>7. d[k] = d[k - 1] \o ss[k]
    BY <2>4, <2>5, <1>9 DEF Step
  <2> QED
    BY <2>4, <2>6, <2>7, ConcatProperties
<1>11. d \in [1..n -> Seq(C)]
  <2>1. d = [i \in 1..n |-> Step(d, i)]
    BY <1>7 DEF Whole
  <2>2. \A i \in 1..n : Step(d, i) \in Seq(C)
    BY <1>9, <1>10
  <2> QED
    BY <2>1, <2>2
<1> QED
  BY <1>8, <1>9, <1>11 DEF n, Step

\* Without messages nothing is on the wire.
LEMMA FlattenEmpty == FlattenSeq(<<>>) = <<>>
  BY DEF FlattenSeq

\* Joined pieces consist of what the pieces consist of.
LEMMA FlattenType ==
    ASSUME NEW C, NEW ss \in Seq(Seq(C))
    PROVE  FlattenSeq(ss) \in Seq(C)
<1>1. CASE Len(ss) = 0
  <2>1. ss = <<>>
    BY <1>1
  <2>2. <<>> \in Seq(C)
    OBVIOUS
  <2> QED
    BY <2>1, <2>2, FlattenEmpty, Zenon
<1>2. CASE Len(ss) # 0
  BY <1>2, Flattened
<1> QED
  BY <1>1, <1>2

\* One piece more is joined at the end.
LEMMA FlattenAppend ==
    ASSUME NEW C, NEW ss \in Seq(Seq(C)), NEW s \in Seq(C)
    PROVE  FlattenSeq(Append(ss, s)) = FlattenSeq(ss) \o s
<1> DEFINE n == Len(ss)
           tt == Append(ss, s)
<1>1. /\ tt \in Seq(Seq(C)) /\ Len(tt) = n + 1 /\ n \in Nat
      /\ tt[n + 1] = s /\ \A i \in 1..n : tt[i] = ss[i]
  OBVIOUS
<1>2. PICK g \in [1..(n + 1) -> Seq(C)] :
         /\ FlattenSeq(tt) = g[n + 1]
         /\ \A i \in 1..(n + 1) :
               g[i] = IF i = 1 THEN tt[i] ELSE g[i - 1] \o tt[i]
  <2> HIDE DEF tt, n
  <2>1. Len(tt) # 0
    BY <1>1
  <2>2. \E g \in [1..Len(tt) -> Seq(C)] :
           /\ FlattenSeq(tt) = g[Len(tt)]
           /\ \A i \in 1..Len(tt) :
                 g[i] = IF i = 1 THEN tt[i] ELSE g[i - 1] \o tt[i]
    BY <1>1, <2>1, Flattened, Zenon
  <2> QED
    BY <1>1, <2>2, Zenon
<1>3. CASE n = 0
  <2>1. ss = <<>>
    BY <1>3
  <2>2. FlattenSeq(tt) = s
    BY <1>1, <1>2, <1>3
  <2> QED
    BY <2>1, <2>2, FlattenEmpty, ConcatEmptySeq
<1>4. CASE n # 0
  <2>1. PICK f \in [1..n -> Seq(C)] :
           /\ FlattenSeq(ss) = f[n]
           /\ \A i \in 1..n :
                 f[i] = IF i = 1 THEN ss[i] ELSE f[i - 1] \o ss[i]
    BY <1>4, Flattened
  <2> HIDE DEF tt, n
  <2> DEFINE U == {i \in 1..n : f[i] # g[i]}
  <2>2. U = {}
    <3>1. SUFFICES ASSUME U # {} PROVE FALSE
      OBVIOUS
    <3>2. U \in SUBSET Nat
      BY <1>1
    <3>3. PICK k \in U : \A j \in U : k <= j
      BY <3>1, <3>2, LeastNumber
    <3>4. /\ k \in 1..n /\ k \in 1..(n + 1) /\ f[k] # g[k]
          /\ (k # 1 => k - 1 \in 1..n /\ ~(k <= k - 1))
      BY <3>3, <1>1
    <3>5. k # 1 => f[k - 1] = g[k - 1]
      BY <3>3, <3>4
    <3>6. tt[k] = ss[k]
      BY <3>4, <1>1
    <3>7. f[k] = IF k = 1 THEN ss[k] ELSE f[k - 1] \o ss[k]
      BY <3>4, <2>1
    <3>8. g[k] = IF k = 1 THEN tt[k] ELSE g[k - 1] \o tt[k]
      BY <3>4, <1>2
    <3> QED
      BY <3>4, <3>5, <3>6, <3>7, <3>8
  <2>3. n \in 1..n /\ n + 1 \in 1..(n + 1) /\ n + 1 # 1 /\ (n + 1) - 1 = n
    BY <1>1, <1>4
  <2>4. f[n] = g[n]
    BY <2>2, <2>3
  <2>5. g[n + 1] = g[n] \o s
    BY <1>1, <1>2, <2>3
  <2> QED
    BY <2>1, <2>4, <2>5, <1>2 DEF tt
<1> QED
  BY <1>3, <1>4

\* Sequences that are cut and put together again.
LEMMA LastPiece ==
    ASSUME NEW C, NEW s \in Seq(C), NEW j \in 1..Len(s)
    PROVE  SubSeq(s, 1, j) = Append(SubSeq(s, 1, j - 1), s[j])
<1>1. j \in 1..j /\ 1 \in 1..Len(s) /\ j \in 1..Len(s)
  OBVIOUS
<1>2. SubSeq(s, 1, j) = SubSeq(s, 1, j - 1) \o <<s[j]>>
  BY <1>1, SubSeqRecursiveSecond
<1>3. SubSeq(s, 1, j - 1) \in Seq(C) /\ s[j] \in C
  OBVIOUS
<1>4. PICK a \in Seq(C), e \in C : a = SubSeq(s, 1, j - 1) /\ e = s[j]
  BY <1>3
<1>5. Append(a, e) = a \o <<e>>
  BY AppendIsConcat
<1> QED
  BY <1>2, <1>4, <1>5

\* A function on 1..k is a sequence of length k.
LEMMA FunctionAsSeq ==
    ASSUME NEW C, NEW k \in Nat, NEW f \in [1..k -> C]
    PROVE  f \in Seq(C) /\ Len(f) = k
  OBVIOUS

\* The first k elements of a sequence.
LEMMA FirstPiece ==
    ASSUME NEW C, NEW s \in Seq(C), NEW k \in 0..Len(s)
    PROVE  /\ SubSeq(s, 1, k) \in Seq(C)
           /\ Len(SubSeq(s, 1, k)) = k
           /\ \A i \in 1..k : SubSeq(s, 1, k)[i] = s[i]
  OBVIOUS

\* The k elements behind the first h.
LEMMA MiddlePiece ==
    ASSUME NEW C, NEW s \in Seq(C), NEW h \in Nat, NEW k \in Nat,
           h + k <= Len(s)
    PROVE  /\ SubSeq(s, h + 1, h + k) \in Seq(C)
           /\ Len(SubSeq(s, h + 1, h + k)) = k
           /\ \A i \in 1..k : SubSeq(s, h + 1, h + k)[i] = s[h + i]
  OBVIOUS

\* The stream up to the i-th piece, that piece, and the rest of the stream.
LEMMA FlattenSplit ==
    ASSUME NEW C, NEW ss \in Seq(Seq(C)), NEW k \in 0..Len(ss)
    PROVE  \E r \in Seq(C) :
              FlattenSeq(ss) = FlattenSeq(SubSeq(ss, 1, k)) \o r
<1> DEFINE n == Len(ss)
           Cut(j) == SubSeq(ss, 1, j)
           Has(j) == \E r \in Seq(C) : FlattenSeq(ss) = FlattenSeq(Cut(j)) \o r
           U == {i \in Nat : i <= n /\ ~Has(n - i)}
<1>1. n \in Nat /\ \A j \in 0..n : Cut(j) \in Seq(Seq(C)) /\ Len(Cut(j)) = j
  OBVIOUS
<1>2. Has(n)
  <2>1. Cut(n) = ss
    OBVIOUS
  <2>2. FlattenSeq(ss) = FlattenSeq(ss) \o <<>>
    BY FlattenType, ConcatEmptySeq
  <2>3. <<>> \in Seq(C)
    OBVIOUS
  <2> QED
    BY <2>1, <2>2, <2>3
<1>3. ASSUME NEW j \in 1..n, Has(j)
      PROVE  Has(j - 1)
  <2>1. PICK r \in Seq(C) : FlattenSeq(ss) = FlattenSeq(Cut(j)) \o r
    BY <1>3
  <2>2. Cut(j) = Append(Cut(j - 1), ss[j])
    BY LastPiece
  <2>3. j - 1 \in 0..n /\ j \in 1..Len(ss)
    OBVIOUS
  <2>4. PICK p \in Seq(C), a \in Seq(C) :
           /\ p = ss[j] /\ a = FlattenSeq(Cut(j - 1))
           /\ Cut(j - 1) \in Seq(Seq(C))
    BY <2>3, <1>1, ElementOfSeq, FlattenType
  <2> HIDE DEF Cut, n
  <2>5. FlattenSeq(Cut(j)) = a \o p
    BY <2>2, <2>4, FlattenAppend
  <2>6. FlattenSeq(ss) = (a \o p) \o r
    BY <2>1, <2>5, Zenon
  <2>7. (a \o p) \o r = a \o (p \o r) /\ p \o r \in Seq(C)
    <3>1. (a \o p) \o r = a \o (p \o r)
      BY ConcatAssociative
    <3>2. p \o r \in Seq(C)
      OBVIOUS
    <3> QED
      BY <3>1, <3>2
  <2>8. FlattenSeq(ss) = FlattenSeq(Cut(j - 1)) \o (p \o r)
    BY <2>4, <2>6, <2>7, Zenon
  <2> QED
    BY <2>7, <2>8
<1> HIDE DEF Has, n
<1>4. ASSUME NEW j \in 0..n PROVE Has(j)
  <2>1. SUFFICES ASSUME ~Has(j) PROVE FALSE
    OBVIOUS
  <2>2. n - j \in Nat /\ n - j <= n /\ n - (n - j) = j
    BY <1>1
  <2>3. U \in SUBSET Nat /\ U # {}
    BY <2>1, <2>2
  <2>4. PICK m \in U : \A i \in U : m <= i
    BY <2>3, LeastNumber
  <2>5. m \in Nat /\ m <= n /\ ~Has(n - m) /\ m # 0
    <3>1. n - 0 = n
      BY <1>1
    <3> QED
      BY <2>4, <1>2, <3>1
  <2>6. m - 1 \in Nat /\ m - 1 <= n /\ ~(m <= m - 1)
    BY <2>5, <1>1
  <2>7. Has(n - (m - 1))
    BY <2>4, <2>6
  <2>8. n - (m - 1) \in 1..n /\ (n - (m - 1)) - 1 = n - m
    BY <2>5, <2>6, <1>1
  <2>9. Has((n - (m - 1)) - 1)
    BY <2>7, <2>8, <1>3
  <2> QED
    BY <2>5, <2>8, <2>9
<1> QED
  BY <1>4 DEF Has, n
-----------------------------------------------------------------------------
(* The inductive invariant. *)

\* What the bytes of a stream are: a byte of content is never a zero byte.
GoodCell == {c \in Cell : c.tag = "data" => c.val \in Byte \ {0}}
Clean == Seq(Byte \ {0})

\* Streams, and \o on them, as the provers should see them: they need not look
\* into a stream where one is only cut or put together.
Stream == Seq(GoodCell)
Cat(s, t) == s \o t

\* The stream of the messages with these contents.
Pieces(contents) == [i \in 1..Len(contents) |-> Sent(contents[i])]
Whole(contents) == FlattenSeq(Pieces(contents))

SentContents == [i \in 1..Len(typed) |-> typed[i].content]

\* How many messages have been popped, and the contents of those that were sent.
Popped == Len(taken) - Len(messq)
SentOut == [i \in 1..Len(sent) |-> taken[sent[i]]]

\* The message is the one that was pushed at its place.
AsTaken(m) == m.content = taken[m.n] /\ m.len = HeadLen + Len(m.content)

PrintedOf(content) ==
    IF to = "linux"
    THEN {CStr(des_decrypt(content, key))}
    ELSE {U2G(s) : s \in Unterminated(des_decrypt(content, key))}

StreamTypes ==
    /\ up \in Stream /\ sbuf \in Stream
    /\ down \in Stream /\ cbuf \in Stream

TypedInv ==
    \A i \in 1..Len(typed) :
        /\ typed[i].content \in Contents(typed[i].text)
        /\ typed[i].content \in Clean

UplinkInv ==
    /\ Len(taken) <= Len(typed)
    /\ taken = SubSeq(SentContents, 1, Len(taken))
    /\ Whole(SentContents) = Cat(Whole(taken), Cat(sbuf, up))

QueueInv ==
    /\ Len(messq) <= Len(taken)
    /\ \A i \in 1..Len(messq) :
          messq[i].n = Popped + i /\ AsTaken(messq[i])
    /\ \A m \in held : m.n \in 1..Popped /\ AsTaken(m)

\* Nothing is sent twice.
OnceInv ==
    /\ \A i \in 1..Len(sent) : sent[i] \in 1..Popped
    /\ \A i, j \in 1..Len(sent) : sent[i] = sent[j] => i = j
    /\ \A m \in held : \A i \in 1..Len(sent) : sent[i] # m.n

BufferInv ==
    /\ srv = "recv" => ~ServerHas
    /\ BufferFits

DownlinkInv ==
    ~cut =>
    /\ cli # "lost"
    /\ Len(shown) <= Len(sent)
    /\ Whole(SentOut) =
          Cat(Whole(SubSeq(SentOut, 1, Len(shown))), Cat(cbuf, down))
    /\ \A i \in 1..Len(shown) : shown[i] \in PrintedOf(SentOut[i])

Inv ==
    /\ TypeOK /\ StreamTypes /\ TypedInv /\ UplinkInv
    /\ QueueInv /\ OnceInv /\ BufferInv /\ DownlinkInv

-----------------------------------------------------------------------------
(* Streams. *)

\* Streams put together are a stream, as long as both.
LEMMA CatIn ==
    ASSUME NEW a \in Stream, NEW b \in Stream
    PROVE  /\ Cat(a, b) \in Stream
           /\ Len(Cat(a, b)) = Len(a) + Len(b)
  BY ConcatProperties DEF Stream, Cat

\* It has the bytes of the first, then those of the second.
LEMMA CatElements ==
    ASSUME NEW a \in Stream, NEW b \in Stream
    PROVE  /\ \A i \in 1..Len(a) : Cat(a, b)[i] = a[i]
           /\ \A i \in 1..Len(b) : Cat(a, b)[Len(a) + i] = b[i]
<1>1. Len(a) \in Nat /\ Len(b) \in Nat
  BY DEF Stream
<1>2. PICK c : c = a \o b
  OBVIOUS
<1>3. \A i \in 1..(Len(a) + Len(b)) :
         c[i] = IF i <= Len(a) THEN a[i] ELSE b[i - Len(a)]
  BY <1>2, ConcatProperties DEF Stream
<1>4. \A i \in 1..Len(a) : c[i] = a[i]
  BY <1>1, <1>3
<1>5. ASSUME NEW i \in 1..Len(b) PROVE c[Len(a) + i] = b[i]
  <2>1. /\ Len(a) + i \in 1..(Len(a) + Len(b))
        /\ ~(Len(a) + i <= Len(a)) /\ (Len(a) + i) - Len(a) = i
    BY <1>1
  <2> QED
    BY <1>3, <2>1
<1> QED
  BY <1>2, <1>4, <1>5 DEF Cat

\* Three streams may be put together from either end.
LEMMA CatAssociates ==
    ASSUME NEW a \in Stream, NEW b \in Stream, NEW c \in Stream
    PROVE  Cat(Cat(a, b), c) = Cat(a, Cat(b, c))
  BY ConcatAssociative DEF Stream, Cat

\* Nothing put before or behind a stream leaves it as it is, and only nothing
\* put together is nothing.
LEMMA CatEmpty ==
    /\ <<>> \in Stream
    /\ \A a \in Stream : Cat(<<>>, a) = a /\ Cat(a, <<>>) = a
    /\ \A a, b \in Stream : Cat(a, b) = <<>> => a = <<>> /\ b = <<>>
<1>1. <<>> \in Stream /\ \A a \in Stream : Cat(<<>>, a) = a /\ Cat(a, <<>>) = a
  BY ConcatEmptySeq DEF Stream, Cat
<1>2. ASSUME NEW a \in Stream, NEW b \in Stream, Cat(a, b) = <<>>
      PROVE  a = <<>> /\ b = <<>>
  <2>1. Len(a) + Len(b) = 0
    BY <1>2, CatIn
  <2> QED
    BY <2>1 DEF Stream
<1> QED
  BY <1>1, <1>2

\* What follows a given beginning of a stream is determined by the stream.
LEMMA CatCancels ==
    ASSUME NEW a \in Stream, NEW b \in Stream, NEW c \in Stream,
           Cat(a, b) = Cat(a, c)
    PROVE  b = c
  BY ConcatSimplifications DEF Stream, Cat

\* A stream cut in two.
LEMMA TwoParts ==
    ASSUME NEW s \in Stream, NEW n \in Nat, n <= Len(s)
    PROVE  /\ SubSeq(s, 1, n) \in Stream /\ Len(SubSeq(s, 1, n)) = n
           /\ \A i \in 1..n : SubSeq(s, 1, n)[i] = s[i]
           /\ From(s, n) \in Stream /\ Len(From(s, n)) = Len(s) - n
           /\ s = Cat(SubSeq(s, 1, n), From(s, n))
<1>1. PICK k \in Nat : k = Len(s)
  BY DEF Stream
<1>2. SubSeq(s, 1, n) \in Stream /\ From(s, n) \in Stream
  BY <1>1 DEF Stream, From
<1>3. PICK a \in Stream, b \in Stream :
         a = SubSeq(s, 1, n) /\ b = From(s, n)
  BY <1>2
<1>4. Len(a) = n /\ \A i \in 1..n : a[i] = s[i]
  BY <1>1, <1>3 DEF Stream
<1>5. Len(b) = k - n /\ \A i \in 1..(k - n) : b[i] = s[n + i]
  BY <1>1, <1>3 DEF Stream, From
<1>6. s = Cat(a, b)
  <2>1. PICK t \in Stream : t = Cat(a, b)
    BY CatIn
  <2>2. Len(t) = k
    <3>1. Len(t) = Len(a) + Len(b)
      BY <2>1, CatIn
    <3>2. Len(a) = n /\ Len(b) = k - n
      BY <1>4, <1>5
    <3> QED
      BY <3>1, <3>2
  <2>3. ASSUME NEW i \in 1..k PROVE t[i] = s[i]
    <3>1. CASE i <= n
      <4>1. i \in 1..n /\ i \in 1..Len(a)
        BY <1>4, <3>1
      <4>2. t[i] = a[i]
        BY <2>1, <4>1, CatElements
      <4> QED
        BY <1>4, <4>1, <4>2
    <3>2. CASE ~(i <= n)
      <4>1. i - n \in 1..(k - n) /\ n + (i - n) = i
        BY <1>1, <3>2
      <4>2. i - n \in 1..Len(b)
        BY <1>5, <4>1
      <4>3. t[n + (i - n)] = b[i - n]
        BY <1>4, <2>1, <4>2, CatElements
      <4>4. b[i - n] = s[n + (i - n)]
        BY <1>5, <4>1
      <4> QED
        BY <4>1, <4>3, <4>4
    <3> QED
      BY <3>1, <3>2
  <2>4. t = s
    BY <1>1, <2>2, <2>3, SeqEqual DEF Stream
  <2> QED
    BY <2>1, <2>4
<1> QED
  BY <1>1, <1>3, <1>4, <1>5, <1>6

\* Two ways to cut a stream: into what has arrived and the rest, and into
\* its first message and the rest.
LEMMA TwoCuts ==
    ASSUME NEW a \in Stream, NEW b \in Stream, NEW m \in Stream,
           NEW r \in Stream, NEW n \in Nat,
           Len(m) = n, Cat(a, b) = Cat(m, r)
    PROVE  /\ \A i \in 1..Len(a) : i <= n => a[i] = m[i]
           /\ Len(a) >= n => From(a, n) \in Stream /\ Cat(From(a, n), b) = r
<1>1. ASSUME NEW i \in 1..Len(a), i <= n
      PROVE  a[i] = m[i]
  <2>1. Cat(a, b)[i] = a[i]
    BY CatElements
  <2>2. i \in 1..Len(m)
    BY <1>1
  <2>3. Cat(m, r)[i] = m[i]
    BY <2>2, CatElements
  <2> QED
    BY <1>1, <2>1, <2>3
<1>2. ASSUME Len(a) >= n
      PROVE  From(a, n) \in Stream /\ Cat(From(a, n), b) = r
  <2>1. Len(a) \in Nat /\ n <= Len(a)
    BY <1>2 DEF Stream
  <2>2. PICK p \in Stream, x \in Stream :
           p = SubSeq(a, 1, n) /\ x = From(a, n)
    BY <2>1, TwoParts
  <2>3. a = Cat(p, x) /\ Len(p) = n /\ \A i \in 1..n : p[i] = a[i]
    BY <2>1, <2>2, TwoParts
  <2>4. ASSUME NEW i \in 1..n PROVE p[i] = m[i]
    <3>1. i \in 1..Len(a) /\ i <= n
      BY <2>1
    <3> QED
      BY <1>1, <2>3, <3>1
  <2>5. p = m
    BY <2>3, <2>4, SeqEqual DEF Stream
  <2>6. Cat(m, Cat(x, b)) = Cat(m, r)
    BY <2>3, <2>5, CatAssociates
  <2>7. Cat(x, b) = r
    BY <2>6, CatIn, CatCancels
  <2> QED
    BY <2>2, <2>7
<1> QED
  BY <1>1, <1>2

-----------------------------------------------------------------------------
(* The bytes of a message. *)

\* A message on the wire: a header, then the bytes of its content.
LEMMA SentBytes ==
    ASSUME NEW c \in Clean
    PROVE  /\ Sent(c) \in Stream
           /\ Len(Sent(c)) = HeadLen + Len(c)
           /\ \A i \in 1..HeadLen :
                 Sent(c)[i] =
                    [tag |-> "head", at |-> i, val |-> HeadLen + Len(c)]
           /\ \A i \in 1..Len(c) :
                 Sent(c)[HeadLen + i] = [tag |-> "data", at |-> 0, val |-> c[i]]
<1>1. HeadLen \in Nat \ {0} /\ Len(c) \in Nat /\ HeadLen + Len(c) \in Nat
  BY FramingAssumption DEF Clean
<1>2. PICK n \in Nat : n = HeadLen + Len(c)
  BY <1>1
<1>3. PICK h \in Seq(GoodCell) :
         /\ h = Header(n) /\ Len(h) = HeadLen
         /\ \A i \in 1..HeadLen : h[i] = [tag |-> "head", at |-> i, val |-> n]
  <2>1. \A i \in 1..HeadLen :
           [tag |-> "head", at |-> i, val |-> n] \in GoodCell
    BY <1>1 DEF GoodCell, Cell
  <2>2. Header(n) \in [1..HeadLen -> GoodCell]
    BY <2>1 DEF Header
  <2>3. \A i \in 1..HeadLen :
           Header(n)[i] = [tag |-> "head", at |-> i, val |-> n]
    BY DEF Header
  <2>4. Header(n) \in Seq(GoodCell) /\ Len(Header(n)) = HeadLen
    BY <1>1, <2>2, FunctionAsSeq
  <2> QED
    BY <2>3, <2>4, Zenon
<1>4. PICK d \in Seq(GoodCell) :
         /\ d = Data(c) /\ Len(d) = Len(c)
         /\ \A i \in 1..Len(c) : d[i] = [tag |-> "data", at |-> 0, val |-> c[i]]
  <2>1. \A i \in 1..Len(c) : c[i] \in Byte \ {0}
    BY DEF Clean
  <2>2. Byte \subseteq Nat
    BY CipherAssumption
  <2>3. ASSUME NEW v \in Byte \ {0}
        PROVE  [tag |-> "data", at |-> 0, val |-> v] \in GoodCell
    BY <1>1, <2>2 DEF GoodCell, Cell
  <2>4. Data(c) \in [1..Len(c) -> GoodCell]
    BY <2>1, <2>3 DEF Data
  <2>5. \A i \in 1..Len(c) :
           Data(c)[i] = [tag |-> "data", at |-> 0, val |-> c[i]]
    BY DEF Data
  <2>6. Data(c) \in Seq(GoodCell) /\ Len(Data(c)) = Len(c)
    BY <1>1, <2>4, FunctionAsSeq
  <2> QED
    BY <2>5, <2>6, Zenon
<1>5. PICK p \in Seq(GoodCell) :
         /\ p = h \o d /\ Len(p) = n
         /\ \A i \in 1..HeadLen : p[i] = h[i]
         /\ \A i \in 1..Len(c) : p[HeadLen + i] = d[i]
  <2>1. h \o d \in Seq(GoodCell) /\ Len(h \o d) = n
    BY <1>2, <1>3, <1>4
  <2>2. \A i \in 1..HeadLen : (h \o d)[i] = h[i]
    BY <1>1, <1>3, <1>4
  <2>3. \A i \in 1..Len(c) : (h \o d)[HeadLen + i] = d[i]
    BY <1>1, <1>3, <1>4
  <2> QED
    BY <2>1, <2>2, <2>3
<1>6. SubSeq(p, 1, n) = p
  BY <1>5, SubSeqFull
<1>7. Sent(c) = p
  BY <1>2, <1>3, <1>4, <1>5, <1>6 DEF Sent, Packet
<1>8. \A i \in 1..HeadLen : p[i] = [tag |-> "head", at |-> i, val |-> n]
  BY <1>3, <1>5
<1>9. \A i \in 1..Len(c) :
         p[HeadLen + i] = [tag |-> "data", at |-> 0, val |-> c[i]]
  BY <1>4, <1>5
<1> QED
  BY <1>2, <1>5, <1>7, <1>8, <1>9 DEF Stream

\* What a stream that begins with a message looks like from the buffer the
\* bytes have come to so far, and what is left of it when the message is
\* taken out of the buffer.
LEMMA MessageFirst ==
    ASSUME NEW c \in Clean, NEW buf \in Stream,
           NEW rest \in Stream, NEW r \in Stream,
           NEW n, n = HeadLen + Len(c)
    PROVE  Cat(buf, rest) = Cat(Sent(c), r) =>
           /\ Len(buf) # 0 => ProtocolLength(buf) = n
           /\ \A i \in 1..Len(buf) : i <= n => buf[i] = Sent(c)[i]
           /\ Len(buf) >= n =>
                 /\ Content(buf) = c
                 /\ From(buf, n) \in Stream
                 /\ Cat(From(buf, n), rest) = r
<1>1. /\ HeadLen \in Nat \ {0} /\ Len(c) \in Nat /\ n \in Nat \ {0}
      /\ Len(buf) \in Nat
  BY FramingAssumption DEF Clean, Stream
<1>2. PICK m \in Stream :
         /\ m = Sent(c) /\ Len(m) = n
         /\ \A i \in 1..HeadLen : m[i] = [tag |-> "head", at |-> i, val |-> n]
         /\ \A i \in 1..Len(c) :
               m[HeadLen + i] = [tag |-> "data", at |-> 0, val |-> c[i]]
  BY <1>1, SentBytes
<1>3. ASSUME Cat(buf, rest) = Cat(m, r)
      PROVE  /\ \A i \in 1..Len(buf) : i <= n => buf[i] = m[i]
             /\ Len(buf) >= n =>
                   /\ From(buf, n) \in Stream
                   /\ Cat(From(buf, n), rest) = r
  <2>1. Len(m) = n /\ n \in Nat
    BY <1>1, <1>2
  <2> QED
    BY <1>3, <2>1, TwoCuts
<1>4. m[1].val = n
  <2>1. 1 \in 1..HeadLen
    BY <1>1
  <2>2. m[1] = [tag |-> "head", at |-> 1, val |-> n]
    BY <1>2, <2>1
  <2> QED
    BY <2>2
<1>5. ASSUME NEW i \in 1..Len(c) PROVE m[HeadLen + i].val = c[i]
  <2>1. m[HeadLen + i] = [tag |-> "data", at |-> 0, val |-> c[i]]
    BY <1>2
  <2> QED
    BY <2>1
<1>6. ASSUME Cat(buf, rest) = Cat(m, r), Len(buf) # 0
      PROVE  ProtocolLength(buf) = n
  <2>1. 1 \in 1..Len(buf) /\ 1 <= n
    BY <1>1, <1>6
  <2>2. buf[1] = m[1]
    BY <1>3, <1>6, <2>1
  <2> QED
    BY <1>4, <2>2 DEF ProtocolLength
<1>7. ASSUME Cat(buf, rest) = Cat(m, r), Len(buf) >= n
      PROVE  Content(buf) = c
  <2>1. Len(buf) # 0
    BY <1>1, <1>7
  <2>2. ProtocolLength(buf) = n
    BY <1>6, <1>7, <2>1
  <2>3. /\ SubSeq(buf, HeadLen + 1, n) \in Stream
        /\ Len(SubSeq(buf, HeadLen + 1, n)) = Len(c)
        /\ \A i \in 1..Len(c) :
              SubSeq(buf, HeadLen + 1, n)[i] = buf[HeadLen + i]
    <3>1. HeadLen \in Nat /\ Len(c) \in Nat /\ HeadLen + Len(c) <= Len(buf)
      BY <1>1, <1>7
    <3>2. n = HeadLen + Len(c)
      OBVIOUS
    <3> QED
      BY <3>1, <3>2, MiddlePiece DEF Stream
  <2>4. PICK cells \in Stream :
           /\ cells = SubSeq(buf, HeadLen + 1, n)
           /\ Len(cells) = Len(c)
           /\ \A i \in 1..Len(c) : cells[i] = buf[HeadLen + i]
    BY <2>3
  <2>5. \A i \in 1..Len(c) : cells[i].val = c[i]
    <3> TAKE i \in 1..Len(c)
    <3>1. HeadLen + i \in 1..Len(buf) /\ HeadLen + i <= n
      BY <1>1, <1>7
    <3>2. buf[HeadLen + i] = m[HeadLen + i]
      BY <1>3, <1>7, <3>1
    <3> QED
      BY <1>5, <2>4, <3>2
  <2>6. Content(buf) = [i \in 1..Len(cells) |-> cells[i].val]
    BY <2>2, <2>4 DEF Content
  <2>7. Content(buf) = [i \in 1..Len(c) |-> c[i]]
    BY <2>4, <2>5, <2>6
  <2>8. c = [i \in 1..Len(c) |-> c[i]]
    BY DEF Clean
  <2> QED
    BY <2>7, <2>8
<1> QED
  BY <1>2, <1>3, <1>6, <1>7

-----------------------------------------------------------------------------
(* The stream of several messages. *)

\* Every message is a stream of its own.
LEMMA PiecesIn ==
    ASSUME NEW cs \in Seq(Clean)
    PROVE  /\ Pieces(cs) \in Seq(Stream) /\ Len(Pieces(cs)) = Len(cs)
           /\ \A i \in 1..Len(cs) : Pieces(cs)[i] = Sent(cs[i])
<1>1. PICK n \in Nat : n = Len(cs)
  OBVIOUS
<1>2. \A i \in 1..n : cs[i] \in Clean
  BY <1>1
<1>3. \A i \in 1..n : Sent(cs[i]) \in Stream
  BY <1>2, SentBytes
<1>4. Pieces(cs) \in [1..n -> Stream]
  BY <1>1, <1>3 DEF Pieces
<1>5. Pieces(cs) \in Seq(Stream) /\ Len(Pieces(cs)) = n
  BY <1>4, FunctionAsSeq
<1> QED
  BY <1>1, <1>5 DEF Pieces

\* What the messages make on the wire is a stream.
LEMMA WholeIn ==
    ASSUME NEW cs \in Seq(Clean)
    PROVE  Whole(cs) \in Stream
<1>1. Pieces(cs) \in Seq(Stream)
  BY PiecesIn
<1>2. PICK ss \in Seq(Seq(GoodCell)) : ss = Pieces(cs)
  BY <1>1 DEF Stream
<1>3. FlattenSeq(ss) \in Seq(GoodCell)
  BY FlattenType
<1> QED
  BY <1>2, <1>3 DEF Whole, Stream

\* No messages make no bytes.
LEMMA WholeEmpty == Whole(<<>>) = <<>>
<1>1. Pieces(<<>>) = <<>>
  BY DEF Pieces
<1> QED
  BY <1>1, FlattenEmpty DEF Whole

\* A message more comes last on the wire.
LEMMA WholeAppend ==
    ASSUME NEW cs \in Seq(Clean), NEW c \in Clean
    PROVE  Whole(Append(cs, c)) = Cat(Whole(cs), Sent(c))
<1>1. PICK t \in Seq(Clean) :
         /\ t = Append(cs, c) /\ Len(t) = Len(cs) + 1
         /\ t[Len(cs) + 1] = c /\ \A i \in 1..Len(cs) : t[i] = cs[i]
  <2>1. Append(cs, c) \in Seq(Clean)
    BY AppendProperties
  <2>2. PICK t \in Seq(Clean) : t = Append(cs, c)
    BY <2>1
  <2>3. /\ Len(t) = Len(cs) + 1
        /\ t[Len(cs) + 1] = c /\ \A i \in 1..Len(cs) : t[i] = cs[i]
    BY <2>2
  <2> QED
    BY <2>2, <2>3
<1>2. PICK n \in Nat : n = Len(cs)
  OBVIOUS
<1>3. PICK ss \in Seq(Stream) :
         /\ ss = Pieces(cs) /\ Len(ss) = n
         /\ \A i \in 1..n : ss[i] = Sent(cs[i])
  BY <1>2, PiecesIn
<1>4. PICK tt \in Seq(Stream) :
         /\ tt = Pieces(t) /\ Len(tt) = n + 1
         /\ \A i \in 1..(n + 1) : tt[i] = Sent(t[i])
  BY <1>1, <1>2, PiecesIn
<1>5. PICK e \in Stream : e = Sent(c)
  BY SentBytes
<1>6. tt = Append(ss, e)
  <2>1. PICK aa \in Seq(Stream) :
           /\ aa = Append(ss, e) /\ Len(aa) = n + 1
           /\ aa[n + 1] = e /\ \A i \in 1..n : aa[i] = ss[i]
    <3>1. Append(ss, e) \in Seq(Stream)
      BY AppendProperties
    <3>2. PICK aa \in Seq(Stream) : aa = Append(ss, e)
      BY <3>1
    <3>3. /\ Len(aa) = n + 1
          /\ aa[n + 1] = e /\ \A i \in 1..n : aa[i] = ss[i]
      BY <1>3, <3>2
    <3> QED
      BY <3>2, <3>3
  <2>2. ASSUME NEW i \in 1..(n + 1) PROVE tt[i] = aa[i]
    <3>1. CASE i = n + 1
      BY <1>1, <1>2, <1>4, <1>5, <2>1, <3>1
    <3>2. CASE i # n + 1
      <4>1. i \in 1..n
        BY <3>2
      <4>2. tt[i] = Sent(cs[i])
        BY <1>1, <1>2, <1>4, <4>1
      <4> QED
        BY <1>3, <2>1, <4>1, <4>2
    <3> QED
      BY <3>1, <3>2
  <2> QED
    BY <1>4, <2>1, <2>2, SeqEqual
<1>7. FlattenSeq(Append(ss, e)) = FlattenSeq(ss) \o e
  BY FlattenAppend DEF Stream
<1>8. Whole(Append(cs, c)) = FlattenSeq(tt) /\ Whole(cs) = FlattenSeq(ss)
  BY <1>1, <1>3, <1>4 DEF Whole
<1> QED
  BY <1>5, <1>6, <1>7, <1>8 DEF Cat

\* The stream of several messages begins with that of the first k of them.
LEMMA WholeSplit ==
    ASSUME NEW cs \in Seq(Clean), NEW k \in 0..Len(cs)
    PROVE  \E r \in Stream : Whole(cs) = Cat(Whole(SubSeq(cs, 1, k)), r)
<1>1. PICK ss \in Seq(Stream) :
         /\ ss = Pieces(cs) /\ Len(ss) = Len(cs)
         /\ \A i \in 1..Len(cs) : ss[i] = Sent(cs[i])
  BY PiecesIn
<1>2. PICK r \in Stream : FlattenSeq(ss) = FlattenSeq(SubSeq(ss, 1, k)) \o r
  <2>1. ss \in Seq(Seq(GoodCell)) /\ k \in 0..Len(ss)
    BY <1>1 DEF Stream
  <2> QED
    BY <2>1, FlattenSplit DEF Stream
<1>3. PICK t \in Seq(Clean) :
         /\ t = SubSeq(cs, 1, k) /\ Len(t) = k
         /\ \A i \in 1..k : t[i] = cs[i]
  <2>1. SubSeq(cs, 1, k) \in Seq(Clean)
    BY FirstPiece
  <2>2. PICK t \in Seq(Clean) : t = SubSeq(cs, 1, k)
    BY <2>1
  <2>3. Len(t) = k /\ \A i \in 1..k : t[i] = cs[i]
    BY <2>2, FirstPiece
  <2> QED
    BY <2>2, <2>3
<1>4. PICK tt \in Seq(Stream) :
         /\ tt = Pieces(t) /\ Len(tt) = k
         /\ \A i \in 1..k : tt[i] = Sent(t[i])
  BY <1>3, PiecesIn
<1>5. tt = SubSeq(ss, 1, k)
  <2>1. PICK aa \in Seq(Stream) :
           /\ aa = SubSeq(ss, 1, k) /\ Len(aa) = k
           /\ \A i \in 1..k : aa[i] = ss[i]
    <3>1. k \in 0..Len(ss)
      BY <1>1
    <3>2. SubSeq(ss, 1, k) \in Seq(Stream)
      BY <3>1, FirstPiece
    <3>3. PICK aa \in Seq(Stream) : aa = SubSeq(ss, 1, k)
      BY <3>2
    <3>4. Len(aa) = k /\ \A i \in 1..k : aa[i] = ss[i]
      BY <3>1, <3>3, FirstPiece
    <3> QED
      BY <3>3, <3>4
  <2>2. ASSUME NEW i \in 1..k PROVE tt[i] = aa[i]
    <3>1. i \in 1..Len(cs)
      OBVIOUS
    <3> QED
      BY <1>1, <1>3, <1>4, <2>1, <3>1
  <2> QED
    BY <1>4, <2>1, <2>2, SeqEqual
<1> QED
  BY <1>1, <1>2, <1>3, <1>4, <1>5 DEF Whole, Cat

\* What follows the first k messages of a stream begins with message k + 1.
LEMMA NextMessage ==
    ASSUME NEW cs \in Seq(Clean), NEW k \in Nat, k < Len(cs),
           NEW rest \in Stream,
           Whole(cs) = Cat(Whole(SubSeq(cs, 1, k)), rest)
    PROVE  /\ cs[k + 1] \in Clean
           /\ \E r \in Stream :
                 /\ rest = Cat(Sent(cs[k + 1]), r)
                 /\ Whole(cs) = Cat(Whole(SubSeq(cs, 1, k + 1)), r)
<1>1. k \in 0..Len(cs) /\ k + 1 \in 0..Len(cs) /\ k + 1 \in 1..Len(cs)
  OBVIOUS
<1>2. PICK c \in Clean : c = cs[k + 1]
  BY <1>1
<1>3. PICK t \in Seq(Clean), u \in Seq(Clean) :
         t = SubSeq(cs, 1, k) /\ u = SubSeq(cs, 1, k + 1)
  <2>1. SubSeq(cs, 1, k) \in Seq(Clean) /\ SubSeq(cs, 1, k + 1) \in Seq(Clean)
    BY <1>1, FirstPiece
  <2> QED
    BY <2>1
<1>4. u = Append(t, c)
  <2>1. (k + 1) - 1 = k
    OBVIOUS
  <2> QED
    BY <1>1, <1>2, <1>3, <2>1, LastPiece
<1>5. PICK r \in Stream : Whole(cs) = Cat(Whole(u), r)
  BY <1>1, <1>3, WholeSplit
<1>6. PICK w \in Stream, m \in Stream : w = Whole(t) /\ m = Sent(c)
  BY WholeIn, SentBytes
<1>7. Whole(u) = Cat(w, m)
  BY <1>4, <1>6, WholeAppend
<1>8. Cat(Cat(w, m), r) = Cat(w, Cat(m, r)) /\ Cat(m, r) \in Stream
  BY CatAssociates, CatIn
<1>9. Cat(w, rest) = Cat(w, Cat(m, r))
  BY <1>3, <1>5, <1>6, <1>7, <1>8
<1>10. rest = Cat(m, r)
  BY <1>8, <1>9, CatCancels
<1> QED
  BY <1>2, <1>3, <1>5, <1>6, <1>10

\* Behind the last message nothing follows.
LEMMA NoMessage ==
    ASSUME NEW cs \in Seq(Clean), NEW rest \in Stream,
           Whole(cs) = Cat(Whole(SubSeq(cs, 1, Len(cs))), rest)
    PROVE  rest = <<>>
<1>1. SubSeq(cs, 1, Len(cs)) = cs
  BY SubSeqFull
<1>2. PICK w \in Stream : w = Whole(cs)
  BY WholeIn
<1>3. Cat(w, rest) = Cat(w, <<>>)
  BY <1>1, <1>2, CatEmpty
<1> QED
  BY <1>3, CatEmpty, CatCancels
-----------------------------------------------------------------------------
(* Texts. *)

\* A C string goes to the first zero byte.
LEMMA CStrCut ==
    ASSUME NEW s \in Seq(Byte)
    PROVE  \E k \in 0..Len(s) :
              /\ CStr(s) = SubSeq(s, 1, k)
              /\ \A i \in 1..k : s[i] # 0
              /\ k = Len(s) \/ s[k + 1] = 0
<1> DEFINE I == {i \in 1..Len(s) : s[i] = 0}
<1>1. PICK n \in Nat : n = Len(s)
  OBVIOUS
<1>2. CStr(s) = LET nul == IF I # {} THEN Min(I) ELSE 0
                IN IF nul = 0 THEN s ELSE SubSeq(s, 1, nul - 1)
  BY DEF CStr, SelectInSeq
<1>3. CASE I = {}
  <2>1. CStr(s) = s
    BY <1>2, <1>3
  <2>2. SubSeq(s, 1, n) = s
    BY <1>1, SubSeqFull
  <2>3. \A i \in 1..n : s[i] # 0
    BY <1>1, <1>3
  <2>4. n \in 0..Len(s)
    BY <1>1
  <2> QED
    BY <1>1, <2>1, <2>2, <2>3, <2>4
<1>4. CASE I # {}
  <2>1. I \in SUBSET Nat
    BY <1>1
  <2>2. PICK m \in I : \A i \in I : m <= i
    BY <1>4, <2>1, LeastNumber
  <2>3. m \in 1..n /\ s[m] = 0
    BY <1>1, <2>2
  <2>4. ASSUME NEW i \in 1..(m - 1) PROVE s[i] # 0
    <3>1. i \in 1..n /\ ~(m <= i)
      BY <2>3
    <3>2. i \notin I
      BY <2>2, <3>1
    <3> QED
      BY <1>1, <3>1, <3>2
  <2>5. \A j \in I : j \in Int
    BY <2>1
  <2> HIDE DEF I
  <2>6. Min(I) = m
    BY <2>2, <2>5 DEF Min
  <2>7. CStr(s) = SubSeq(s, 1, m - 1)
    BY <1>2, <1>4, <2>3, <2>6
  <2>8. m - 1 \in 0..Len(s) /\ (m - 1) + 1 = m
    BY <1>1, <2>3
  <2> QED
    BY <2>3, <2>4, <2>7, <2>8
<1> QED
  BY <1>3, <1>4

\* A string without a zero byte is a string of bytes, none of them zero.
LEMMA CleanBytes ==
    ASSUME NEW s \in Clean
    PROVE  s \in Seq(Byte) /\ \A i \in 1..Len(s) : s[i] # 0
  BY DEF Clean

\* It has no zero byte, and a string without a zero byte is one as it is.
LEMMA CStrClean ==
    ASSUME NEW s \in Seq(Byte)
    PROVE  /\ CStr(s) \in Clean
           /\ s \in Clean => CStr(s) = s
           /\ Len(CStr(s)) <= Len(s)
<1>1. PICK n \in Nat : n = Len(s)
  OBVIOUS
<1>2. PICK k \in 0..n :
         /\ CStr(s) = SubSeq(s, 1, k)
         /\ \A i \in 1..k : s[i] # 0
         /\ k = n \/ s[k + 1] = 0
  BY <1>1, CStrCut
<1>3. /\ SubSeq(s, 1, k) \in Seq(Byte) /\ Len(SubSeq(s, 1, k)) = k
      /\ \A i \in 1..k : SubSeq(s, 1, k)[i] = s[i]
  BY <1>1, FirstPiece
<1>4. PICK t \in Seq(Byte) : t = SubSeq(s, 1, k)
  BY <1>3
<1>5. Len(t) = k /\ \A i \in 1..k : t[i] # 0
  BY <1>2, <1>3, <1>4
<1>6. t \in Seq(Byte \ {0})
  BY <1>5
<1>7. ASSUME s \in Clean PROVE k = n
  <2>1. k + 1 \in 1..n \/ k = n
    BY <1>2
  <2>2. \A i \in 1..n : s[i] # 0
    BY <1>1, <1>7, CleanBytes
  <2> QED
    BY <1>2, <2>1, <2>2
<1>8. SubSeq(s, 1, n) = s
  BY <1>1, SubSeqFull
<1> QED
  BY <1>1, <1>2, <1>4, <1>5, <1>6, <1>7, <1>8 DEF Clean

\* What is encrypted or decrypted is as many whole blocks as the text fills.
LEMMA WholeBlocks ==
    ASSUME NEW s \in Seq(Byte), NEW f \in [Block -> Block]
    PROVE  /\ ByBlock(f, s) \in Seq(Byte)
           /\ Len(ByBlock(f, s)) = Len(Padded(s))
<1>1. PICK n \in Nat :
         /\ Padded(s) \in Seq(Byte)
         /\ Len(Padded(s)) = n * BlockLen
  BY PaddedText
<1>2. PICK p \in Seq(Byte) : p = Padded(s) /\ Len(p) = n * BlockLen
  BY <1>1
<1>3. Padded(p) = p
  BY <1>2, PaddedBlocks
<1>4. ByBlock(f, s) = ByBlock(f, p)
  BY <1>2, <1>3 DEF ByBlock
<1>5. ByBlock(f, p) \in Seq(Byte) /\ Len(ByBlock(f, p)) = n * BlockLen
  BY <1>2, Blockwise
<1> QED
  BY <1>1, <1>4, <1>5

\* des_encrypt and des_decrypt (utils.cpp) return bytes for bytes.
LEMMA CryptTypes ==
    ASSUME NEW s \in Seq(Byte), NEW k \in Key
    PROVE  des_encrypt(s, k) \in Seq(Byte) /\ des_decrypt(s, k) \in Seq(Byte)
  BY WholeBlocks, KeyInverse DEF des_encrypt, des_decrypt

\* A string that lost its terminator ends at a zero byte all the same, and is
\* the C string, or the whole string and some of what lies behind it.
LEMMA UnterminatedIn ==
    ASSUME NEW s \in Seq(Byte), NEW u \in Unterminated(s)
    PROVE  /\ u \in Clean
           /\ u = CStr(s) \/ (s \in Clean /\ \E j \in Junk : u = s \o j)
<1>1. CASE CStr(s) = s
  <2>1. PICK j \in Junk : u = s \o j
    BY <1>1 DEF Unterminated
  <2>2. j \in Clean
    BY FramingAssumption DEF Clean
  <2>3. s \in Clean
    BY <1>1, CStrClean
  <2>4. s \o j \in Clean
    BY <2>2, <2>3, ConcatProperties DEF Clean
  <2> QED
    BY <2>1, <2>3, <2>4
<1>2. CASE CStr(s) # s
  <2>1. u = CStr(s)
    BY <1>2 DEF Unterminated
  <2> QED
    BY <2>1, CStrClean
<1> QED
  BY <1>1, <1>2

\* What is encrypted (send_process) has no zero byte, typed on either system,
\* and is as long as what was typed.
LEMMA WireClean ==
    ASSUME NEW text \in Typeable
    PROVE  /\ Wire(text) \in Clean /\ Wire(text) \in Seq(Byte)
           /\ Len(Wire(text)) = Len(text)
<1>1. CASE from = "linux"
  <2>1. text \in Text
    BY <1>1 DEF Typeable
  <2> QED
    BY <1>1, <2>1, FramingAssumption, CleanBytes DEF Wire, Clean
<1>2. CASE from # "linux"
  <2>1. text \in GbkText
    BY <1>2 DEF Typeable
  <2>2. text \in Seq(DOMAIN Utf8)
    BY <2>1, FramingAssumption
  <2>3. PICK n \in Nat : n = Len(text)
    BY <2>2
  <2>4. ASSUME NEW i \in 1..n PROVE Utf8[text[i]] \in Byte \ {0}
    <3>1. text[i] \in DOMAIN Utf8
      BY <2>2, <2>3
    <3>2. Utf8[text[i]] \in Range(Utf8)
      BY <3>1 DEF Range
    <3> QED
      BY <3>2, FramingAssumption
  <2>5. G2U(text) \in [1..n -> Byte \ {0}]
    BY <2>3, <2>4 DEF G2U
  <2>6. G2U(text) \in Clean /\ Len(G2U(text)) = n
    BY <2>5, FunctionAsSeq DEF Clean
  <2> QED
    BY <1>2, <2>3, <2>6, CleanBytes DEF Wire
<1> QED
  BY <1>1, <1>2

\* What is sent is the ciphertext as strlen() measures it.
LEMMA ContentsOfWire ==
    ASSUME NEW text \in Typeable, key \in DesKey, NEW c \in Contents(text)
    PROVE  /\ des_encrypt(Wire(text), key) \in Seq(Byte)
           /\ IF from = "linux" THEN c = CStr(des_encrypt(Wire(text), key))
              ELSE c \in Unterminated(des_encrypt(Wire(text), key))
<1>1. key \in Key
  BY FramingAssumption
<1>2. Wire(text) \in Seq(Byte)
  BY WireClean
<1>3. des_encrypt(Wire(text), key) \in Seq(Byte)
  BY <1>1, <1>2, CryptTypes
<1> QED
  BY <1>3 DEF Contents, EncStr, EncStrWindows, Wire

\* No content that is sent has a zero byte.
LEMMA ContentClean ==
    ASSUME NEW text \in Typeable, key \in DesKey, NEW c \in Contents(text)
    PROVE  c \in Clean
<1>1. PICK e \in Seq(Byte) : e = des_encrypt(Wire(text), key)
  BY ContentsOfWire
<1>2. IF from = "linux" THEN c = CStr(e) ELSE c \in Unterminated(e)
  BY <1>1, ContentsOfWire
<1> QED
  BY <1>2, CStrClean, UnterminatedIn

\* The conversion to the code page maps characters one by one.
LEMMA U2GType ==
    ASSUME NEW s \in Seq(Nat)
    PROVE  U2G(s) \in Seq(Nat) /\ Len(U2G(s)) = Len(s)
<1>1. PICK n \in Nat : n = Len(s)
  OBVIOUS
<1> DEFINE g(i) == IF s[i] \in Range(Utf8)
                   THEN CHOOSE c \in DOMAIN Utf8 : Utf8[c] = s[i]
                   ELSE Substitute
<1>2. ASSUME NEW i \in 1..n PROVE g(i) \in Nat
  <2>1. ASSUME s[i] \in Range(Utf8)
        PROVE  (CHOOSE c \in DOMAIN Utf8 : Utf8[c] = s[i]) \in DOMAIN Utf8
    BY <2>1 DEF Range
  <2>2. DOMAIN Utf8 \subseteq Nat /\ Substitute \in Nat
    BY FramingAssumption
  <2> QED
    BY <2>1, <2>2
<1>3. U2G(s) = [i \in 1..n |-> g(i)]
  BY <1>1 DEF U2G
<1> HIDE DEF g
<1>4. U2G(s) \in [1..n -> Nat]
  BY <1>2, <1>3
<1> QED
  BY <1>1, <1>4, FunctionAsSeq

\* What recv_process prints is a text.
LEMMA PrintedType ==
    ASSUME NEW c \in Clean, key \in DesKey, NEW text \in PrintedOf(c)
    PROVE  text \in Seq(Nat)
<1>1. key \in Key /\ Byte \subseteq Nat
  BY FramingAssumption, CipherAssumption
<1>2. c \in Seq(Byte)
  BY CleanBytes
<1>3. PICK d \in Seq(Byte) : d = des_decrypt(c, key)
  BY <1>1, <1>2, CryptTypes
<1>4. ASSUME NEW s \in Clean PROVE s \in Seq(Nat)
  <2>1. Byte \ {0} \subseteq Nat
    BY <1>1
  <2> QED
    BY <2>1, SeqMonotonic DEF Clean
<1>5. CASE to = "linux"
  <2>1. text = CStr(d)
    BY <1>3, <1>5 DEF PrintedOf
  <2> QED
    BY <1>4, <2>1, CStrClean
<1>6. CASE to # "linux"
  <2>1. PICK s \in Unterminated(d) : text = U2G(s)
    BY <1>3, <1>6 DEF PrintedOf
  <2>2. s \in Seq(Nat)
    BY <1>4, UnterminatedIn
  <2> QED
    BY <2>1, <2>2, U2GType
<1> QED
  BY <1>5, <1>6

-----------------------------------------------------------------------------
(* The longest content. *)

\* A function to numbers on a finite set is bounded.
LEMMA Bounded ==
    ASSUME NEW S, IsFiniteSet(S), NEW g \in [S -> Nat]
    PROVE  \E b \in Nat : \A x \in S : g[x] <= b
<1>a. PICK n \in Nat : ExistsSurjection(1..n, S)
  BY FS_NatSurjection
<1>1. PICK e \in [1..n -> S] : \A x \in S : \E i \in 1..n : e[i] = x
  BY <1>a DEF ExistsSurjection, Surjection
<1> DEFINE Has(k) == \E b \in Nat : \A i \in 1..k : g[e[i]] <= b
           U == {k \in 0..n : ~Has(k)}
<1>2. Has(0)
  OBVIOUS
<1>3. ASSUME NEW k \in 1..n, Has(k - 1)
      PROVE  Has(k)
  <2>1. PICK b \in Nat : \A i \in 1..(k - 1) : g[e[i]] <= b
    BY <1>3
  <2>2. PICK v \in Nat : v = g[e[k]]
    OBVIOUS
  <2> DEFINE m == IF b <= v THEN v ELSE b
  <2>3. m \in Nat /\ b <= m /\ v <= m
    OBVIOUS
  <2> HIDE DEF m
  <2>4. ASSUME NEW i \in 1..k PROVE g[e[i]] <= m
    <3>1. i \in 1..(k - 1) \/ i = k
      OBVIOUS
    <3>2. g[e[i]] \in Nat
      OBVIOUS
    <3> QED
      BY <2>1, <2>2, <2>3, <3>1, <3>2
  <2> QED
    BY <2>3, <2>4
<1> HIDE DEF Has
<1>4. Has(n)
  <2>1. SUFFICES ASSUME ~Has(n) PROVE FALSE
    OBVIOUS
  <2>2. U \in SUBSET Nat /\ U # {}
    BY <2>1
  <2>3. PICK k \in U : \A j \in U : k <= j
    BY <2>2, LeastNumber
  <2>4. k \in 1..n /\ ~Has(k)
    BY <2>3, <1>2
  <2>5. k - 1 \in 0..n /\ ~(k <= k - 1)
    BY <2>4
  <2>6. Has(k - 1)
    BY <2>3, <2>5
  <2> QED
    BY <2>4, <2>6, <1>3
<1>5. PICK b \in Nat : \A i \in 1..n : g[e[i]] <= b
  BY <1>4 DEF Has
<1> QED
  BY <1>1, <1>5

\* A bounded set of numbers has a greatest element, which Max is.
LEMMA Greatest ==
    ASSUME NEW T \in SUBSET Nat, T # {},
           NEW b \in Nat, \A x \in T : x <= b
    PROVE  Max(T) \in T /\ \A x \in T : x <= Max(T)
<1> DEFINE U == {u \in Nat : \A x \in T : x <= u}
<1>1. U \in SUBSET Nat /\ U # {}
  OBVIOUS
<1>2. PICK m \in U : \A u \in U : m <= u
  BY <1>1, LeastNumber
<1>3. m \in T
  <2>1. SUFFICES ASSUME m \notin T PROVE FALSE
    OBVIOUS
  <2>2. \A x \in T : x <= m - 1 /\ x \in Nat
    BY <1>2, <2>1
  <2>3. m - 1 \in Nat
    <3>1. PICK x \in T : x \in Nat /\ x <= m - 1
      BY <2>2
    <3> QED
      BY <3>1, <1>2
  <2>4. m - 1 \in U /\ ~(m <= m - 1)
    BY <2>2, <2>3
  <2> QED
    BY <1>2, <2>4
<1>4. \A x \in T : m >= x
  BY <1>2
<1>5. \E x \in T : \A y \in T : x >= y
  BY <1>3, <1>4
<1>6. Max(T) \in T /\ \A y \in T : Max(T) >= y
  BY <1>5, Zenon DEF Max
<1>7. PICK x \in Nat : x = Max(T)
  BY <1>6
<1> QED
  BY <1>6, <1>7

\* Every message that can be sent has at most Longest bytes of content.
LEMMA LongestBounds ==
    ASSUME key \in DesKey
    PROVE  /\ Longest \in Nat
           /\ \A t \in Typeable : \A c \in Contents(t) : Len(c) <= Longest
<1> DEFINE L ==
        {Len(content) : content \in UNION {Contents(t) : t \in Typeable}}
           enc == [t \in Typeable |-> Len(des_encrypt(Wire(t), key))]
           jlen == [j \in Junk |-> Len(j)]
<1>1. /\ IsFiniteSet(Typeable) /\ Typeable # {}
      /\ IsFiniteSet(Junk) /\ Junk # {}
  BY FramingAssumption DEF Typeable
<1>2. \A t \in Typeable : des_encrypt(Wire(t), key) \in Seq(Byte)
  BY WireClean, CryptTypes, FramingAssumption
<1>3. enc \in [Typeable -> Nat]
  BY <1>2
<1>4. \A j \in Junk : j \in Clean
  BY FramingAssumption DEF Clean
<1>5. jlen \in [Junk -> Nat]
  BY <1>4 DEF Clean
<1>6. PICK b \in Nat : \A t \in Typeable : enc[t] <= b
  <2> HIDE DEF enc
  <2> QED
    BY <1>1, <1>3, Bounded
<1>7. PICK d \in Nat : \A j \in Junk : jlen[j] <= d
  <2> HIDE DEF jlen
  <2> QED
    BY <1>1, <1>5, Bounded
<1>8. ASSUME NEW t \in Typeable, NEW c \in Contents(t)
      PROVE  Len(c) \in Nat /\ Len(c) <= b + d
  <2>1. PICK e \in Seq(Byte) : e = des_encrypt(Wire(t), key)
    BY <1>2
  <2>2. Len(e) \in Nat /\ Len(e) <= b
    BY <1>6, <2>1
  <2>3. c \in Clean
    BY ContentClean
  <2>4. c = CStr(e) \/ \E j \in Junk : c = e \o j
    BY <2>1, ContentsOfWire, UnterminatedIn
  <2>5. CASE c = CStr(e)
    <3>1. Len(c) <= Len(e)
      BY <2>5, CStrClean
    <3>2. Len(c) \in Nat
      BY <2>3 DEF Clean
    <3> QED
      BY <2>2, <3>1, <3>2
  <2>6. CASE \E j \in Junk : c = e \o j
    <3>1. PICK j \in Junk : c = e \o j
      BY <2>6
    <3>2. j \in Seq(Byte)
      BY <1>4, CleanBytes
    <3>3. Len(c) = Len(e) + Len(j) /\ Len(j) \in Nat
      BY <3>1, <3>2, ConcatProperties
    <3>4. Len(j) <= d
      BY <1>7
    <3> QED
      BY <2>2, <3>3, <3>4
  <2> QED
    BY <2>4, <2>5, <2>6
<1>9. L \in SUBSET Nat /\ \A x \in L : x <= b + d
  BY <1>8
<1>10. L # {}
  <2>1. PICK t \in Typeable : TRUE
    BY <1>1
  <2>2. PICK c : c \in Contents(t)
    BY <1>1 DEF Contents, EncStr, EncStrWindows, Unterminated
  <2> QED
    BY <2>1, <2>2
<1>11. \A t \in Typeable : \A c \in Contents(t) : Len(c) \in L
  OBVIOUS
<1>12. Longest = Max(L)
  BY DEF Longest
<1> HIDE DEF L
<1>13. Max(L) \in L /\ \A x \in L : x <= Max(L)
  <2>1. b + d \in Nat
    OBVIOUS
  <2> QED
    BY <1>9, <1>10, <2>1, Greatest
<1> QED
  BY <1>9, <1>11, <1>12, <1>13

\* A step that leaves the clients and the key alone leaves what may be sent
\* alone, and so the longest content.
LEMMA SameSetting ==
    ASSUME UNCHANGED setting
    PROVE  /\ from' = from /\ to' = to /\ key' = key
           /\ Typeable' = Typeable
           /\ \A t : Contents(t)' = Contents(t)
           /\ \A c : PrintedOf(c)' = PrintedOf(c)
           /\ Longest' = Longest
<1>1. from' = from /\ to' = to /\ key' = key
  BY DEF setting
<1>2. Typeable' = Typeable
  BY <1>1 DEF Typeable
<1>3. ASSUME NEW t PROVE Contents(t)' = Contents(t)
  BY <1>1 DEF Contents, EncStr, EncStrWindows
<1>4. ASSUME NEW c PROVE PrintedOf(c)' = PrintedOf(c)
  BY <1>1 DEF PrintedOf
<1>5. Longest' = Longest
  BY <1>1 DEF Longest, Typeable, Contents, EncStr, EncStrWindows
<1> QED
  BY <1>1, <1>2, <1>3, <1>4, <1>5
-----------------------------------------------------------------------------
(* What the invariant says of the two ends of each stream. *)

\* The beginning of a beginning.
LEMMA PrefixOfPrefix ==
    ASSUME NEW C, NEW s \in Seq(C), NEW n \in 0..Len(s), NEW k \in 0..n
    PROVE  SubSeq(SubSeq(s, 1, n), 1, k) = SubSeq(s, 1, k)
<1>1. PICK t \in Seq(C) :
         /\ t = SubSeq(s, 1, n) /\ Len(t) = n
         /\ \A i \in 1..n : t[i] = s[i]
  <2>1. SubSeq(s, 1, n) \in Seq(C)
    BY FirstPiece
  <2>2. PICK t \in Seq(C) : t = SubSeq(s, 1, n)
    BY <2>1
  <2> QED
    BY <2>2, FirstPiece
<1>2. k \in 0..Len(t) /\ k \in 0..Len(s)
  BY <1>1
<1>3. SubSeq(t, 1, k) \in Seq(C) /\ SubSeq(s, 1, k) \in Seq(C)
  BY <1>2, FirstPiece
<1>4. PICK a \in Seq(C), b \in Seq(C) :
        a = SubSeq(t, 1, k) /\ b = SubSeq(s, 1, k)
  BY <1>3
<1>5. /\ Len(a) = k /\ Len(b) = k
      /\ \A i \in 1..k : a[i] = t[i]
      /\ \A i \in 1..k : b[i] = s[i]
  BY <1>2, <1>4, FirstPiece
<1>6. \A i \in 1..k : a[i] = b[i]
  BY <1>1, <1>5
<1>7. a = b
  BY <1>5, <1>6, SeqEqual
<1> QED
  BY <1>1, <1>4, <1>7

\* An element more does not change the beginning.
LEMMA PrefixOfAppend ==
    ASSUME NEW C, NEW s \in Seq(C), NEW e \in C, NEW k \in 0..Len(s)
    PROVE  SubSeq(Append(s, e), 1, k) = SubSeq(s, 1, k)
<1>1. Append(s, e) \in Seq(C)
  OBVIOUS
<1>2. PICK t \in Seq(C) : t = Append(s, e)
  BY <1>1
<1>3. Len(t) = Len(s) + 1 /\ \A i \in 1..Len(s) : t[i] = s[i]
  BY <1>2
<1>4. k \in 0..Len(t)
  BY <1>3
<1>5. SubSeq(t, 1, k) \in Seq(C) /\ SubSeq(s, 1, k) \in Seq(C)
  BY <1>4, FirstPiece
<1>6. PICK a \in Seq(C), b \in Seq(C) :
        a = SubSeq(t, 1, k) /\ b = SubSeq(s, 1, k)
  BY <1>5
<1>7. /\ Len(a) = k /\ Len(b) = k
      /\ \A i \in 1..k : a[i] = t[i]
      /\ \A i \in 1..k : b[i] = s[i]
  BY <1>4, <1>6, FirstPiece
<1>8. ASSUME NEW i \in 1..k PROVE a[i] = b[i]
  <2>1. i \in 1..Len(s)
    OBVIOUS
  <2>2. t[i] = s[i]
    BY <1>3, <2>1
  <2> QED
    BY <1>7, <2>2
<1>9. a = b
  <2>1. Len(a) = Len(b) /\ \A i \in 1..Len(a) : a[i] = b[i]
    BY <1>7, <1>8
  <2> QED
    BY <2>1, SeqEqual
<1> QED
  BY <1>2, <1>6, <1>9

\* Types and lengths that follow from the invariant: what was taken is the
\* beginning of what was typed, and what was sent was taken.
LEMMA Facts ==
    ASSUME Inv
    PROVE  /\ SentContents \in Seq(Clean) /\ Len(SentContents) = Len(typed)
           /\ taken \in Seq(Clean)
           /\ Len(typed) \in Nat /\ Len(taken) \in Nat
           /\ Len(messq) \in Nat /\ Len(sent) \in Nat /\ Len(shown) \in Nat
           /\ \A i \in 1..Len(typed) : SentContents[i] = typed[i].content
           /\ \A i \in 1..Len(taken) : taken[i] = SentContents[i]
           /\ Popped \in 0..Len(taken) /\ Popped = Len(taken) - Len(messq)
           /\ SentOut \in Seq(Clean) /\ Len(SentOut) = Len(sent)
           /\ \A i \in 1..Len(sent) :
                 sent[i] \in 1..Len(taken) /\ SentOut[i] = taken[sent[i]]
<1>1. /\ Len(typed) \in Nat /\ Len(taken) \in Nat
      /\ Len(messq) \in Nat /\ Len(sent) \in Nat /\ Len(shown) \in Nat
  BY DEF Inv, TypeOK
<1>2. SentContents \in [1..Len(typed) -> Clean]
  BY DEF Inv, TypedInv, SentContents
<1>3. SentContents \in Seq(Clean) /\ Len(SentContents) = Len(typed)
  BY <1>1, <1>2, FunctionAsSeq
<1>4. \A i \in 1..Len(typed) : SentContents[i] = typed[i].content
  BY DEF SentContents
<1>5. /\ Len(taken) \in 0..Len(SentContents)
      /\ taken = SubSeq(SentContents, 1, Len(taken))
  BY <1>1, <1>3 DEF Inv, UplinkInv
<1>6. /\ SubSeq(SentContents, 1, Len(taken)) \in Seq(Clean)
      /\ \A i \in 1..Len(taken) :
            SubSeq(SentContents, 1, Len(taken))[i] = SentContents[i]
  BY <1>3, <1>5, FirstPiece
<1>7. /\ taken \in Seq(Clean)
      /\ \A i \in 1..Len(taken) : taken[i] = SentContents[i]
  BY <1>5, <1>6, Zenon
<1>8. Popped = Len(taken) - Len(messq) /\ Popped \in 0..Len(taken)
  BY <1>1 DEF Inv, QueueInv, Popped
<1>9. ASSUME NEW i \in 1..Len(sent)
      PROVE  sent[i] \in 1..Len(taken) /\ taken[sent[i]] \in Clean
  <2>1. sent[i] \in 1..Popped
    BY DEF Inv, OnceInv
  <2>2. sent[i] \in 1..Len(taken)
    BY <1>1, <1>8, <2>1
  <2> QED
    BY <1>7, <2>2, ElementOfSeq
<1>10. SentOut \in [1..Len(sent) -> Clean]
  BY <1>9 DEF SentOut
<1>11. SentOut \in Seq(Clean) /\ Len(SentOut) = Len(sent)
  BY <1>1, <1>10, FunctionAsSeq
<1>12. \A i \in 1..Len(sent) : SentOut[i] = taken[sent[i]]
  BY DEF SentOut
<1> QED
  BY <1>1, <1>3, <1>4, <1>7, <1>8, <1>9, <1>11, <1>12

\* The server's buffer begins with the first message it has not taken yet.
LEMMA UplinkNext ==
    ASSUME Inv, Cat(sbuf, up) # <<>>
    PROVE  \E c \in Clean, r \in Stream :
              /\ Len(taken) < Len(typed)
              /\ c = SentContents[Len(taken) + 1]
              /\ Cat(sbuf, up) = Cat(Sent(c), r)
              /\ Append(taken, c) = SubSeq(SentContents, 1, Len(taken) + 1)
              /\ Whole(SentContents) = Cat(Whole(Append(taken, c)), r)
<1>1. PICK cs \in Seq(Clean) : cs = SentContents
  BY Facts
<1>2. PICK k \in Nat : k = Len(taken)
  BY Facts
<1>3. /\ Len(cs) \in Nat /\ k <= Len(cs) /\ Len(cs) = Len(typed)
      /\ taken = SubSeq(cs, 1, k)
  <2>1. Len(cs) = Len(typed) /\ Len(typed) \in Nat
    BY <1>1, Facts
  <2>2. Len(taken) <= Len(typed) /\ taken = SubSeq(SentContents, 1, Len(taken))
    BY DEF Inv, UplinkInv
  <2> QED
    BY <1>1, <1>2, <2>1, <2>2
<1>4. PICK rest \in Stream : rest = Cat(sbuf, up)
  BY CatIn DEF Inv, StreamTypes
<1>5. Whole(cs) = Cat(Whole(SubSeq(cs, 1, k)), rest)
  BY <1>1, <1>3, <1>4 DEF Inv, UplinkInv
<1>6. k < Len(cs)
  <2>1. SUFFICES ASSUME k = Len(cs) PROVE FALSE
    BY <1>3
  <2> QED
    BY <1>4, <1>5, <2>1, NoMessage
<1>7. /\ cs[k + 1] \in Clean
      /\ \E r \in Stream :
            /\ rest = Cat(Sent(cs[k + 1]), r)
            /\ Whole(cs) = Cat(Whole(SubSeq(cs, 1, k + 1)), r)
  BY <1>5, <1>6, NextMessage
<1>8. PICK c \in Clean : c = cs[k + 1]
  BY <1>7
<1>9. PICK r \in Stream :
         /\ rest = Cat(Sent(c), r)
         /\ Whole(cs) = Cat(Whole(SubSeq(cs, 1, k + 1)), r)
  BY <1>7, <1>8
<1>10. Append(taken, c) = SubSeq(cs, 1, k + 1)
  <2>1. k + 1 \in 1..Len(cs) /\ (k + 1) - 1 = k
    BY <1>3, <1>6
  <2>2. SubSeq(cs, 1, k + 1) = Append(SubSeq(cs, 1, (k + 1) - 1), cs[k + 1])
    BY <2>1, LastPiece
  <2> QED
    BY <1>3, <1>8, <2>1, <2>2
<1> QED
  BY <1>1, <1>2, <1>3, <1>4, <1>6, <1>8, <1>9, <1>10

\* As long as every message went out whole, the client's buffer begins with
\* the first message it has not printed yet.
LEMMA DownlinkNext ==
    ASSUME Inv, ~cut, Cat(cbuf, down) # <<>>
    PROVE  \E c \in Clean, r \in Stream :
              /\ Len(shown) < Len(sent)
              /\ c = SentOut[Len(shown) + 1]
              /\ Cat(cbuf, down) = Cat(Sent(c), r)
              /\ Whole(SentOut) =
                    Cat(Whole(SubSeq(SentOut, 1, Len(shown) + 1)), r)
<1>1. PICK k \in Nat : k = Len(shown)
  BY Facts
<1>2. PICK cs \in Seq(Clean) : cs = SentOut
  BY Facts
<1>3. Len(cs) = Len(sent) /\ Len(cs) \in Nat /\ k <= Len(cs)
  BY <1>1, <1>2, Facts DEF Inv, DownlinkInv
<1>4. PICK rest \in Stream : rest = Cat(cbuf, down)
  BY CatIn DEF Inv, StreamTypes
<1>5. Whole(cs) = Cat(Whole(SubSeq(cs, 1, k)), rest)
  BY <1>1, <1>2, <1>4 DEF Inv, DownlinkInv
<1>6. k < Len(cs)
  <2>1. SUFFICES ASSUME k = Len(cs) PROVE FALSE
    BY <1>3
  <2> QED
    BY <1>4, <1>5, <2>1, NoMessage
<1>7. /\ cs[k + 1] \in Clean
      /\ \E r \in Stream :
            /\ rest = Cat(Sent(cs[k + 1]), r)
            /\ Whole(cs) = Cat(Whole(SubSeq(cs, 1, k + 1)), r)
  BY <1>5, <1>6, NextMessage
<1>8. PICK c \in Clean : c = cs[k + 1]
  BY <1>7
<1>9. PICK r \in Stream :
         /\ rest = Cat(Sent(c), r)
         /\ Whole(cs) = Cat(Whole(SubSeq(cs, 1, k + 1)), r)
  BY <1>7, <1>8
<1> QED
  BY <1>1, <1>2, <1>3, <1>4, <1>6, <1>8, <1>9
-----------------------------------------------------------------------------
(* What a step that leaves a part alone leaves of the invariant. *)

\* Of what was typed.
LEMMA SameTyped ==
    ASSUME TypedInv, UNCHANGED sender
    PROVE  TypedInv' /\ SentContents' = SentContents
<1>1. typed' = typed /\ UNCHANGED setting
  BY DEF sender
<1>2. \A t : Contents(t)' = Contents(t)
  BY <1>1, SameSetting
<1>3. SentContents' = SentContents
  BY <1>1 DEF SentContents
<1> QED
  BY <1>1, <1>2, <1>3 DEF TypedInv

\* Of the stream to the server.
LEMMA SameUplink ==
    ASSUME UplinkInv, UNCHANGED <<sender, up, sbuf, taken>>
    PROVE  UplinkInv'
<1>1. SentContents' = SentContents
  BY DEF SentContents, sender
<1> QED
  BY <1>1 DEF UplinkInv, sender

\* Of mess_que and what came out of it.
LEMMA SameQueue ==
    ASSUME QueueInv, OnceInv, UNCHANGED <<taken, messq, held, sent>>
    PROVE  QueueInv' /\ OnceInv'
<1>1. Popped' = Popped
  BY DEF Popped
<1>2. QueueInv'
  BY <1>1 DEF QueueInv, AsTaken
<1>3. OnceInv'
  BY <1>1 DEF OnceInv
<1> QED
  BY <1>2, <1>3

\* Of the bound of client_msg_buf.
LEMMA SameBuffer ==
    ASSUME BufferInv, UNCHANGED <<setting, srv, sbuf>>
    PROVE  BufferInv'
<1>1. Longest' = Longest
  BY SameSetting
<1>2. ServerHas' <=> ServerHas
  BY DEF ServerHas, ProtocolLength
<1> QED
  BY <1>1, <1>2 DEF BufferInv, BufferFits

\* Of the stream to the client, whose bytes may move into the buffer.
LEMMA SameDownlink ==
    ASSUME DownlinkInv,
           UNCHANGED <<setting, cut, cli, shown>>,
           UNCHANGED <<sent, SentOut>>,
           UNCHANGED Cat(cbuf, down)
    PROVE  DownlinkInv'
<1>1. ASSUME NEW i PROVE PrintedOf(SentOut[i])' = PrintedOf(SentOut[i])
  <2>1. PICK c : c = SentOut[i]
    OBVIOUS
  <2>2. SentOut'[i] = SentOut[i]
    OBVIOUS
  <2> QED
    BY <2>2, SameSetting DEF PrintedOf
<1> QED
  BY <1>1 DEF DownlinkInv

\* Of the contents sent.
LEMMA SameSentOut ==
    ASSUME UNCHANGED <<taken, sent>>
    PROVE  SentOut' = SentOut
  BY DEF SentOut

\* A stream is what TypeOK wants of it.
LEMMA StreamOfCells ==
    ASSUME NEW s \in Stream
    PROVE  s \in Seq(Cell)
<1>1. GoodCell \subseteq Cell
  BY DEF GoodCell
<1> QED
  BY <1>1, SeqMonotonic DEF Stream

-----------------------------------------------------------------------------
(* The first state. *)

\* It satisfies the invariant: nothing has been sent.
LEMMA InitInv == Init => Inv
<1> SUFFICES ASSUME Init PROVE Inv
  OBVIOUS
<1>1. <<>> \in Stream /\ Cat(<<>>, Cat(<<>>, <<>>)) = <<>>
  <2>1. <<>> \in Stream /\ Cat(<<>>, <<>>) = <<>>
    BY CatEmpty
  <2> QED
    BY <2>1, Zenon
<1>2. StreamTypes
  BY <1>1 DEF Init, StreamTypes
<1>3. TypeOK
  <2>1. \A S : <<>> \in Seq(S)
    OBVIOUS
  <2>2. typed \in Seq([text : Typeable, content : Seq(Byte)])
    BY <2>1 DEF Init
  <2>3. /\ taken \in Seq(Seq(Byte))
        /\ messq \in Seq(Message) /\ held \in SUBSET Message
        /\ sent \in Seq(Nat)
    BY <2>1 DEF Init
  <2>4. /\ shown \in Seq(Seq(Nat))
        /\ \A s \in {up, sbuf, down, cbuf} : s \in Seq(Cell)
    BY <2>1 DEF Init
  <2> QED
    BY <2>2, <2>3, <2>4 DEF Init, TypeOK
<1>4. TypedInv
  BY DEF Init, TypedInv
<1>5. SentContents = <<>>
  BY DEF Init, SentContents
<1>6. SubSeq(<<>>, 1, 0) = <<>>
  BY SubSeqEmpty
<1>7. Len(<<>>) = 0
  OBVIOUS
<1>8. UplinkInv
  <2>1. taken = <<>> /\ typed = <<>> /\ sbuf = <<>> /\ up = <<>>
    BY DEF Init
  <2>2. Whole(SentContents) = Cat(Whole(taken), Cat(sbuf, up))
    BY <1>1, <1>5, <2>1, WholeEmpty, Zenon
  <2> QED
    BY <1>5, <1>6, <1>7, <2>1, <2>2 DEF UplinkInv
<1>9. QueueInv /\ OnceInv
  BY DEF Init, QueueInv, OnceInv
<1>10. Longest \in Nat /\ HeadLen \in Nat /\ RecvMax \in Nat
  BY LongestBounds, FramingAssumption DEF Init
<1>11. BufferInv
  BY <1>10 DEF Init, BufferInv, BufferFits, ServerHas
<1>12. DownlinkInv
  <2>1. /\ sent = <<>> /\ shown = <<>>
        /\ cbuf = <<>> /\ down = <<>> /\ cli = "recv"
    BY DEF Init
  <2>2. SentOut = <<>>
    BY <2>1 DEF SentOut
  <2>3. Whole(SentOut) =
          Cat(Whole(SubSeq(SentOut, 1, Len(shown))), Cat(cbuf, down))
    BY <1>1, <1>6, <1>7, <2>1, <2>2, WholeEmpty, Zenon
  <2> QED
    BY <1>7, <2>1, <2>3 DEF DownlinkInv
<1> QED
  BY <1>2, <1>3, <1>4, <1>8, <1>9, <1>11, <1>12 DEF Inv

-----------------------------------------------------------------------------
(* The sending client. *)

\* send_process adds one message to the end of the stream.
LEMMA SendInv ==
    ASSUME Inv, Send
    PROVE  Inv'
<1>a. PICK text \in Typeable : \E content \in Contents(text) :
         /\ typed' = Append(typed, [text |-> text, content |-> content])
         /\ up' = up \o Sent(content)
  BY DEF Send
<1>1. PICK c \in Contents(text) :
         /\ typed' = Append(typed, [text |-> text, content |-> c])
         /\ up' = up \o Sent(c)
  BY <1>a
<1>2. /\ UNCHANGED setting /\ UNCHANGED <<srv, sbuf, taken>>
      /\ UNCHANGED <<messq, held, sent, down, cut>> /\ UNCHANGED <<cli, cbuf, shown>>
  BY DEF Send, server, queue, receiver
<1>3. /\ Typeable' = Typeable /\ \A t : Contents(t)' = Contents(t)
      /\ key \in DesKey
  BY <1>2, SameSetting DEF Inv, TypeOK
<1>4. c \in Clean /\ c \in Seq(Byte)
  BY <1>3, ContentClean, CleanBytes
<1>5. PICK m \in Stream : m = Sent(c)
  BY <1>4, SentBytes
<1>6. up \in Stream /\ sbuf \in Stream /\ up' = Cat(up, m) /\ up' \in Stream
  BY <1>1, <1>5, CatIn DEF Inv, StreamTypes, Cat
<1>7. PICK n \in Nat : n = Len(typed)
  BY Facts
<1>8. /\ typed' \in Seq([text : Typeable, content : Seq(Byte)])
      /\ Len(typed') = n + 1
      /\ typed'[n + 1] = [text |-> text, content |-> c]
      /\ \A i \in 1..n : typed'[i] = typed[i]
  BY <1>1, <1>4, <1>7 DEF Inv, TypeOK
<1>9. TypeOK'
  <2>1. up' \in Seq(Cell)
    BY <1>6, StreamOfCells
  <2>2. typed' \in Seq([text : Typeable', content : Seq(Byte)])
    BY <1>3, <1>8, Zenon
  <2> QED
    BY <1>2, <2>1, <2>2 DEF Inv, TypeOK, setting
<1>10. StreamTypes'
  BY <1>2, <1>6 DEF Inv, StreamTypes
<1>11. TypedInv'
  <2>1. ASSUME NEW i \in 1..(n + 1)
        PROVE  /\ typed'[i].content \in Contents(typed'[i].text)
               /\ typed'[i].content \in Clean
    <3>1. CASE i = n + 1
      BY <1>4, <1>8, <3>1
    <3>2. CASE i # n + 1
      <4>1. i \in 1..n
        BY <3>2
      <4> QED
        BY <1>7, <1>8, <4>1 DEF Inv, TypedInv
    <3> QED
      BY <3>1, <3>2
  <2> QED
    BY <1>3, <1>8, <2>1 DEF TypedInv
<1>12. PICK cs \in Seq(Clean) :
          /\ cs = SentContents /\ Len(cs) = n
          /\ \A i \in 1..n : cs[i] = typed[i].content
  BY <1>7, Facts
<1>13. SentContents' = Append(cs, c)
  <2>1. SentContents' = [i \in 1..(n + 1) |-> typed'[i].content]
    BY <1>8 DEF SentContents
  <2>2. Append(cs, c) \in Seq(Clean)
    BY <1>4, AppendProperties
  <2>3. PICK t \in Seq(Clean) : t = Append(cs, c)
    BY <2>2
  <2>4. Len(t) = n + 1 /\ t[n + 1] = c /\ \A i \in 1..n : t[i] = cs[i]
    BY <1>12, <2>3
  <2>5. ASSUME NEW i \in 1..(n + 1) PROVE typed'[i].content = t[i]
    <3>1. CASE i = n + 1
      BY <1>8, <2>4, <3>1
    <3>2. CASE i # n + 1
      <4>1. i \in 1..n
        BY <3>2
      <4> QED
        BY <1>8, <1>12, <2>4, <4>1
    <3> QED
      BY <3>1, <3>2
  <2>6. t = [i \in 1..(n + 1) |-> t[i]]
    BY <2>4
  <2> QED
    BY <2>1, <2>3, <2>5, <2>6
<1>14. UplinkInv'
  <2>1. PICK w \in Stream : w = Whole(taken)
    BY WholeIn, Facts
  <2>2. PICK s \in Stream : s = Whole(cs)
    BY WholeIn
  <2>3. s = Cat(w, Cat(sbuf, up))
    BY <1>12, <2>1, <2>2 DEF Inv, UplinkInv
  <2>4. Whole(Append(cs, c)) = Cat(s, m)
    BY <1>4, <1>5, <2>2, WholeAppend
  <2>5. PICK b \in Stream : b = Cat(sbuf, up)
    BY <1>6, CatIn
  <2>6. Cat(s, m) = Cat(w, Cat(b, m)) /\ Cat(b, m) = Cat(sbuf, Cat(up, m))
    BY <1>6, <2>3, <2>5, CatAssociates
  <2>7. Whole(SentContents') = Cat(Whole(taken'), Cat(sbuf', up'))
    BY <1>2, <1>6, <1>13, <2>1, <2>4, <2>6
  <2>8. Len(taken) \in 0..n /\ taken = SubSeq(cs, 1, Len(taken))
    BY <1>7, <1>12, Facts DEF Inv, UplinkInv
  <2>9. SubSeq(Append(cs, c), 1, Len(taken)) = SubSeq(cs, 1, Len(taken))
    BY <1>4, <1>12, <2>8, PrefixOfAppend
  <2>10. taken' = SubSeq(SentContents', 1, Len(taken'))
    BY <1>2, <1>13, <2>8, <2>9
  <2>11. Len(taken') <= Len(typed')
    BY <1>2, <1>8, <2>8
  <2> QED
    BY <2>7, <2>10, <2>11 DEF UplinkInv
<1>15. QueueInv' /\ OnceInv' /\ BufferInv' /\ DownlinkInv'
  BY <1>2, SameQueue, SameBuffer, SameSentOut, SameDownlink DEF Inv
<1> QED
  BY <1>9, <1>10, <1>11, <1>14, <1>15 DEF Inv
-----------------------------------------------------------------------------
(* The server's reader. *)

\* A header is in the buffer and tells the length of the message it begins.
LEMMA UplinkHeader ==
    ASSUME Inv, sbuf # <<>>
    PROVE  \E c \in Clean, r \in Stream :
              /\ Len(taken) < Len(typed)
              /\ c = SentContents[Len(taken) + 1]
              /\ Append(taken, c) = SubSeq(SentContents, 1, Len(taken) + 1)
              /\ Whole(SentContents) = Cat(Whole(Append(taken, c)), r)
              /\ Len(c) \in Nat /\ Len(c) <= Longest
              /\ ProtocolLength(sbuf) = HeadLen + Len(c)
              /\ Len(sbuf) >= HeadLen + Len(c) =>
                    /\ Content(sbuf) = c
                    /\ From(sbuf, HeadLen + Len(c)) \in Stream
                    /\ Cat(From(sbuf, HeadLen + Len(c)), up) = r
<1>1. sbuf \in Stream /\ up \in Stream
  BY DEF Inv, StreamTypes
<1>2. Cat(sbuf, up) # <<>>
  BY <1>1, CatEmpty
<1>3. PICK c \in Clean, r \in Stream :
         /\ Len(taken) < Len(typed)
         /\ c = SentContents[Len(taken) + 1]
         /\ Cat(sbuf, up) = Cat(Sent(c), r)
         /\ Append(taken, c) = SubSeq(SentContents, 1, Len(taken) + 1)
         /\ Whole(SentContents) = Cat(Whole(Append(taken, c)), r)
  BY <1>2, UplinkNext
<1>4. Len(sbuf) # 0 /\ Len(c) \in Nat
  BY <1>1 DEF Stream, Clean
<1>5. PICK n : n = HeadLen + Len(c)
  OBVIOUS
<1>6. /\ ProtocolLength(sbuf) = n
      /\ Len(sbuf) >= n =>
            /\ Content(sbuf) = c
            /\ From(sbuf, n) \in Stream
            /\ Cat(From(sbuf, n), up) = r
  BY <1>1, <1>3, <1>4, <1>5, MessageFirst
<1>7. Len(c) <= Longest
  <2>1. Len(taken) + 1 \in 1..Len(typed)
    <3>1. Len(typed) \in Nat /\ Len(taken) \in Nat
      BY Facts
    <3> QED
      BY <1>3, <3>1
  <2>2. typed[Len(taken) + 1] \in [text : Typeable, content : Seq(Byte)]
    BY <2>1, ElementOfSeq DEF Inv, TypeOK
  <2>3. PICK t \in Typeable : t = typed[Len(taken) + 1].text
    BY <2>2
  <2>4. c \in Contents(t)
    BY <1>3, <2>1, <2>3, Facts DEF Inv, TypedInv
  <2> QED
    BY <2>4, LongestBounds DEF Inv, TypeOK
<1> QED
  BY <1>3, <1>4, <1>5, <1>6, <1>7

\* A buffer without a complete message holds a part of one, or its header.
LEMMA IdleBuffer ==
    ASSUME Inv, ~ServerHas
    PROVE  Len(sbuf) <= HeadLen + (IF Longest = 0 THEN 0 ELSE Longest - 1)
<1>1. Longest \in Nat /\ HeadLen \in Nat \ {0}
  BY LongestBounds, FramingAssumption DEF Inv, TypeOK
<1>2. CASE sbuf = <<>>
  BY <1>1, <1>2
<1>3. CASE sbuf # <<>>
  <2>1. PICK c \in Clean :
           /\ Len(c) \in Nat /\ Len(c) <= Longest
           /\ ProtocolLength(sbuf) = HeadLen + Len(c)
    BY <1>3, UplinkHeader
  <2>2. PICK k \in Nat : k = Len(sbuf)
    BY DEF Inv, TypeOK
  <2>3. k <= HeadLen \/ k < HeadLen + Len(c)
    BY <1>1, <2>1, <2>2 DEF ServerHas
  <2> QED
    BY <1>1, <2>1, <2>2, <2>3
<1> QED
  BY <1>2, <1>3

\* recv() moves bytes from the stream to the end of the buffer, which had no
\* complete message: so it has room for them.
LEMMA ServerRecvInv ==
    ASSUME Inv, ServerRecv
    PROVE  Inv'
<1>1. PICK n \in 1..Least(RecvMax, Len(up)) :
         sbuf' = sbuf \o SubSeq(up, 1, n) /\ up' = From(up, n)
  BY DEF ServerRecv
<1>2. /\ UNCHANGED setting /\ UNCHANGED sender /\ UNCHANGED taken
      /\ UNCHANGED <<messq, held, sent, down, cut>> /\ UNCHANGED <<cli, cbuf, shown>>
      /\ srv = "recv" /\ srv' = "frame"
  BY DEF ServerRecv, sender, queue, receiver
<1>3. up \in Stream /\ sbuf \in Stream
  BY DEF Inv, StreamTypes
<1>4. n \in Nat /\ n <= Len(up) /\ n <= RecvMax
  <2>1. Len(up) \in Nat /\ RecvMax \in Nat
    BY <1>3, FramingAssumption DEF Stream
  <2> QED
    BY <2>1 DEF Least
<1>5. PICK p \in Stream, q \in Stream :
         /\ p = SubSeq(up, 1, n) /\ q = From(up, n)
         /\ Len(p) = n /\ up = Cat(p, q)
  <2>1. SubSeq(up, 1, n) \in Stream /\ From(up, n) \in Stream
    BY <1>3, <1>4, TwoParts
  <2>2. PICK p \in Stream, q \in Stream :
          p = SubSeq(up, 1, n) /\ q = From(up, n)
    BY <2>1
  <2> QED
    BY <1>3, <1>4, <2>2, TwoParts
<1>6. /\ sbuf' = Cat(sbuf, p) /\ up' = q /\ sbuf' \in Stream
      /\ Len(sbuf') = Len(sbuf) + n
  <2>1. sbuf' = Cat(sbuf, p)
    BY <1>1, <1>5 DEF Cat
  <2>2. up' = q /\ Len(p) = n
    BY <1>1, <1>5
  <2>3. Cat(sbuf, p) \in Stream /\ Len(Cat(sbuf, p)) = Len(sbuf) + Len(p)
    BY <1>3, CatIn
  <2> QED
    BY <2>1, <2>2, <2>3
<1>7. Cat(sbuf', up') = Cat(sbuf, up)
  <2>1. up = Cat(p, q)
    BY <1>5
  <2>2. Cat(Cat(sbuf, p), q) = Cat(sbuf, Cat(p, q))
    BY <1>3, CatAssociates
  <2> QED
    BY <1>6, <2>1, <2>2
<1>8. TypeOK'
  <2>1. up' \in Seq(Cell) /\ sbuf' \in Seq(Cell)
    BY <1>6, StreamOfCells
  <2>2. typed' \in Seq([text : Typeable', content : Seq(Byte)])
    BY <1>2, SameSetting DEF Inv, TypeOK, sender
  <2> QED
    BY <1>2, <2>1, <2>2 DEF Inv, TypeOK, setting
<1>9. StreamTypes'
  BY <1>2, <1>6 DEF Inv, StreamTypes
<1>10. TypedInv' /\ SentContents' = SentContents
  BY <1>2, SameTyped DEF Inv
<1>11. UplinkInv'
  <2>1. typed' = typed /\ taken' = taken
    BY <1>2 DEF sender
  <2> QED
    BY <1>7, <1>10, <2>1 DEF Inv, UplinkInv
<1>12. BufferInv'
  <2>1. ~ServerHas
    BY <1>2 DEF Inv, BufferInv
  <2>2. Len(sbuf) <= HeadLen + (IF Longest = 0 THEN 0 ELSE Longest - 1)
    BY <2>1, IdleBuffer
  <2>3. Longest' = Longest /\ Longest \in Nat
    BY <1>2, SameSetting, LongestBounds DEF Inv, TypeOK
  <2>4. HeadLen \in Nat /\ RecvMax \in Nat /\ Len(sbuf) \in Nat
    BY <1>3, FramingAssumption DEF Stream
  <2>5. PICK B \in Nat :
           B = HeadLen + (IF Longest = 0 THEN 0 ELSE Longest - 1)
    BY <2>3, <2>4
  <2>6. Len(sbuf') <= B + RecvMax
    <3>1. Len(sbuf) <= B
      BY <2>2, <2>5
    <3>2. Len(sbuf') = Len(sbuf) + n /\ n <= RecvMax /\ n \in Nat
      BY <1>4, <1>6
    <3> QED
      BY <2>4, <3>1, <3>2
  <2>7. BufferFits'
    BY <2>3, <2>5, <2>6 DEF BufferFits
  <2> QED
    BY <1>2, <2>7 DEF BufferInv
<1>13. QueueInv' /\ OnceInv' /\ DownlinkInv'
  BY <1>2, SameQueue, SameSentOut, SameDownlink DEF Inv
<1> QED
  BY <1>8, <1>9, <1>10, <1>11, <1>12, <1>13 DEF Inv

\* The message at the beginning of the buffer is the next one that was sent, and
\* it is removed as a whole: set_data_length() rewrites the length it had.
LEMMA ServerFrameInv ==
    ASSUME Inv, ServerFrame
    PROVE  Inv'
<1>1. /\ srv = "frame" /\ ServerHas
      /\ messq' = Append(messq, Pushed)
      /\ taken' = Append(taken, CStr(Content(sbuf)))
      /\ sbuf' = From(sbuf, Reframed)
      /\ UNCHANGED setting /\ UNCHANGED sender /\ UNCHANGED <<up, srv>>
      /\ UNCHANGED <<held, sent, down, cut>>
      /\ UNCHANGED <<cli, cbuf, shown>>
  BY DEF ServerFrame, sender, receiver
<1>2. HeadLen \in Nat \ {0} /\ RecvMax \in Nat
  BY FramingAssumption
<1>3. PICK k \in Nat, d \in Nat, l \in Nat :
         /\ k = Len(taken) /\ d = Popped /\ l = Len(messq)
         /\ d = k - l
  <2>1. /\ Len(taken) \in Nat /\ Len(messq) \in Nat
        /\ Popped \in 0..Len(taken) /\ Popped = Len(taken) - Len(messq)
    BY Facts
  <2>2. Popped \in Nat
    BY <2>1
  <2> QED
    BY <2>1, <2>2
<1>4. sbuf \in Stream /\ Len(sbuf) \in Nat /\ Len(sbuf) > HeadLen
  BY <1>1 DEF Inv, StreamTypes, Stream, ServerHas
<1>5. sbuf # <<>>
  BY <1>2, <1>4
<1>6. PICK c \in Clean, r \in Stream :
         /\ k < Len(typed)
         /\ Append(taken, c) = SubSeq(SentContents, 1, k + 1)
         /\ Whole(SentContents) = Cat(Whole(Append(taken, c)), r)
         /\ Len(c) \in Nat
         /\ ProtocolLength(sbuf) = HeadLen + Len(c)
         /\ Len(sbuf) >= HeadLen + Len(c) =>
               /\ Content(sbuf) = c
               /\ From(sbuf, HeadLen + Len(c)) \in Stream
               /\ Cat(From(sbuf, HeadLen + Len(c)), up) = r
  BY <1>3, <1>5, UplinkHeader
<1>7. PICK n \in Nat : n = HeadLen + Len(c)
  BY <1>2, <1>6
<1>8. Len(sbuf) >= n
  BY <1>1, <1>6, <1>7 DEF ServerHas
<1>9. /\ Content(sbuf) = c /\ From(sbuf, n) \in Stream
      /\ Cat(From(sbuf, n), up) = r
  BY <1>6, <1>7, <1>8
<1>10. c \in Seq(Byte) /\ CStr(Content(sbuf)) = c /\ Reframed = n
  BY <1>7, <1>9, CleanBytes, CStrClean DEF Reframed
<1>11. /\ messq' = Append(messq, [n |-> k + 1, len |-> n, content |-> c])
       /\ taken' = Append(taken, c)
       /\ sbuf' = From(sbuf, n) /\ sbuf' \in Stream
  BY <1>1, <1>3, <1>9, <1>10 DEF Pushed
<1>12. /\ Len(taken') = k + 1 /\ taken'[k + 1] = c
       /\ \A i \in 1..k : taken'[i] = taken[i]
       /\ taken' \in Seq(Seq(Byte))
  BY <1>3, <1>10, <1>11 DEF Inv, TypeOK
<1>13. /\ Len(messq') = l + 1
       /\ messq'[l + 1] = [n |-> k + 1, len |-> n, content |-> c]
       /\ \A i \in 1..l : messq'[i] = messq[i]
       /\ messq' \in Seq(Message)
  <2>1. PICK m \in Message : m = [n |-> k + 1, len |-> n, content |-> c]
    <3>1. k + 1 \in Nat /\ n \in Nat /\ c \in Seq(Byte)
      BY <1>3, <1>7, <1>10
    <3>2. [n |-> k + 1, len |-> n, content |-> c] \in Message
      BY <3>1 DEF Message
    <3> QED
      BY <3>2
  <2>2. messq \in Seq(Message) /\ messq' = Append(messq, m)
    BY <1>11, <2>1 DEF Inv, TypeOK
  <2>3. /\ Len(messq') = l + 1 /\ messq'[l + 1] = m
        /\ \A i \in 1..l : messq'[i] = messq[i]
        /\ messq' \in Seq(Message)
    BY <1>3, <2>2
  <2> QED
    BY <2>1, <2>3
<1>14. Popped' = d
  BY <1>3, <1>12, <1>13 DEF Popped
<1>15. TypeOK'
  <2>1. sbuf' \in Seq(Cell)
    BY <1>11, StreamOfCells
  <2>2. typed' \in Seq([text : Typeable', content : Seq(Byte)])
    BY <1>1, SameSetting DEF Inv, TypeOK, sender
  <2> QED
    BY <1>1, <1>12, <1>13, <2>1, <2>2 DEF Inv, TypeOK, setting
<1>16. StreamTypes'
  BY <1>1, <1>11 DEF Inv, StreamTypes
<1>17. TypedInv' /\ SentContents' = SentContents
  BY <1>1, SameTyped DEF Inv
<1>18. UplinkInv'
  <2>1. taken' = SubSeq(SentContents', 1, Len(taken'))
    BY <1>6, <1>11, <1>12, <1>17
  <2>2. Whole(SentContents') = Cat(Whole(taken'), Cat(sbuf', up'))
    BY <1>1, <1>6, <1>9, <1>11, <1>17
  <2>3. Len(taken') <= Len(typed')
    BY <1>1, <1>3, <1>6, <1>12, Facts DEF sender
  <2> QED
    BY <2>1, <2>2, <2>3 DEF UplinkInv
<1>19. QueueInv'
  <2>1. \A i \in 1..k : taken'[i] = taken[i]
    BY <1>12
  <2>2. ASSUME NEW i \in 1..(l + 1)
        PROVE  /\ messq'[i].n = d + i
               /\ messq'[i].content = taken'[messq'[i].n]
               /\ messq'[i].len = HeadLen + Len(messq'[i].content)
    <3>1. CASE i = l + 1
      <4>1. d + i = k + 1
        BY <1>3, <3>1
      <4>2. messq'[i] = [n |-> k + 1, len |-> n, content |-> c]
        BY <1>13, <3>1
      <4>3. messq'[i].n = k + 1 /\ messq'[i].content = c /\ messq'[i].len = n
        BY <4>2
      <4> QED
        BY <1>7, <1>12, <4>1, <4>3
    <3>2. CASE i # l + 1
      <4>1. i \in 1..l /\ d + i \in 1..k
        BY <1>3, <3>2
      <4>2. /\ messq[i].n = d + i /\ messq[i].content = taken[messq[i].n]
            /\ messq[i].len = HeadLen + Len(messq[i].content)
        BY <1>3, <4>1 DEF Inv, QueueInv, AsTaken
      <4> QED
        BY <1>13, <2>1, <4>1, <4>2
    <3> QED
      BY <3>1, <3>2
  <2>3. ASSUME NEW m \in held
        PROVE  /\ m.n \in 1..d /\ m.content = taken'[m.n]
               /\ m.len = HeadLen + Len(m.content)
    <3>1. /\ m.n \in 1..d /\ m.content = taken[m.n]
          /\ m.len = HeadLen + Len(m.content)
      BY <1>3 DEF Inv, QueueInv, AsTaken
    <3>2. m.n \in 1..k
      BY <1>3, <3>1
    <3> QED
      BY <2>1, <3>1, <3>2
  <2>4. Len(messq') <= Len(taken')
    BY <1>3, <1>12, <1>13
  <2> QED
    BY <1>1, <1>13, <1>14, <2>2, <2>3, <2>4 DEF QueueInv, AsTaken
<1>22. OnceInv'
  BY <1>1, <1>3, <1>14 DEF Inv, OnceInv
<1>20. BufferInv'
  <2>1. Longest' = Longest /\ Longest \in Nat
    BY <1>1, SameSetting, LongestBounds DEF Inv, TypeOK
  <2>2. Len(sbuf') = Len(sbuf) - n
    BY <1>4, <1>8, <1>11, TwoParts
  <2>3. Len(sbuf) <=
            HeadLen + (IF Longest = 0 THEN 0 ELSE Longest - 1) + RecvMax
    BY DEF Inv, BufferInv, BufferFits
  <2> QED
    BY <1>1, <1>2, <1>4, <2>1, <2>2, <2>3 DEF BufferInv, BufferFits
<1>21. DownlinkInv'
  <2>1. ASSUME NEW i \in 1..Len(sent) PROVE taken'[sent[i]] = taken[sent[i]]
    <3>1. sent[i] \in 1..k
      BY <1>3, Facts
    <3> QED
      BY <1>12, <3>1
  <2>2. SentOut' = SentOut
    BY <1>1, <2>1 DEF SentOut
  <2> QED
    BY <1>1, <2>2, SameDownlink DEF Inv
<1> QED
  BY <1>15, <1>16, <1>17, <1>18, <1>19, <1>20, <1>21, <1>22 DEF Inv

\* The reader leaves the loop when the buffer has no complete message.
LEMMA ServerDoneInv ==
    ASSUME Inv, ServerDone
    PROVE  Inv'
<1>1. /\ ~ServerHas /\ srv' = "recv"
      /\ UNCHANGED setting /\ UNCHANGED sender /\ UNCHANGED <<up, sbuf, taken>>
      /\ UNCHANGED <<messq, held, sent, down, cut>> /\ UNCHANGED <<cli, cbuf, shown>>
  BY DEF ServerDone, sender, queue, receiver
<1>2. TypeOK'
  <2>1. typed' \in Seq([text : Typeable', content : Seq(Byte)])
    BY <1>1, SameSetting DEF Inv, TypeOK, sender
  <2> QED
    BY <1>1, <2>1 DEF Inv, TypeOK, setting
<1>3. StreamTypes'
  BY <1>1 DEF Inv, StreamTypes
<1>4. TypedInv'
  BY <1>1, SameTyped DEF Inv
<1>5. BufferInv'
  <2>1. Longest' = Longest
    BY <1>1, SameSetting
  <2>2. ~ServerHas'
    BY <1>1 DEF ServerHas, ProtocolLength
  <2> QED
    BY <1>1, <2>1, <2>2 DEF Inv, BufferInv, BufferFits
<1>6. UplinkInv' /\ QueueInv' /\ OnceInv' /\ DownlinkInv'
  BY <1>1, SameUplink, SameQueue, SameSentOut, SameDownlink DEF Inv
<1> QED
  BY <1>2, <1>3, <1>4, <1>5, <1>6 DEF Inv
-----------------------------------------------------------------------------
(* The dispatchers. *)

\* The first element of a sequence and the others.
LEMMA TailOf ==
    ASSUME NEW C, NEW s \in Seq(C), s # <<>>
    PROVE  /\ Head(s) = s[1] /\ s[1] \in C
           /\ Tail(s) \in Seq(C) /\ Len(Tail(s)) = Len(s) - 1 /\ Len(s) >= 1
           /\ \A i \in 1..(Len(s) - 1) : Tail(s)[i] = s[i + 1]
  OBVIOUS

\* What send() takes is a part of the message.
LEMMA PartSent ==
    ASSUME NEW m \in Stream, NEW n \in Int, n <= Len(m)
    PROVE  /\ SubSeq(m, 1, n) \in Stream
           /\ n = Len(m) => SubSeq(m, 1, n) = m
<1>1. CASE n < 1
  <2>1. SubSeq(m, 1, n) = <<>>
    BY <1>1, SubSeqEmpty
  <2>2. Len(m) \in Nat /\ (Len(m) = 0 => m = <<>>)
    BY EmptySeq DEF Stream
  <2>3. n = Len(m) => m = <<>>
    BY <1>1, <2>2
  <2>4. <<>> \in Stream
    BY CatEmpty
  <2>5. SubSeq(m, 1, n) \in Stream
    BY <2>1, <2>4, Zenon
  <2>6. n = Len(m) => SubSeq(m, 1, n) = m
    BY <2>1, <2>3, Zenon
  <2> QED
    BY <2>5, <2>6, Zenon
<1>2. CASE n >= 1
  <2>1. SubSeq(m, 1, n) \in Stream
    <3>1. n \in Nat
      BY <1>2
    <3> QED
      BY <3>1, TwoParts
  <2>2. SubSeq(m, 1, Len(m)) = m
    BY SubSeqFull DEF Stream
  <2> QED
    BY <2>1, <2>2, Zenon
<1> QED
  BY <1>1, <1>2

\* The message at the head of the queue is the next of those taken, and nobody
\* has it in hand or has sent it.
LEMMA PopInv ==
    ASSUME Inv, Pop
    PROVE  Inv'
<1> DEFINE h == Head(messq)
<1>1. messq # <<>> /\ held' = held \cup {h} /\ messq' = Tail(messq)
  BY DEF Pop
<1>2. /\ UNCHANGED setting /\ UNCHANGED sender
      /\ UNCHANGED <<up, srv, sbuf, taken>>
      /\ UNCHANGED <<sent, down, cut>> /\ UNCHANGED <<cli, cbuf, shown>>
  BY DEF Pop, sender, server, receiver
<1>3. PICK k \in Nat, d \in Nat, l \in Nat :
         /\ k = Len(taken) /\ d = Popped /\ l = Len(messq)
         /\ d = k - l
  <2>1. /\ Len(taken) \in Nat /\ Len(messq) \in Nat
        /\ Popped \in 0..Len(taken) /\ Popped = Len(taken) - Len(messq)
    BY Facts
  <2>2. Popped \in Nat
    BY <2>1
  <2> QED
    BY <2>1, <2>2
<1>4. /\ h = messq[1] /\ h \in Message /\ messq' \in Seq(Message)
      /\ Len(messq') = l - 1 /\ l >= 1
      /\ \A i \in 1..(l - 1) : messq'[i] = messq[i + 1]
  BY <1>1, <1>3, TailOf DEF Inv, TypeOK
<1> HIDE DEF h
<1>5. /\ \A i \in 1..l : messq[i].n = d + i /\ AsTaken(messq[i])
      /\ \A m \in held : m.n \in 1..d /\ AsTaken(m)
      /\ \A i \in 1..Len(sent) : sent[i] \in 1..d
  BY <1>3 DEF Inv, QueueInv, OnceInv
<1>6. h.n = d + 1 /\ AsTaken(h)
  BY <1>4, <1>5
<1>7. Popped' = d + 1
  BY <1>2, <1>3, <1>4 DEF Popped
<1>8. TypeOK'
  <2>1. typed' \in Seq([text : Typeable', content : Seq(Byte)])
    BY <1>2, SameSetting DEF Inv, TypeOK, sender
  <2>2. held' \in SUBSET Message
    BY <1>1, <1>4 DEF Inv, TypeOK
  <2> QED
    BY <1>2, <1>4, <2>1, <2>2 DEF Inv, TypeOK, setting
<1>9. StreamTypes'
  BY <1>2 DEF Inv, StreamTypes
<1>10. TypedInv' /\ UplinkInv' /\ BufferInv' /\ DownlinkInv'
  BY <1>2, SameTyped, SameUplink, SameBuffer, SameSentOut, SameDownlink DEF Inv
<1>11. QueueInv'
  <2>1. ASSUME NEW i \in 1..(l - 1)
        PROVE  messq'[i].n = (d + 1) + i /\ AsTaken(messq'[i])
    <3>1. i + 1 \in 1..l /\ d + (i + 1) = (d + 1) + i
      BY <1>4
    <3> QED
      BY <1>4, <1>5, <3>1
  <2>2. ASSUME NEW m \in held' PROVE m.n \in 1..(d + 1) /\ AsTaken(m)
    <3>1. CASE m = h
      BY <1>6, <3>1
    <3>2. CASE m # h
      BY <1>1, <1>5, <3>2
    <3> QED
      BY <3>1, <3>2
  <2>3. Len(messq') <= Len(taken')
    BY <1>2, <1>3, <1>4
  <2> QED
    BY <1>2, <1>4, <1>7, <2>1, <2>2, <2>3 DEF QueueInv, AsTaken
<1>12. OnceInv'
  <2>1. \A i \in 1..Len(sent) : sent[i] \in 1..(d + 1) /\ sent[i] # h.n
    BY <1>5, <1>6
  <2>2. \A m \in held' : \A i \in 1..Len(sent) : sent[i] # m.n
    BY <1>1, <2>1 DEF Inv, OnceInv
  <2> QED
    BY <1>2, <1>7, <2>1, <2>2 DEF Inv, OnceInv
<1> QED
  BY <1>8, <1>9, <1>10, <1>11, <1>12 DEF Inv

\* send() adds the whole message to the stream to the client, or cut is set.
LEMMA DispatchInv ==
    ASSUME Inv, Dispatch
    PROVE  Inv'
<1> DEFINE B(h) == Least(SockBuf - Len(down), h.len)
<1>1. PICK h \in held :
         /\ down' = down \o SubSeq(Packet(h.len, h.content), 1, B(h))
         /\ cut' = (cut \/ B(h) < h.len)
         /\ sent' = Append(sent, h.n)
         /\ held' = held \ {h}
         /\ UNCHANGED <<sender, up, server, messq, receiver>>
  BY DEF Dispatch
<1>2. /\ UNCHANGED setting /\ UNCHANGED sender
      /\ UNCHANGED <<up, srv, sbuf, taken, messq>>
      /\ UNCHANGED <<cli, cbuf, shown>>
  BY <1>1 DEF sender, server, receiver
<1>3. PICK k \in Nat, d \in Nat, l \in Nat, s \in Nat :
         /\ k = Len(taken) /\ d = Popped /\ l = Len(sent) /\ s = Len(shown)
         /\ d <= k
  <2>1. /\ Len(taken) \in Nat /\ Len(sent) \in Nat /\ Len(shown) \in Nat
        /\ Popped \in 0..Len(taken)
    BY Facts
  <2>2. Popped \in Nat /\ Popped <= Len(taken)
    BY <2>1
  <2> QED
    BY <2>1, <2>2
<1>4. h \in Message /\ h.n \in 1..d /\ AsTaken(h)
  BY <1>3 DEF Inv, TypeOK, QueueInv
<1>5. PICK c \in Clean :
         /\ c = taken[h.n] /\ h.content = c
         /\ h.len = HeadLen + Len(c)
  <2>1. h.n \in 1..Len(taken) /\ taken \in Seq(Clean)
    BY <1>3, <1>4, Facts
  <2>2. taken[h.n] \in Clean
    BY <2>1, ElementOfSeq
  <2> QED
    BY <1>4, <2>2 DEF AsTaken
<1>6. PICK m \in Stream :
         /\ m = Sent(c) /\ Len(m) = h.len
         /\ Packet(h.len, h.content) = m
  <2>1. Sent(c) \in Stream /\ Len(Sent(c)) = HeadLen + Len(c)
    BY SentBytes
  <2> QED
    BY <1>5, <2>1 DEF Sent
<1>7. h.len \in Nat /\ h.n \in Nat
  BY <1>4 DEF Message
<1>a. PICK b : b = B(h)
  OBVIOUS
<1>8. b \in Int /\ b <= h.len
  <2>1. down \in Stream /\ SockBuf \in Nat
    BY FramingAssumption DEF Inv, StreamTypes
  <2>2. Len(down) \in Nat
    BY <2>1 DEF Stream
  <2> QED
    BY <1>7, <1>a, <2>1, <2>2 DEF Least
<1>b. /\ down' = down \o SubSeq(Packet(h.len, h.content), 1, b)
      /\ cut' = (cut \/ b < h.len)
  BY <1>1, <1>a
<1> HIDE DEF B
<1>9. PICK p \in Stream : p = SubSeq(m, 1, b) /\ (b = h.len => p = m)
  <2>1. SubSeq(m, 1, b) \in Stream /\ (b = Len(m) => SubSeq(m, 1, b) = m)
    BY <1>6, <1>8, PartSent
  <2> QED
    BY <1>6, <2>1
<1>10. down \in Stream /\ cbuf \in Stream
  BY DEF Inv, StreamTypes
<1>11. down' = Cat(down, p) /\ down' \in Stream
  <2>1. down' = down \o SubSeq(m, 1, b)
    BY <1>6, <1>b
  <2>2. down' = down \o p
    BY <1>9, <2>1, Zenon
  <2>3. down' = Cat(down, p)
    BY <2>2 DEF Cat
  <2> QED
    BY <1>10, <2>3, CatIn
<1>12. Popped' = d
  BY <1>2, <1>3 DEF Popped
<1>13. /\ sent' \in Seq(Nat) /\ Len(sent') = l + 1 /\ sent'[l + 1] = h.n
       /\ \A i \in 1..l : sent'[i] = sent[i]
  <2>1. sent \in Seq(Nat)
    BY DEF Inv, TypeOK
  <2> QED
    BY <1>1, <1>3, <1>7, <2>1
<1>14. TypeOK'
  <2>1. down' \in Seq(Cell)
    BY <1>11, StreamOfCells
  <2>2. typed' \in Seq([text : Typeable', content : Seq(Byte)])
    BY <1>2, SameSetting DEF Inv, TypeOK, sender
  <2>3. cut' \in BOOLEAN
    BY <1>b
  <2>4. held' \in SUBSET Message
    BY <1>1 DEF Inv, TypeOK
  <2> QED
    BY <1>2, <1>13, <2>1, <2>2, <2>3, <2>4 DEF Inv, TypeOK, setting
<1>15. StreamTypes'
  BY <1>2, <1>11 DEF Inv, StreamTypes
<1>16. TypedInv' /\ UplinkInv' /\ BufferInv'
  BY <1>2, SameTyped, SameUplink, SameBuffer DEF Inv
<1>17. QueueInv'
  <2>1. \A x \in held' : x \in held
    BY <1>1
  <2> QED
    BY <1>2, <1>3, <1>12, <2>1 DEF Inv, QueueInv, AsTaken
<1>18. OnceInv'
  <2>1. /\ \A i \in 1..l : sent[i] \in 1..d
        /\ \A i, j \in 1..l : sent[i] = sent[j] => i = j
        /\ \A x \in held : \A i \in 1..l : sent[i] # x.n
    BY <1>3 DEF Inv, OnceInv
  <2>2. \A i \in 1..(l + 1) : i \in 1..l \/ i = l + 1
    BY <1>3
  <2>3. \A i \in 1..(l + 1) : sent'[i] \in 1..d
    BY <1>4, <1>13, <2>1, <2>2
  <2>4. \A i \in 1..l : sent'[i] # h.n
    BY <1>13, <2>1
  <2>5. \A i, j \in 1..(l + 1) : sent'[i] = sent'[j] => i = j
    BY <1>13, <2>1, <2>2, <2>4
  <2>6. ASSUME NEW x \in held' PROVE x.n # h.n
    <3>1. x \in held /\ x # h
      BY <1>1
    <3>2. x \in Message /\ AsTaken(x)
      BY <3>1 DEF Inv, TypeOK, QueueInv
    <3>3. x.n = h.n => x.content = h.content /\ x.len = h.len
      BY <1>4, <3>2 DEF AsTaken
    <3> QED
      BY <1>4, <3>1, <3>2, <3>3 DEF Message
  <2>7. ASSUME NEW x \in held', NEW i \in 1..(l + 1) PROVE sent'[i] # x.n
    <3>1. x \in held
      BY <1>1
    <3> QED
      BY <1>13, <2>1, <2>2, <2>6, <3>1
  <2> QED
    BY <1>12, <1>13, <2>3, <2>5, <2>7 DEF OnceInv
<1>19. DownlinkInv'
  <2> SUFFICES ASSUME ~cut' PROVE DownlinkInv'
    BY DEF DownlinkInv
  <2>1. ~cut /\ p = m
    <3>1. ~cut /\ ~(b < h.len)
      BY <1>b
    <3> QED
      BY <1>7, <1>8, <1>9, <3>1
  <2>2. PICK t \in Seq(Clean) :
           /\ t = SentOut /\ Len(t) = l
           /\ \A i \in 1..l : t[i] = taken[sent[i]]
    BY <1>3, Facts
  <2>3. /\ cli # "lost" /\ s <= l
        /\ Whole(t) = Cat(Whole(SubSeq(t, 1, s)), Cat(cbuf, down))
        /\ \A i \in 1..s : shown[i] \in PrintedOf(t[i])
    BY <1>3, <2>1, <2>2 DEF Inv, DownlinkInv
  <2>4. s \in 0..Len(t)
    BY <1>3, <2>2, <2>3
  <2>5. Append(t, c) \in Seq(Clean)
    BY AppendProperties
  <2>6. PICK e \in Seq(Clean) : e = Append(t, c)
    BY <2>5
  <2>7. Len(e) = l + 1 /\ e[l + 1] = c /\ \A i \in 1..l : e[i] = t[i]
    BY <1>3, <2>2, <2>6
  <2>8. SentOut' = e
    <3>1. SentOut' = [i \in 1..(l + 1) |-> taken[sent'[i]]]
      BY <1>2, <1>13 DEF SentOut
    <3>2. ASSUME NEW i \in 1..(l + 1) PROVE taken[sent'[i]] = e[i]
      <4>1. CASE i = l + 1
        BY <1>5, <1>13, <2>7, <4>1
      <4>2. CASE i # l + 1
        <5>1. i \in 1..l
          BY <1>3, <4>2
        <5> QED
          BY <1>13, <2>2, <2>7, <5>1
      <4> QED
        BY <4>1, <4>2
    <3>3. e = [i \in 1..(l + 1) |-> e[i]]
      BY <2>7
    <3> QED
      BY <3>1, <3>2, <3>3
  <2>9. SubSeq(e, 1, s) = SubSeq(t, 1, s)
    BY <2>4, <2>6, PrefixOfAppend
  <2>10. PICK w \in Stream, v \in Stream, x \in Stream :
            w = Whole(t) /\ v = Whole(SubSeq(t, 1, s)) /\ x = Cat(cbuf, down)
    <3>1. SubSeq(t, 1, s) \in Seq(Clean)
      BY <2>4, FirstPiece
    <3>2. Whole(t) \in Stream /\ Whole(SubSeq(t, 1, s)) \in Stream
      BY <3>1, WholeIn
    <3>3. Cat(cbuf, down) \in Stream
      BY <1>10, CatIn
    <3> QED
      BY <3>2, <3>3
  <2>11. Whole(e) = Cat(w, m)
    BY <1>6, <2>6, <2>10, WholeAppend
  <2>12. Cat(w, m) = Cat(v, Cat(x, m)) /\ Cat(x, m) = Cat(cbuf, Cat(down, m))
    BY <1>10, <2>3, <2>10, CatAssociates
  <2>13. Whole(e) = Cat(Whole(SubSeq(e, 1, s)), Cat(cbuf, Cat(down, m)))
    BY <2>9, <2>10, <2>11, <2>12
  <2>14. /\ Whole(SentOut') =
              Cat(Whole(SubSeq(SentOut', 1, Len(shown'))), Cat(cbuf', down'))
         /\ Len(shown') <= Len(sent') /\ cli' # "lost"
    BY <1>2, <1>3, <1>11, <1>13, <2>1, <2>3, <2>8, <2>13
  <2>15. ASSUME NEW i \in 1..s PROVE shown[i] \in PrintedOf(e[i])
    BY <1>3, <2>3, <2>7
  <2>16. (\A i \in 1..Len(shown) : shown[i] \in PrintedOf(SentOut[i]))'
    BY <1>2, <1>3, <2>8, <2>15, SameSetting DEF PrintedOf
  <2> QED
    BY <2>14, <2>16 DEF DownlinkInv
<1> QED
  BY <1>14, <1>15, <1>16, <1>17, <1>18, <1>19 DEF Inv
-----------------------------------------------------------------------------
(* The receiving client. *)

\* recv() moves bytes from the stream to the end of data_buff.
LEMMA ClientRecvInv ==
    ASSUME Inv, ClientRecv
    PROVE  Inv'
<1>1. PICK n \in 1..Least(RecvMax, Len(down)) :
         cbuf' = cbuf \o SubSeq(down, 1, n) /\ down' = From(down, n)
  BY DEF ClientRecv
<1>2. /\ UNCHANGED setting /\ UNCHANGED sender
      /\ UNCHANGED <<up, srv, sbuf, taken>>
      /\ UNCHANGED <<messq, held, sent, cut, shown>>
      /\ cli = "recv" /\ cli' = "frame"
  BY DEF ClientRecv, sender, server, queue
<1>3. down \in Stream /\ cbuf \in Stream
  BY DEF Inv, StreamTypes
<1>4. n \in Nat /\ n <= Len(down)
  <2>1. Len(down) \in Nat /\ RecvMax \in Nat
    BY <1>3, FramingAssumption DEF Stream
  <2> QED
    BY <2>1 DEF Least
<1>5. PICK p \in Stream, q \in Stream :
         /\ p = SubSeq(down, 1, n) /\ q = From(down, n) /\ down = Cat(p, q)
  <2>1. SubSeq(down, 1, n) \in Stream /\ From(down, n) \in Stream
    BY <1>3, <1>4, TwoParts
  <2>2. PICK p \in Stream, q \in Stream :
          p = SubSeq(down, 1, n) /\ q = From(down, n)
    BY <2>1
  <2> QED
    BY <1>3, <1>4, <2>2, TwoParts
<1>6. cbuf' = Cat(cbuf, p) /\ down' = q /\ cbuf' \in Stream
  <2>1. cbuf' = Cat(cbuf, p) /\ down' = q
    BY <1>1, <1>5 DEF Cat
  <2> QED
    BY <1>3, <2>1, CatIn
<1>7. Cat(cbuf', down') = Cat(cbuf, down)
  <2>1. down = Cat(p, q)
    BY <1>5
  <2>2. Cat(Cat(cbuf, p), q) = Cat(cbuf, Cat(p, q))
    BY <1>3, CatAssociates
  <2> QED
    BY <1>6, <2>1, <2>2
<1>8. TypeOK'
  <2>1. down' \in Seq(Cell) /\ cbuf' \in Seq(Cell)
    BY <1>6, StreamOfCells
  <2>2. typed' \in Seq([text : Typeable', content : Seq(Byte)])
    BY <1>2, SameSetting DEF Inv, TypeOK, sender
  <2> QED
    BY <1>2, <2>1, <2>2 DEF Inv, TypeOK, setting
<1>9. StreamTypes'
  BY <1>2, <1>6 DEF Inv, StreamTypes
<1>10. TypedInv' /\ UplinkInv' /\ QueueInv' /\ OnceInv' /\ BufferInv'
  BY <1>2, SameTyped, SameUplink, SameQueue, SameBuffer DEF Inv
<1>11. DownlinkInv'
  <2>1. SentOut' = SentOut
    BY <1>2, SameSentOut
  <2>2. (\A i \in 1..Len(shown) : shown[i] \in PrintedOf(SentOut[i])) =>
           (\A i \in 1..Len(shown) : shown[i] \in PrintedOf(SentOut[i]))'
    BY <1>2, <2>1, SameSetting DEF PrintedOf
  <2> QED
    BY <1>2, <1>7, <2>1, <2>2 DEF Inv, DownlinkInv
<1> QED
  BY <1>8, <1>9, <1>10, <1>11 DEF Inv

\* What the buffer begins with, while nothing was cut.
LEMMA DownlinkHeader ==
    ASSUME Inv, ~cut, cbuf # <<>>
    PROVE  \E c \in Clean, r \in Stream :
              /\ Len(shown) < Len(sent)
              /\ c = SentOut[Len(shown) + 1]
              /\ Whole(SentOut) =
                    Cat(Whole(SubSeq(SentOut, 1, Len(shown) + 1)), r)
              /\ Len(c) \in Nat
              /\ ProtocolLength(cbuf) = HeadLen + Len(c)
              /\ \A i \in 1..Len(cbuf) :
                    i <= HeadLen + Len(c) => cbuf[i] = Sent(c)[i]
              /\ Len(cbuf) >= HeadLen + Len(c) =>
                    /\ Content(cbuf) = c
                    /\ From(cbuf, HeadLen + Len(c)) \in Stream
                    /\ Cat(From(cbuf, HeadLen + Len(c)), down) = r
<1>1. cbuf \in Stream /\ down \in Stream
  BY DEF Inv, StreamTypes
<1>2. Cat(cbuf, down) # <<>>
  BY <1>1, CatEmpty
<1>3. PICK c \in Clean, r \in Stream :
         /\ Len(shown) < Len(sent)
         /\ c = SentOut[Len(shown) + 1]
         /\ Cat(cbuf, down) = Cat(Sent(c), r)
         /\ Whole(SentOut) =
               Cat(Whole(SubSeq(SentOut, 1, Len(shown) + 1)), r)
  BY <1>2, DownlinkNext
<1>4. Len(cbuf) # 0 /\ Len(c) \in Nat
  BY <1>1 DEF Stream, Clean
<1>5. PICK n : n = HeadLen + Len(c)
  OBVIOUS
<1>6. /\ ProtocolLength(cbuf) = n
      /\ \A i \in 1..Len(cbuf) : i <= n => cbuf[i] = Sent(c)[i]
      /\ Len(cbuf) >= n =>
            /\ Content(cbuf) = c
            /\ From(cbuf, n) \in Stream
            /\ Cat(From(cbuf, n), down) = r
  BY <1>1, <1>3, <1>4, <1>5, MessageFirst
<1> QED
  BY <1>3, <1>4, <1>5, <1>6

\* Only bytes of content are decrypted, or the client is lost.
LEMMA ContentOfBuffer ==
    ASSUME NEW buf \in Stream, Len(buf) >= ProtocolLength(buf), buf # <<>>,
           \A i \in HeadLen+1..ProtocolLength(buf) : buf[i].tag = "data"
    PROVE  /\ Content(buf) \in Clean
           /\ From(buf, ProtocolLength(buf)) \in Stream
<1>1. HeadLen \in Nat /\ Len(buf) \in Nat /\ 1 \in 1..Len(buf)
  BY FramingAssumption, EmptySeq DEF Stream
<1>2. PICK n \in Nat : n = ProtocolLength(buf) /\ n <= Len(buf)
  <2>1. buf[1] \in GoodCell
    BY <1>1, ElementOfSeq DEF Stream
  <2>2. buf[1].val \in Nat
    BY <2>1 DEF GoodCell, Cell
  <2> QED
    BY <2>2 DEF ProtocolLength
<1>3. From(buf, n) \in Stream
  BY <1>2, TwoParts
<1>4. ASSUME NEW i \in HeadLen+1..n
      PROVE  buf[i] \in GoodCell /\ buf[i].val \in Byte \ {0}
  <2>1. i \in 1..Len(buf)
    BY <1>1, <1>2
  <2>2. buf[i] \in GoodCell
    BY <2>1, ElementOfSeq DEF Stream
  <2>3. buf[i].tag = "data"
    BY <1>2
  <2> QED
    BY <2>2, <2>3 DEF GoodCell
<1>5. HeadLen + 1 \in Int /\ n \in Int
  BY <1>1
<1>6. /\ SubSeq(buf, HeadLen + 1, n) \in Seq(GoodCell)
      /\ \A i \in 1..(n - (HeadLen + 1) + 1) :
            SubSeq(buf, HeadLen + 1, n)[i] = buf[(HeadLen + 1) + i - 1]
      /\ Len(SubSeq(buf, HeadLen + 1, n)) =
            IF HeadLen + 1 <= n THEN n - (HeadLen + 1) + 1 ELSE 0
  BY <1>4, <1>5, SubSeqProperties
<1>7. PICK cells \in Seq(GoodCell) : cells = SubSeq(buf, HeadLen + 1, n)
  BY <1>6
<1>8. PICK l \in Nat : l = Len(cells)
  OBVIOUS
<1>9. ASSUME NEW i \in 1..l PROVE cells[i].val \in Byte \ {0}
  <2>1. /\ i \in 1..(n - (HeadLen + 1) + 1)
        /\ (HeadLen + 1) + i - 1 \in HeadLen+1..n
    BY <1>1, <1>6, <1>7, <1>8
  <2>2. cells[i] = buf[(HeadLen + 1) + i - 1]
    BY <1>6, <1>7, <2>1
  <2> QED
    BY <1>4, <2>1, <2>2
<1>10. Content(buf) = [i \in 1..l |-> cells[i].val]
  BY <1>2, <1>7, <1>8 DEF Content
<1>11. [i \in 1..l |-> cells[i].val] \in [1..l -> Byte \ {0}]
  BY <1>9
<1>12. Content(buf) \in Clean
  BY <1>10, <1>11, FunctionAsSeq DEF Clean
<1> QED
  BY <1>2, <1>3, <1>12

\* The message at the beginning of data_buff is the next one that was sent, and
\* its old_protocol_length removes it as a whole, as long as none was cut.
LEMMA ClientFrameInv ==
    ASSUME Inv, ClientFrame
    PROVE  Inv'
<1>1. PICK text \in Printed : shown' = Append(shown, text)
  BY DEF ClientFrame
<1>2. /\ UNCHANGED setting /\ UNCHANGED sender
      /\ UNCHANGED <<up, srv, sbuf, taken>>
      /\ UNCHANGED <<messq, held, sent, down, cut, cli>>
      /\ cli = "frame" /\ ClientHas /\ ~Torn
      /\ cbuf' = From(cbuf, ProtocolLength(cbuf))
  BY DEF ClientFrame, sender, server, queue
<1>3. HeadLen \in Nat \ {0}
  BY FramingAssumption
<1>4. down \in Stream /\ cbuf \in Stream /\ Len(cbuf) \in Nat /\ cbuf # <<>>
  BY <1>2, <1>3 DEF Inv, StreamTypes, Stream, ClientHas
<1>5. Len(cbuf) >= ProtocolLength(cbuf) /\ ProtocolLength(cbuf) \in Nat
  <2>1. 1 \in 1..Len(cbuf)
    BY <1>4, EmptySeq DEF Stream
  <2>2. cbuf[1] \in GoodCell
    BY <1>4, <2>1, ElementOfSeq DEF Stream
  <2> QED
    BY <1>2, <2>2 DEF GoodCell, Cell, ClientHas, ProtocolLength
<1>6. PICK c \in Clean :
         c = Content(cbuf) /\ From(cbuf, ProtocolLength(cbuf)) \in Stream
  <2>1. Least(ProtocolLength(cbuf), Len(cbuf)) = ProtocolLength(cbuf)
    BY <1>4, <1>5 DEF Least
  <2>2. \A i \in HeadLen+1..ProtocolLength(cbuf) : cbuf[i].tag = "data"
    BY <1>2, <2>1 DEF Torn
  <2> QED
    BY <1>4, <1>5, <2>2, ContentOfBuffer
<1>7. text \in PrintedOf(c)
  <2>1. CStr(Content(cbuf)) = c
    BY <1>6, CleanBytes, CStrClean
  <2> QED
    BY <2>1 DEF Printed, DecStr, DecStrWindows, PrintedOf
<1>8. text \in Seq(Nat)
  BY <1>7, PrintedType DEF Inv, TypeOK
<1>9. cbuf' \in Stream
  BY <1>2, <1>6
<1>10. PICK s \in Nat : s = Len(shown)
  BY Facts
<1>11. /\ shown' \in Seq(Seq(Nat)) /\ Len(shown') = s + 1
       /\ shown'[s + 1] = text /\ \A i \in 1..s : shown'[i] = shown[i]
  BY <1>1, <1>8, <1>10 DEF Inv, TypeOK
<1>12. TypeOK'
  <2>1. cbuf' \in Seq(Cell)
    BY <1>9, StreamOfCells
  <2>2. typed' \in Seq([text : Typeable', content : Seq(Byte)])
    BY <1>2, SameSetting DEF Inv, TypeOK, sender
  <2> QED
    BY <1>2, <1>11, <2>1, <2>2 DEF Inv, TypeOK, setting
<1>13. StreamTypes'
  BY <1>2, <1>9 DEF Inv, StreamTypes
<1>14. TypedInv' /\ UplinkInv' /\ QueueInv' /\ OnceInv' /\ BufferInv'
  BY <1>2, SameTyped, SameUplink, SameQueue, SameBuffer DEF Inv
<1>15. DownlinkInv'
  <2> SUFFICES ASSUME ~cut' PROVE DownlinkInv'
    BY DEF DownlinkInv
  <2>1. ~cut
    BY <1>2
  <2>2. PICK e \in Clean, r \in Stream :
           /\ s < Len(sent)
           /\ e = SentOut[s + 1]
           /\ Whole(SentOut) = Cat(Whole(SubSeq(SentOut, 1, s + 1)), r)
           /\ Len(e) \in Nat
           /\ ProtocolLength(cbuf) = HeadLen + Len(e)
           /\ Len(cbuf) >= HeadLen + Len(e) =>
                 /\ Content(cbuf) = e
                 /\ From(cbuf, HeadLen + Len(e)) \in Stream
                 /\ Cat(From(cbuf, HeadLen + Len(e)), down) = r
    BY <1>4, <1>10, <2>1, DownlinkHeader
  <2>3. c = e /\ Cat(cbuf', down') = r
    BY <1>2, <1>5, <1>6, <2>2
  <2>4. SentOut' = SentOut /\ Len(sent) \in Nat
    BY <1>2, SameSentOut, Facts
  <2>5. /\ Whole(SentOut') =
             Cat(Whole(SubSeq(SentOut', 1, Len(shown'))), Cat(cbuf', down'))
        /\ Len(shown') <= Len(sent') /\ cli' # "lost"
    BY <1>2, <1>11, <2>2, <2>3, <2>4
  <2>6. \A i \in 1..s : shown[i] \in PrintedOf(SentOut[i])
    BY <1>10, <2>1 DEF Inv, DownlinkInv
  <2>7. ASSUME NEW i \in 1..(s + 1) PROVE shown'[i] \in PrintedOf(SentOut[i])
    <3>1. CASE i = s + 1
      BY <1>7, <1>11, <2>2, <2>3, <3>1
    <3>2. CASE i # s + 1
      <4>1. i \in 1..s
        BY <3>2
      <4> QED
        BY <1>11, <2>6, <4>1
    <3> QED
      BY <3>1, <3>2
  <2>8. (\A i \in 1..Len(shown) : shown[i] \in PrintedOf(SentOut[i]))'
    BY <1>2, <1>11, <2>4, <2>7, SameSetting DEF PrintedOf
  <2> QED
    BY <2>5, <2>8 DEF DownlinkInv
<1> QED
  BY <1>12, <1>13, <1>14, <1>15 DEF Inv

\* The client is never lost while nothing was cut.
LEMMA NotTorn ==
    ASSUME Inv, ~cut, Len(cbuf) >= HeadLen
    PROVE  ~Torn
<1>1. /\ HeadLen \in Nat \ {0} /\ cbuf \in Stream
      /\ Len(cbuf) \in Nat /\ cbuf # <<>>
  BY FramingAssumption DEF Inv, StreamTypes, Stream
<1>2. PICK c \in Clean :
         /\ Len(c) \in Nat
         /\ ProtocolLength(cbuf) = HeadLen + Len(c)
         /\ \A i \in 1..Len(cbuf) :
               i <= HeadLen + Len(c) => cbuf[i] = Sent(c)[i]
  BY <1>1, DownlinkHeader
<1>3. PICK n \in Nat : n = HeadLen + Len(c)
  BY <1>1, <1>2
<1>4. /\ \A i \in 1..HeadLen :
            Sent(c)[i] = [tag |-> "head", at |-> i, val |-> n]
      /\ \A i \in 1..Len(c) :
            Sent(c)[HeadLen + i] = [tag |-> "data", at |-> 0, val |-> c[i]]
  BY <1>3, SentBytes
<1>5. SubSeq(cbuf, 1, HeadLen) = Header(n)
  <2>1. HeadLen \in 0..Len(cbuf)
    BY <1>1
  <2>2. SubSeq(cbuf, 1, HeadLen) \in Seq(GoodCell)
    BY <1>1, <2>1, FirstPiece DEF Stream
  <2>3. PICK h \in Seq(GoodCell) : h = SubSeq(cbuf, 1, HeadLen)
    BY <2>2
  <2>4. Len(h) = HeadLen /\ \A i \in 1..HeadLen : h[i] = cbuf[i]
    BY <1>1, <2>1, <2>3, FirstPiece DEF Stream
  <2>5. ASSUME NEW i \in 1..HeadLen
        PROVE  h[i] = [tag |-> "head", at |-> i, val |-> n]
    <3>1. i \in 1..Len(cbuf) /\ i <= HeadLen + Len(c)
      BY <1>1, <1>2
    <3>2. cbuf[i] = Sent(c)[i]
      BY <1>2, <3>1
    <3> QED
      BY <1>4, <2>4, <3>2
  <2>6. h = [i \in 1..HeadLen |-> h[i]]
    BY <2>4
  <2> QED
    BY <2>3, <2>5, <2>6 DEF Header
<1>6. ASSUME NEW i \in HeadLen+1..Least(n, Len(cbuf))
      PROVE  cbuf[i].tag = "data"
  <2>1. Least(n, Len(cbuf)) <= n /\ Least(n, Len(cbuf)) <= Len(cbuf)
        /\ Least(n, Len(cbuf)) \in Nat
    BY <1>1 DEF Least
  <2>2. i \in 1..Len(cbuf) /\ i <= HeadLen + Len(c)
    BY <1>1, <1>3, <2>1
  <2>3. i - HeadLen \in 1..Len(c) /\ HeadLen + (i - HeadLen) = i
    BY <1>1, <1>2, <2>2
  <2>4. cbuf[i] = Sent(c)[i]
    BY <1>2, <2>2
  <2>5. Sent(c)[HeadLen + (i - HeadLen)] =
           [tag |-> "data", at |-> 0, val |-> c[i - HeadLen]]
    BY <1>4, <2>3
  <2>6. cbuf[i] = [tag |-> "data", at |-> 0, val |-> c[i - HeadLen]]
    BY <2>3, <2>4, <2>5
  <2> QED
    BY <2>6
<1> QED
  BY <1>2, <1>3, <1>5, <1>6 DEF Torn

\* The stream is misread only after a message was cut.
LEMMA ClientMisreadsInv ==
    ASSUME Inv, ClientMisreads
    PROVE  Inv'
<1>1. /\ UNCHANGED setting /\ UNCHANGED sender
      /\ UNCHANGED <<up, srv, sbuf, taken>> /\ UNCHANGED <<messq, held, sent, down, cut>>
      /\ UNCHANGED <<cbuf, shown>>
      /\ cli' = "lost" /\ Len(cbuf) >= HeadLen /\ Torn
  BY DEF ClientMisreads, sender, server, queue
<1>2. cut
  BY <1>1, NotTorn
<1>3. TypeOK'
  <2>1. typed' \in Seq([text : Typeable', content : Seq(Byte)])
    BY <1>1, SameSetting DEF Inv, TypeOK, sender
  <2> QED
    BY <1>1, <2>1 DEF Inv, TypeOK, setting
<1>4. StreamTypes'
  BY <1>1 DEF Inv, StreamTypes
<1>5. TypedInv' /\ UplinkInv' /\ QueueInv' /\ OnceInv' /\ BufferInv'
  BY <1>1, SameTyped, SameUplink, SameQueue, SameBuffer DEF Inv
<1>6. DownlinkInv'
  BY <1>1, <1>2 DEF DownlinkInv
<1> QED
  BY <1>3, <1>4, <1>5, <1>6 DEF Inv

\* The client leaves the loop; its buffer stays.
LEMMA ClientDoneInv ==
    ASSUME Inv, ClientDone
    PROVE  Inv'
<1>1. /\ UNCHANGED setting /\ UNCHANGED sender
      /\ UNCHANGED <<up, srv, sbuf, taken>> /\ UNCHANGED <<messq, held, sent, down, cut>>
      /\ UNCHANGED <<cbuf, shown>>
      /\ cli' = "recv"
  BY DEF ClientDone, sender, server, queue
<1>2. TypeOK'
  <2>1. typed' \in Seq([text : Typeable', content : Seq(Byte)])
    BY <1>1, SameSetting DEF Inv, TypeOK, sender
  <2> QED
    BY <1>1, <2>1 DEF Inv, TypeOK, setting
<1>3. StreamTypes'
  BY <1>1 DEF Inv, StreamTypes
<1>4. TypedInv' /\ UplinkInv' /\ QueueInv' /\ OnceInv' /\ BufferInv'
  BY <1>1, SameTyped, SameUplink, SameQueue, SameBuffer DEF Inv
<1>5. DownlinkInv'
  <2>1. SentOut' = SentOut
    BY <1>1, SameSentOut
  <2>2. (\A i \in 1..Len(shown) : shown[i] \in PrintedOf(SentOut[i])) =>
           (\A i \in 1..Len(shown) : shown[i] \in PrintedOf(SentOut[i]))'
    BY <1>1, <2>1, SameSetting DEF PrintedOf
  <2> QED
    BY <1>1, <2>1, <2>2 DEF Inv, DownlinkInv
<1> QED
  BY <1>2, <1>3, <1>4, <1>5 DEF Inv

\* A step that changes nothing.
LEMMA StutterInv ==
    ASSUME Inv, UNCHANGED vars
    PROVE  Inv'
<1>1. /\ UNCHANGED setting /\ UNCHANGED sender
      /\ UNCHANGED <<up, srv, sbuf, taken>> /\ UNCHANGED <<messq, held, sent, down, cut>>
      /\ UNCHANGED <<cli, cbuf, shown>>
  BY DEF vars, sender, server, queue, receiver
<1>2. TypeOK'
  <2>1. typed' \in Seq([text : Typeable', content : Seq(Byte)])
    BY <1>1, SameSetting DEF Inv, TypeOK, sender
  <2> QED
    BY <1>1, <2>1 DEF Inv, TypeOK, setting
<1>3. StreamTypes'
  BY <1>1 DEF Inv, StreamTypes
<1>4. /\ TypedInv' /\ UplinkInv' /\ QueueInv' /\ OnceInv'
      /\ BufferInv' /\ DownlinkInv'
  BY <1>1, SameTyped, SameUplink, SameQueue, SameBuffer, SameSentOut,
     SameDownlink DEF Inv
<1> QED
  BY <1>2, <1>3, <1>4 DEF Inv

\* Inv holds in every reachable state: no byte is lost on the way up, mess_que
\* and the dispatchers have what was taken, and as long as send() takes whole messages
\* (handle_mess_que) no byte is lost on the way down.
THEOREM Invariance == Spec => []Inv
<1>1. ASSUME Inv, [Next]_vars
      PROVE  Inv'
  BY <1>1, SendInv, ServerRecvInv, ServerFrameInv, ServerDoneInv, PopInv,
     DispatchInv, ClientRecvInv, ClientFrameInv, ClientMisreadsInv,
     ClientDoneInv, StutterInv DEF Next
<1> QED
  BY <1>1, InitInv, PTL DEF Spec
-----------------------------------------------------------------------------
(* What the receiver reads. *)

\* What a byte of a result is made of.
LEMMA BlockBytes ==
    ASSUME NEW s \in Seq(Byte), NEW n \in Nat, Len(s) = n * BlockLen,
           NEW f \in [Block -> Block]
    PROVE  /\ ByBlock(f, s) \in Seq(Byte) /\ Len(ByBlock(f, s)) = Len(s)
           /\ \A i \in 1..Len(s) :
                 ByBlock(f, s)[i] = f[BlockAt(s, i)][((i - 1) % BlockLen) + 1]
<1>1. /\ ByBlock(f, s) \in Seq(Byte)
      /\ Len(ByBlock(f, s)) = n * BlockLen
      /\ \A i \in 1..(n * BlockLen) : \E j \in 1..BlockLen :
            /\ BlockAt(s, i) \in Block
            /\ BlockAt(s, i)[j] = s[i]
            /\ ByBlock(f, s)[i] = f[BlockAt(s, i)][j]
            /\ ((i - 1) % BlockLen) + 1 = j
            /\ BlockAt(ByBlock(f, s), i) = f[BlockAt(s, i)]
  BY Blockwise, Zenon
<1>2. ASSUME NEW i \in 1..Len(s)
      PROVE  ByBlock(f, s)[i] = f[BlockAt(s, i)][((i - 1) % BlockLen) + 1]
  <2>1. i \in 1..(n * BlockLen)
    BY Zenon
  <2> QED
    BY <1>1, <2>1, Zenon
<1>3. Len(ByBlock(f, s)) = Len(s)
  BY <1>1, Zenon
<1> QED
  BY <1>1, <1>2, <1>3, Zenon

\* Bytes behind a ciphertext do not change what its blocks decrypt to.
LEMMA DecryptFront ==
    ASSUME NEW wire \in Seq(Byte), NEW k \in Key, NEW j \in Seq(Byte)
    PROVE  LET d == des_decrypt(des_encrypt(wire, k) \o j, k)
           IN  /\ d \in Seq(Byte)
               /\ Len(Padded(wire)) <= Len(d)
               /\ \A i \in 1..Len(Padded(wire)) : d[i] = Padded(wire)[i]
<1> DEFINE inv == Inverse(k, Block, Block)
<1>1. inv \in [Block -> Block] /\ k \in [Block -> Block]
  BY KeyInverse
<1>2. PICK n \in Nat :
         Padded(wire) \in Seq(Byte) /\ Len(Padded(wire)) = n * BlockLen
  BY PaddedText
<1>3. PICK e \in Seq(Byte) : e = des_encrypt(wire, k) /\ Len(e) = n * BlockLen
  <2>1. /\ des_encrypt(wire, k) \in Seq(Byte)
        /\ Len(des_encrypt(wire, k)) = n * BlockLen
    BY <1>1, <1>2, WholeBlocks DEF des_encrypt
  <2> QED
    BY <2>1
<1>4. n * BlockLen \in Nat /\ BlockLen \in Nat \ {0}
  BY Multiple, CipherAssumption
<1>a. PICK N \in Nat : N = n * BlockLen
  BY <1>4
<1>b. /\ e \o j \in Seq(Byte) /\ N <= Len(e \o j)
      /\ \A i \in 1..N : (e \o j)[i] = e[i]
  BY <1>3, <1>a
<1>c. PICK t \in Seq(Byte) : t = e \o j
  BY <1>b
<1>5. N <= Len(t) /\ Len(t) \in Nat /\ \A i \in 1..N : t[i] = e[i]
  <2>1. Len(t) \in Nat
    OBVIOUS
  <2> QED
    BY <1>b, <1>c, <2>1
<1>6. PICK m \in Nat :
         /\ Padded(t) \in Seq(Byte) /\ Len(Padded(t)) = m * BlockLen
         /\ Len(t) <= m * BlockLen
         /\ \A i \in 1..(m * BlockLen) :
               Padded(t)[i] = IF i <= Len(t) THEN t[i] ELSE 0
  BY PaddedText
<1>7. PICK p \in Seq(Byte) : p = Padded(t) /\ Len(p) = m * BlockLen
  BY <1>6
<1>d. PICK M \in Nat : M = m * BlockLen /\ N <= M
  <2>1. PICK M \in Nat : M = m * BlockLen
    BY <1>4, Multiple
  <2>2. Len(t) <= M
    BY <1>6, <2>1
  <2> QED
    BY <1>5, <2>1, <2>2
<1>9. ASSUME NEW i \in 1..N PROVE p[i] = e[i] /\ i \in 1..M
  <2>1. i \in 1..M /\ i <= Len(t)
    <3>1. N <= M /\ N <= Len(t) /\ Len(t) \in Nat
      BY <1>5, <1>d, Zenon
    <3> QED
      BY <3>1
  <2>2. Padded(t)[i] = t[i]
    BY <1>6, <1>d, <2>1
  <2> QED
    BY <1>5, <1>7, <2>1, <2>2
<1>10. ASSUME NEW i \in 1..N PROVE BlockAt(p, i) = BlockAt(e, i)
  <2>1. PICK q \in 0..(n - 1), b \in 1..BlockLen :
           i = q * BlockLen + b /\ (i - 1) \div BlockLen = q
    BY <1>a, Place
  <2>2. PICK base : base = q * BlockLen
    OBVIOUS
  <2>3. /\ BlockAt(p, i) = [x \in 1..BlockLen |-> p[base + x]]
        /\ BlockAt(e, i) = [x \in 1..BlockLen |-> e[base + x]]
    BY <2>1, <2>2, Zenon DEF BlockAt
  <2>4. ASSUME NEW x \in 1..BlockLen PROVE p[base + x] = e[base + x]
    <3>1. base + x \in 1..N
      BY <1>a, <2>2, Spot
    <3> QED
      BY <1>9, <3>1
  <2> QED
    BY <2>3, <2>4
<1>11. Padded(e) = e /\ Padded(p) = p
  BY <1>3, <1>7, PaddedBlocks
<1>12. des_decrypt(e, k) = Padded(wire)
  BY <1>3, RoundTrip
<1>13. PICK f \in [Block -> Block] : f = inv
  BY <1>1
<1>14. /\ des_decrypt(t, k) = ByBlock(f, p)
       /\ des_decrypt(e, k) = ByBlock(f, e)
  BY <1>7, <1>11, <1>13 DEF des_decrypt, ByBlock
<1>15. /\ ByBlock(f, p) \in Seq(Byte) /\ Len(ByBlock(f, p)) = M
       /\ \A i \in 1..M :
             ByBlock(f, p)[i] = f[BlockAt(p, i)][((i - 1) % BlockLen) + 1]
  <2>1. Len(p) = m * BlockLen /\ Len(p) = M
    BY <1>7, <1>d, Zenon
  <2>2. /\ ByBlock(f, p) \in Seq(Byte) /\ Len(ByBlock(f, p)) = Len(p)
        /\ \A i \in 1..Len(p) :
              ByBlock(f, p)[i] = f[BlockAt(p, i)][((i - 1) % BlockLen) + 1]
    BY <2>1, BlockBytes, Zenon
  <2> QED
    BY <2>1, <2>2, Zenon
<1>16. \A i \in 1..N :
          ByBlock(f, e)[i] = f[BlockAt(e, i)][((i - 1) % BlockLen) + 1]
  <2>1. Len(e) = n * BlockLen /\ Len(e) = N
    BY <1>3, <1>a, Zenon
  <2>2. \A i \in 1..Len(e) :
           ByBlock(f, e)[i] = f[BlockAt(e, i)][((i - 1) % BlockLen) + 1]
    BY <2>1, BlockBytes, Zenon
  <2> QED
    BY <2>1, <2>2, Zenon
<1>17. ASSUME NEW i \in 1..N
       PROVE  ByBlock(f, p)[i] = Padded(wire)[i]
  <2>1. ByBlock(f, p)[i] = f[BlockAt(p, i)][((i - 1) % BlockLen) + 1]
    BY <1>9, <1>15
  <2>2. ByBlock(f, p)[i] = ByBlock(f, e)[i]
    BY <1>10, <1>16, <2>1
  <2> QED
    BY <1>12, <1>14, <2>2
<1>18. PICK d \in Seq(Byte) : d = des_decrypt(des_encrypt(wire, k) \o j, k)
                                  /\ d = ByBlock(f, p)
  <2>1. des_decrypt(t, k) = des_decrypt(des_encrypt(wire, k) \o j, k)
    BY <1>3, <1>c
  <2> QED
    BY <1>14, <1>15, <2>1
<1> QED
  BY <1>2, <1>a, <1>d, <1>15, <1>17, <1>18

\* What is behind a ciphertext without a zero byte when it is sent.
LEMMA ContentOf ==
    ASSUME NEW text \in Typeable, key \in DesKey, NEW c \in Contents(text),
           ~HasZero(des_encrypt(Wire(text), key))
    PROVE  \E j \in Seq(Byte) :
              /\ c = des_encrypt(Wire(text), key) \o j
              /\ from = "linux" => j = <<>>
<1>1. PICK e \in Seq(Byte) : e = des_encrypt(Wire(text), key)
  BY ContentsOfWire
<1>2. CStr(e) = e
  BY <1>1 DEF HasZero
<1>3. CASE from = "linux"
  <2>1. c = e
    BY <1>1, <1>2, <1>3, ContentsOfWire
  <2>2. e = e \o <<>> /\ <<>> \in Seq(Byte)
    BY ConcatEmptySeq, EmptySeq
  <2> QED
    BY <1>1, <2>1, <2>2
<1>4. CASE from # "linux"
  <2>1. c \in Unterminated(e)
    BY <1>1, <1>4, ContentsOfWire
  <2>2. PICK j \in Junk : c = e \o j
    BY <1>2, <2>1 DEF Unterminated
  <2>3. j \in Seq(Byte)
    BY FramingAssumption, CleanBytes DEF Clean
  <2> QED
    BY <1>1, <1>4, <2>2, <2>3
<1> QED
  BY <1>3, <1>4

\* A decrypted string begins with the text; where the text ends in the
\* middle of a block it ends there too.
LEMMA StringOf ==
    ASSUME NEW w \in Clean, NEW d \in Seq(Byte),
           Len(Padded(w)) <= Len(d),
           \A i \in 1..Len(Padded(w)) : d[i] = Padded(w)[i],
           NEW s \in Clean,
           s = CStr(d) \/ (d \in Clean /\ \E j \in Junk : s = d \o j)
    PROVE  /\ Len(w) <= Len(s) /\ \A i \in 1..Len(w) : s[i] = w[i]
           /\ Len(w) % BlockLen # 0 => s = w
<1>1. PICK l \in Nat, b \in Nat : l = Len(w) /\ b = Len(d)
  BY DEF Clean
<1>2. w \in Seq(Byte) /\ \A i \in 1..l : w[i] # 0
  BY <1>1, CleanBytes
<1>3. PICK n \in Nat :
         /\ Padded(w) \in Seq(Byte) /\ Len(Padded(w)) = n * BlockLen
         /\ Len(w) <= n * BlockLen
         /\ \A i \in 1..(n * BlockLen) :
               Padded(w)[i] = IF i <= Len(w) THEN w[i] ELSE 0
  BY <1>2, PaddedText
<1>4. PICK a \in Nat : a = n * BlockLen
  BY Multiple, CipherAssumption
<1>5. /\ l <= a /\ a <= b
      /\ \A i \in 1..a : d[i] = IF i <= l THEN w[i] ELSE 0
  BY <1>1, <1>3, <1>4
<1>6. PICK k \in 0..b :
         /\ CStr(d) = SubSeq(d, 1, k)
         /\ \A i \in 1..k : d[i] # 0
         /\ k = b \/ d[k + 1] = 0
  BY <1>1, CStrCut
<1>7. k >= l
  <2>1. SUFFICES ASSUME k < l PROVE FALSE
    OBVIOUS
  <2>2. k + 1 \in 1..l /\ k + 1 \in 1..a /\ k # b
    BY <1>5, <2>1
  <2>3. d[k + 1] = w[k + 1]
    BY <1>5, <2>2
  <2> QED
    BY <1>2, <1>6, <2>2, <2>3
<1>8. ASSUME l % BlockLen # 0 PROVE l < a /\ k <= l
  <2>1. l # a
    <3>1. SUFFICES ASSUME l = a PROVE FALSE
      OBVIOUS
    <3>2. BlockLen \in Nat \ {0} /\ 0 \in 0..(BlockLen - 1)
      BY CipherAssumption
    <3>3. (n * BlockLen + 0) % BlockLen = 0
      BY <3>2, DivUnique
    <3>4. n * BlockLen + 0 = n * BlockLen
      BY <1>4
    <3> QED
      BY <1>4, <1>8, <3>1, <3>3, <3>4
  <2>2. l + 1 \in 1..a /\ ~(l + 1 <= l)
    BY <1>5, <2>1
  <2>3. d[l + 1] = 0
    BY <1>5, <2>2
  <2>4. ~(l + 1 \in 1..k)
    BY <1>6, <2>3
  <2> QED
    BY <2>2, <2>4
<1>9. CASE s = CStr(d)
  <2>1. /\ SubSeq(d, 1, k) \in Seq(Byte) /\ Len(SubSeq(d, 1, k)) = k
        /\ \A i \in 1..k : SubSeq(d, 1, k)[i] = d[i]
    BY <1>1, FirstPiece
  <2>2. s \in Seq(Byte) /\ Len(s) = k /\ \A i \in 1..k : s[i] = d[i]
    BY <1>6, <1>9, <2>1
  <2>3. ASSUME NEW i \in 1..l PROVE s[i] = w[i]
    <3>1. i \in 1..k /\ i \in 1..a /\ i <= l
      BY <1>5, <1>7
    <3> QED
      BY <1>5, <2>2, <3>1
  <2>4. ASSUME l % BlockLen # 0 PROVE s = w
    <3>1. k = l
      BY <1>7, <1>8, <2>4
    <3>2. Len(s) = Len(w) /\ \A i \in 1..Len(s) : s[i] = w[i]
      BY <1>1, <2>2, <2>3, <3>1
    <3> QED
      BY <1>2, <2>2, <3>2, SeqEqual
  <2> QED
    BY <1>1, <1>7, <2>2, <2>3, <2>4
<1>10. CASE d \in Clean /\ \E j \in Junk : s = d \o j
  <2>1. PICK j \in Junk : s = d \o j
    BY <1>10
  <2>2. j \in Seq(Byte)
    BY FramingAssumption, CleanBytes DEF Clean
  <2>3. b <= Len(d \o j) /\ \A i \in 1..b : (d \o j)[i] = d[i]
    BY <1>1, <2>2
  <2>4. b <= Len(s) /\ Len(s) \in Nat /\ \A i \in 1..b : s[i] = d[i]
    <3>1. Len(s) \in Nat
      BY DEF Clean
    <3> QED
      BY <2>1, <2>3, <3>1, Zenon
  <2>5. ASSUME NEW i \in 1..l PROVE s[i] = w[i]
    <3>1. i \in 1..b /\ i \in 1..a /\ i <= l
      BY <1>5
    <3> QED
      BY <1>5, <2>4, <3>1
  <2>6. l <= Len(s)
    BY <1>5, <2>4
  <2>7. ~(l % BlockLen # 0)
    <3>1. SUFFICES ASSUME l % BlockLen # 0 PROVE FALSE
      OBVIOUS
    <3>2. l + 1 \in 1..a /\ ~(l + 1 <= l) /\ l + 1 \in 1..b
      BY <1>5, <1>8, <3>1
    <3>3. d[l + 1] = 0
      BY <1>5, <3>2
    <3>4. d[l + 1] # 0
      BY <1>1, <1>10, <3>2, CleanBytes
    <3> QED
      BY <3>3, <3>4
  <2> QED
    BY <1>1, <2>5, <2>6, <2>7
<1> QED
  BY <1>9, <1>10

\* A sequence whose elements another one begins with is its prefix.
LEMMA PrefixByElements ==
    ASSUME NEW C, NEW s \in Seq(C), NEW t \in Seq(C), Len(s) <= Len(t),
           \A i \in 1..Len(s) : t[i] = s[i]
    PROVE  IsPrefix(s, t)
<1>1. PICK l \in Nat : l = Len(s)
  OBVIOUS
<1>2. l \in 0..Len(t) /\ l \in 0..Len(s)
  BY <1>1
<1>3. PICK a \in Seq(C), b \in Seq(C) :
        a = SubSeq(s, 1, l) /\ b = SubSeq(t, 1, l)
  <2>1. SubSeq(s, 1, l) \in Seq(C) /\ SubSeq(t, 1, l) \in Seq(C)
    BY <1>2, FirstPiece
  <2> QED
    BY <2>1
<1>4. /\ Len(a) = l /\ Len(b) = l
      /\ \A i \in 1..l : a[i] = s[i]
      /\ \A i \in 1..l : b[i] = t[i]
  BY <1>2, <1>3, FirstPiece
<1>5. a = b
  <2>1. \A i \in 1..Len(a) : a[i] = b[i]
    BY <1>1, <1>4
  <2> QED
    BY <1>4, <2>1, SeqEqual
<1> QED
  BY <1>1, <1>3, <1>5 DEF IsPrefix

\* The conversion to the code page keeps the beginning of a string.
LEMMA U2GPrefix ==
    ASSUME NEW w \in Seq(Nat), NEW s \in Seq(Nat), Len(w) <= Len(s),
           \A i \in 1..Len(w) : s[i] = w[i]
    PROVE  IsPrefix(U2G(w), U2G(s))
<1>1. PICK l \in Nat, m \in Nat : l = Len(w) /\ m = Len(s) /\ l <= m
  OBVIOUS
<1> DEFINE g(v) == IF v \in Range(Utf8)
                   THEN CHOOSE c \in DOMAIN Utf8 : Utf8[c] = v
                   ELSE Substitute
<1>a. U2G(w) = [i \in 1..l |-> g(w[i])] /\ U2G(s) = [i \in 1..m |-> g(s[i])]
  BY <1>1 DEF U2G
<1> HIDE DEF g
<1>2. ASSUME NEW i \in 1..l PROVE U2G(s)[i] = U2G(w)[i]
  <2>1. s[i] = w[i] /\ i \in 1..m
    <3>1. i \in 1..Len(w) /\ i \in 1..m
      BY <1>1
    <3> QED
      BY <3>1
  <2>2. U2G(s)[i] = g(s[i])
    BY <1>a, <2>1
  <2>3. U2G(w)[i] = g(w[i])
    BY <1>a
  <2> QED
    BY <2>1, <2>2, <2>3
<1>3. PICK a \in Seq(Nat), b \in Seq(Nat) :
         a = U2G(w) /\ b = U2G(s) /\ Len(a) = l /\ Len(b) = m
  BY <1>1, U2GType
<1>4. Len(a) <= Len(b) /\ \A i \in 1..Len(a) : b[i] = a[i]
  BY <1>1, <1>2, <1>3
<1> QED
  BY <1>3, <1>4, PrefixByElements
-----------------------------------------------------------------------------
(* The properties. *)

\* Every reachable state has its types: the readers, the dispatcher and both
\* clients handle bytes, headers and texts as such.
THEOREM Types == Spec => []TypeOK
<1>1. Inv => TypeOK
  BY DEF Inv
<1> QED
  BY <1>1, Invariance, PTL

\* client_msg_buf never holds more than one recv() and an incomplete message, or
\* a header without content, whatever pieces the stream arrives in (handle_read_
\* sock).
THEOREM BufferBound == Spec => []BufferFits
<1>1. Inv => BufferFits
  BY DEF Inv, BufferInv
<1> QED
  BY <1>1, Invariance, PTL

\* The messages the server has taken out of the stream, its buffer and the rest
\* of the stream are what the client sent, however the stream is cut: the buffer
\* always begins with a message, no byte is lost or belongs to two messages
\* (handle_read_sock, set_data_length).
THEOREM NothingLostUplink == Spec => []UplinkExact
<1>1. ASSUME Inv PROVE UplinkExact
  <2>1. Whole(SentContents) =
           FlattenSeq([i \in 1..Len(typed) |-> Sent(typed[i].content)])
    <3>1. PICK n : n = Len(typed)
      OBVIOUS
    <3>2. PICK cs : /\ cs = SentContents /\ Len(cs) = n
                    /\ \A i \in 1..n : cs[i] = typed[i].content
      BY <1>1, <3>1, Facts
    <3>3. [i \in 1..n |-> Sent(cs[i])] = [i \in 1..n |-> Sent(typed[i].content)]
      BY <3>2
    <3> QED
      BY <3>1, <3>2, <3>3 DEF Whole, Pieces
  <2>2. Whole(taken) = FlattenSeq([i \in 1..Len(taken) |-> Sent(taken[i])])
    BY DEF Whole, Pieces
  <2>3. PICK w \in Seq(GoodCell), s \in Seq(GoodCell), u \in Seq(GoodCell) :
           w = Whole(taken) /\ s = sbuf /\ u = up
    BY <1>1, Facts, WholeIn DEF Inv, StreamTypes, Stream
  <2>4. Whole(SentContents) = w \o (s \o u)
    BY <1>1, <2>3 DEF Inv, UplinkInv, Cat
  <2>5. w \o (s \o u) = (w \o s) \o u
    BY ConcatAssociative
  <2>6. Whole(SentContents) = (Whole(taken) \o sbuf) \o up
    BY <2>3, <2>4, <2>5, Zenon
  <2> QED
    BY <2>1, <2>2, <2>6, Zenon DEF UplinkExact
<1> QED
  BY <1>1, Invariance, PTL

\* What is printed of a message whose ciphertext has no zero byte.
LEMMA PrintedIntact ==
    ASSUME NEW text \in Typeable, key \in DesKey, NEW c \in Contents(text),
           from \in {"linux", "windows"}, to \in {"linux", "windows"},
           ~HasZero(des_encrypt(Wire(text), key)), NEW p \in PrintedOf(c)
    PROVE  /\ IsPrefix(Screen(Wire(text)), p)
           /\ {from, to} = {"linux"} => p = Screen(Wire(text))
           /\ Len(text) % BlockLen # 0 => p = Screen(Wire(text))
<1>1. key \in Key
  BY FramingAssumption
<1>2. PICK w \in Clean : w = Wire(text) /\ w \in Seq(Byte) /\ Len(w) = Len(text)
  BY WireClean
<1>3. PICK j \in Seq(Byte) :
         c = des_encrypt(w, key) \o j /\ (from = "linux" => j = <<>>)
  BY <1>2, ContentOf
<1>4. PICK d \in Seq(Byte) :
         /\ d = des_decrypt(c, key)
         /\ Len(Padded(w)) <= Len(d)
         /\ \A i \in 1..Len(Padded(w)) : d[i] = Padded(w)[i]
  <2>1. PICK k \in Key : k = key
    BY <1>1
  <2>2. LET x == des_decrypt(des_encrypt(w, k) \o j, k)
        IN  /\ x \in Seq(Byte)
            /\ Len(Padded(w)) <= Len(x)
            /\ \A i \in 1..Len(Padded(w)) : x[i] = Padded(w)[i]
    BY <1>2, DecryptFront
  <2>3. PICK x :
          x = des_decrypt(c, key) /\ x = des_decrypt(des_encrypt(w, k) \o j, k)
    BY <1>3, <2>1
  <2> QED
    BY <2>2, <2>3
<1>5. \A s \in Clean : s \in Seq(Nat)
  <2>1. Byte \ {0} \subseteq Nat
    BY CipherAssumption
  <2> QED
    BY <2>1, SeqMonotonic DEF Clean
<1>6. ASSUME NEW s \in Clean,
             s = CStr(d) \/ (d \in Clean /\ \E y \in Junk : s = d \o y)
      PROVE  /\ Len(w) <= Len(s) /\ \A i \in 1..Len(w) : s[i] = w[i]
             /\ Len(w) % BlockLen # 0 => s = w
  BY <1>4, <1>6, StringOf
<1>7. CASE to = "linux"
  <2>1. p = CStr(d) /\ p \in Clean
    BY <1>4, <1>7, CStrClean DEF PrintedOf
  <2>2. /\ Len(w) <= Len(p) /\ \A i \in 1..Len(w) : p[i] = w[i]
        /\ Len(w) % BlockLen # 0 => p = w
    BY <1>6, <2>1
  <2>3. IsPrefix(w, p)
    BY <1>5, <2>1, <2>2, PrefixByElements
  <2>4. ASSUME {from, to} = {"linux"} PROVE p = w
    <3>1. j = <<>>
      <4>1. from \in {from, to}
        OBVIOUS
      <4>2. from = "linux"
        BY <2>4, <4>1
      <4> QED
        BY <1>3, <4>2
    <3>2. des_encrypt(w, key) \in Seq(Byte)
      BY <1>1, <1>2, CryptTypes
    <3>3. c = des_encrypt(w, key)
      BY <1>3, <3>1, <3>2, ConcatEmptySeq
    <3>4. \A i \in 1..Len(w) : w[i] # 0
      BY CleanBytes
    <3> QED
      BY <1>1, <1>2, <1>4, <2>1, <3>3, <3>4, TextComesBack
  <2>5. Screen(Wire(text)) = w
    BY <1>2, <1>7 DEF Screen
  <2> QED
    BY <1>2, <2>2, <2>3, <2>4, <2>5
<1>8. CASE to # "linux"
  <2>1. PICK s \in Unterminated(d) : p = U2G(s)
    BY <1>4, <1>8 DEF PrintedOf
  <2>2. /\ s \in Clean
        /\ s = CStr(d) \/ (d \in Clean /\ \E y \in Junk : s = d \o y)
    BY UnterminatedIn
  <2>3. /\ Len(w) <= Len(s) /\ \A i \in 1..Len(w) : s[i] = w[i]
        /\ Len(w) % BlockLen # 0 => s = w
    BY <1>6, <2>2
  <2>4. IsPrefix(U2G(w), U2G(s))
    BY <1>5, <2>2, <2>3, U2GPrefix
  <2>5. Screen(Wire(text)) = U2G(w)
    BY <1>2, <1>8 DEF Screen
  <2>6. {from, to} # {"linux"}
    BY <1>8
  <2> QED
    BY <1>2, <2>1, <2>3, <2>4, <2>5, <2>6
<1> QED
  BY <1>7, <1>8

\* As long as send() takes every message as a whole the client does not misread
\* the stream: it prints the messages the dispatchers sent, in the order they
\* sent them, which need not be that of typing, and none of them twice.  What it
\* prints begins with what was typed unless the ciphertext had a zero byte;
\* between Linux clients, or if the last block is padded, it is exactly that
\* (recv_process, send_process, handle_mess_que, utils.cpp).
THEOREM Intact == Spec => []ShownIntact
<1>1. ASSUME Inv PROVE ShownIntact
  <2> SUFFICES ASSUME ~cut PROVE ShownIntact
    BY DEF ShownIntact
  <2>1. /\ cli # "lost" /\ Len(shown) <= Len(sent)
        /\ \A i \in 1..Len(shown) : shown[i] \in PrintedOf(SentOut[i])
    BY <1>1 DEF Inv, DownlinkInv
  <2>2. /\ Len(shown) \in Nat /\ Len(sent) \in Nat
        /\ Len(taken) \in Nat /\ Len(typed) \in Nat /\ Len(taken) <= Len(typed)
    BY <1>1, Facts DEF Inv, UplinkInv
  <2>3. IsInjective(sent) /\ Range(sent) \subseteq 1..Len(typed)
    <3>1. sent \in Seq(Nat) /\ DOMAIN sent = 1..Len(sent)
      BY <1>1 DEF Inv, TypeOK
    <3>2. \A i \in 1..Len(sent) : sent[i] \in 1..Len(typed)
      BY <1>1, <2>2, Facts
    <3>3. \A i, j \in 1..Len(sent) : sent[i] = sent[j] => i = j
      BY <1>1 DEF Inv, OnceInv
    <3>4. IsInjective(sent)
      BY <3>1, <3>3 DEF IsInjective
    <3>5. Range(sent) \subseteq 1..Len(typed)
      BY <3>1, <3>2 DEF Range
    <3> QED
      BY <3>4, <3>5
  <2>4. ASSUME NEW i \in 1..Len(shown)
        PROVE  \/ HasZero(des_encrypt(Wire(typed[sent[i]].text), key))
               \/ /\ IsPrefix(Intended(sent[i]), shown[i])
                  /\ {from, to} = {"linux"} => shown[i] = Intended(sent[i])
                  /\ Len(typed[sent[i]].text) % BlockLen # 0 =>
                        shown[i] = Intended(sent[i])
    <3>1. sent[i] \in 1..Len(taken) /\ sent[i] \in 1..Len(typed)
      <4>1. i \in 1..Len(sent)
        BY <2>1, <2>2
      <4> QED
        BY <1>1, <2>2, <4>1, Facts
    <3>a. SentOut[i] = taken[sent[i]]
      <4>1. i \in 1..Len(sent)
        BY <2>1, <2>2
      <4> QED
        BY <1>1, <4>1, Facts
    <3>2. typed[sent[i]] \in [text : Typeable, content : Seq(Byte)]
      BY <1>1, <3>1, ElementOfSeq DEF Inv, TypeOK
    <3>3. PICK text \in Typeable : text = typed[sent[i]].text
      BY <3>2
    <3>4. taken[sent[i]] = typed[sent[i]].content
      BY <1>1, <3>1, Facts
    <3>5. PICK c \in Contents(text) : c = taken[sent[i]]
      BY <1>1, <3>1, <3>3, <3>4 DEF Inv, TypedInv
    <3>6. shown[i] \in PrintedOf(c)
      BY <2>1, <3>a, <3>5
    <3>7. /\ key \in DesKey
          /\ from \in {"linux", "windows"} /\ to \in {"linux", "windows"}
      BY <1>1 DEF Inv, TypeOK
    <3>8. Intended(sent[i]) = Screen(Wire(text))
      BY <3>3 DEF Intended
    <3>9. ASSUME ~HasZero(des_encrypt(Wire(text), key))
          PROVE  /\ IsPrefix(Intended(sent[i]), shown[i])
                 /\ {from, to} = {"linux"} => shown[i] = Intended(sent[i])
                 /\ Len(text) % BlockLen # 0 => shown[i] = Intended(sent[i])
      BY <3>6, <3>7, <3>8, <3>9, PrintedIntact
    <3> QED
      BY <3>3, <3>9
  <2> QED
    BY <2>1, <2>3, <2>4 DEF ShownIntact
<1> QED
  BY <1>1, Invariance, PTL
=============================================================================
