--------------------------- MODULE SafeQueueProofs ---------------------------
(***************************************************************************)
(* The list of safe_queue.h keeps its shape under every interleaving, for  *)
(* any number of threads, nodes and values, and implements Fifo.           *)
(***************************************************************************)
EXTENDS SafeQueueHistory, TLAPS

IInv == TypeOK /\ ListInv

\* The initial list is one dummy node.
LEMMA InitInv == HInit => IInv
<1> SUFFICES ASSUME HInit PROVE IInv
  OBVIOUS
<1> USE SafeQueueAssumption DEF HInit, Init, Thread
<1>1. chain \in Seq(Node) /\ Len(chain) = 1 /\ chain[1] = head /\ chain # <<>>
  OBVIOUS
<1>2. HTypeOK /\ PcOK
  BY <1>1 DEF HTypeOK, PcOK, ProducerPc, ConsumerPc
<1>3. ChainLinked /\ ChainShared
  BY <1>1 DEF ChainLinked, ChainShared
<1>4. Private /\ Filling /\ Locks /\ Advancing
  BY DEF Private, Filling, Locks, Advancing
<1>5. TypeOK
  BY DEF TypeOK, ProducerPc, ConsumerPc
<1> QED
  BY <1>2, <1>3, <1>4, <1>5 DEF IInv, ListInv

\* A natural number that is at least one and not one.
LEMMA AtLeastTwo == ASSUME NEW n \in Nat, n >= 1, n # 1
                    PROVE  n >= 2 /\ 1 \in 1..(n - 1) /\ 2 \in 1..n
OBVIOUS

\* A step of a thread that touches neither the list nor the private nodes.
LEMMA QuietStep ==
    ASSUME IInv, UNCHANGED <<list, chain, new, arg, old, todo>>,
           headMut' \in Consumer \cup {NULL}, tailMut' \in Thread \cup {NULL},
           pc' \in [Thread -> ProducerPc \cup ConsumerPc],
           got' \in [Consumer -> Value \cup {NULL}],
           PcOK', Locks', Advancing',
           \A p \in Producer :
              /\ pc'[p] \in {"idle", "notify"} <=> pc[p] \in {"idle", "notify"}
              /\ pc'[p] \in {"link", "publish"} => pc'[p] = pc[p],
           \A c \in Consumer : pc'[c] = "fetch" <=> pc[c] = "fetch"
    PROVE  IInv'
<1> USE DEF IInv, ListInv, list
<1>1. TypeOK'
  BY DEF TypeOK
<1>2. HTypeOK'
  BY DEF HTypeOK
<1>3. ChainLinked' /\ ChainShared'
  BY DEF ChainLinked, ChainShared
<1>4. Private'
  BY DEF Private
<1>5. Filling'
  BY DEF Filling
<1> QED
  BY <1>1, <1>2, <1>3, <1>4, <1>5

\* Taking tail_mut (safe_queue.h line 70) preserves the invariant.
LEMMA PushLockInv == ASSUME IInv, NEW p \in Producer, PushLock(p), chain' = chain
                     PROVE  IInv'
<1> USE SafeQueueAssumption
    DEF IInv, ListInv, PushLock, Goto, list, prod, cons, Thread
<1>1. PcOK'
  BY DEF TypeOK, PcOK, ProducerPc, ConsumerPc
<1>2. Locks'
  BY DEF TypeOK, Locks, PcOK, ProducerPc
<1>3. Advancing'
  BY DEF TypeOK, Advancing
<1> QED
  BY <1>1, <1>2, <1>3, QuietStep DEF TypeOK, ProducerPc

\* notify_one() (line 77) moves two threads and touches no node.
LEMMA NotifyInv == ASSUME IInv, NEW p \in Producer, Notify(p), chain' = chain
                   PROVE  IInv'
<1> USE SafeQueueAssumption
    DEF IInv, ListInv, Notify, Waiting, list, mutex, prod, cons, Thread
<1>1. PcOK'
  BY DEF TypeOK, PcOK, ProducerPc, ConsumerPc
<1>2. Locks'
  BY DEF TypeOK, Locks
<1>3. Advancing'
  BY DEF TypeOK, Advancing
<1> QED
  BY <1>1, <1>2, <1>3, QuietStep DEF TypeOK, ProducerPc, ConsumerPc

\* The consumers' steps on mutexes and on the condition variable.
Quiet(c) == WaitAndPop(c) \/ WaitLockTail(c) \/ WaitDone(c) \/ WaitBlock(c)
              \/ GetTailNone(c) \/ GetTailSome(c) \/ SpuriousWake(c) \/ TryPop(c)

\* The steps of the consumers that only lock, test or sleep (lines 36, 52-59).
LEMMA QuietInv == ASSUME IInv, NEW c \in Consumer, Quiet(c), chain' = chain
                  PROVE  IInv'
<1> USE SafeQueueAssumption
        DEF IInv, ListInv, Quiet, WaitAndPop, WaitLockTail, WaitDone,
            WaitBlock, GetTailNone, GetTailSome, SpuriousWake, TryPop,
        Goto, list, mutex, prod, cons, Thread
<1>1. PcOK'
  BY DEF TypeOK, PcOK, ProducerPc, ConsumerPc
<1>2. Locks'
  BY DEF TypeOK, Locks, PcOK, ProducerPc, ConsumerPc
<1>3. Advancing'
  BY DEF TypeOK, Advancing, Locks
<1>4. UNCHANGED <<list, chain, new, arg, old, todo>>
  OBVIOUS
<1>5. /\ headMut' \in Consumer \cup {NULL}
      /\ tailMut' \in Thread \cup {NULL}
      /\ pc' \in [Thread -> ProducerPc \cup ConsumerPc]
      /\ got' \in [Consumer -> Value \cup {NULL}]
  BY DEF TypeOK, ProducerPc, ConsumerPc
<1>6. /\ \A p \in Producer : pc'[p] = pc[p]
      /\ \A d \in Consumer : pc'[d] = "fetch" <=> pc[d] = "fetch"
  BY DEF TypeOK
<1> QED
  BY <1>1, <1>2, <1>3, <1>4, <1>5, <1>6, QuietStep

\* The node comes from the free list, so nothing that is in use changes.
LEMMA NewNodeInv == ASSUME IInv, NEW p \in Producer, NewNode(p), chain' = chain
                    PROVE  IInv'
<1> USE SafeQueueAssumption DEF IInv, ListInv, Goto, mutex, cons, Thread
<1>1. PICK n \in free, v \in todo :
         /\ free' = free \ {n}
         /\ data' = [data EXCEPT ![n] = NULL]
         /\ next' = [next EXCEPT ![n] = NULL]
         /\ new' = [new EXCEPT ![p] = n]
         /\ arg' = [arg EXCEPT ![p] = v]
         /\ todo' = todo \ {v}
  BY DEF NewNode
<1>2. /\ pc[p] = "idle" /\ pc' = [pc EXCEPT ![p] = "lock"]
      /\ UNCHANGED <<head, tail, headMut, tailMut, old, got>>
  BY DEF NewNode
<1>3. n \in Node /\ v \in Value
  BY DEF TypeOK
<1>4. TypeOK'
  BY <1>1, <1>2, <1>3 DEF TypeOK, ProducerPc
<1>5. HTypeOK' /\ PcOK'
  BY <1>2 DEF HTypeOK, PcOK, TypeOK, ProducerPc, ConsumerPc
<1>6. \A i \in 1..Len(chain) : chain[i] # n /\ chain[i] \in Node
  BY DEF ChainShared, HTypeOK
<1>7. ChainLinked'
  BY <1>1, <1>2, <1>3, <1>6 DEF ChainLinked, TypeOK, HTypeOK
<1>8. ChainShared'
  BY <1>1, <1>2, <1>3, <1>6 DEF ChainShared, TypeOK
<1>9. Private'
  BY <1>1, <1>2, <1>3 DEF Private, TypeOK, PcOK, ProducerPc, ConsumerPc
<1>10. tail \in Node /\ tail # n
  BY <1>6 DEF ChainLinked, HTypeOK
<1>11. Filling'
  BY <1>1, <1>2, <1>3, <1>10 DEF Filling, TypeOK
<1>12. Locks'
  BY <1>2 DEF Locks, TypeOK
<1>13. Advancing'
  BY <1>2 DEF Advancing, TypeOK
<1> QED
  BY <1>4, <1>5, <1>7, <1>8, <1>9, <1>11, <1>12, <1>13

\* tail is the last node of the chain and no other.
LEMMA TailLast ==
    ASSUME IInv
    PROVE  /\ Len(chain) \in Nat /\ Len(chain) >= 1
           /\ \A i \in 1..Len(chain) : chain[i] \in Node
           /\ tail \in Node /\ head \in Node
           /\ \A i \in 1..(Len(chain) - 1) : chain[i] # tail
           /\ head = tail <=> Len(chain) = 1
<1> USE DEF IInv, ListInv
<1>1. /\ Len(chain) \in Nat /\ Len(chain) >= 1
      /\ \A i \in 1..Len(chain) : chain[i] \in Node
  BY DEF HTypeOK
<1>2. chain[1] = head /\ chain[Len(chain)] = tail
  BY DEF ChainLinked
<1>3. \A i, j \in 1..Len(chain) : chain[i] = chain[j] => i = j
  BY DEF ChainLinked
<1>4. 1 \in 1..Len(chain) /\ Len(chain) \in 1..Len(chain)
  BY <1>1
<1>5. tail \in Node /\ head \in Node
  BY <1>1, <1>2, <1>4
<1>6. \A i \in 1..(Len(chain) - 1) : chain[i] # tail
  BY <1>1, <1>2, <1>3
<1>7. head = tail <=> Len(chain) = 1
  BY <1>2, <1>3, <1>4
<1> QED
  BY <1>1, <1>5, <1>6, <1>7

\* tail->data = t (line 72) writes to the dummy, the one node without data.
LEMMA FillInv == ASSUME IInv, NEW p \in Producer, Fill(p), chain' = chain
                 PROVE  IInv'
<1> USE SafeQueueAssumption, TailLast
    DEF IInv, ListInv, Fill, Goto, mutex, prod, cons, Thread
<1>1. TypeOK'
  BY DEF TypeOK, ProducerPc
<1>2. HTypeOK' /\ PcOK'
  BY DEF HTypeOK, PcOK, TypeOK, ProducerPc, ConsumerPc
<1>3. arg[p] \in Value
  BY DEF Private
<1>4. ChainLinked'
  BY <1>3 DEF ChainLinked, TypeOK
<1>5. ChainShared'
  BY DEF ChainShared
<1>6. \A c \in Consumer : old[c] # tail
  BY DEF ChainShared, ChainLinked, HTypeOK
<1>7. Private'
  BY <1>6 DEF Private, TypeOK
<1>8. \A q \in Producer : pc'[q] \in {"link", "publish"} => q = p
  BY DEF Locks, TypeOK
<1>9. Filling'
  BY <1>8 DEF Filling, TypeOK
<1>10. Locks' /\ Advancing'
  BY DEF Locks, Advancing, TypeOK
<1> QED
  BY <1>1, <1>2, <1>4, <1>5, <1>7, <1>9, <1>10

\* tail->next = new_tail (line 73): only the last node of the chain is written.
LEMMA LinkInv == ASSUME IInv, NEW p \in Producer, Link(p), chain' = chain
                 PROVE  IInv'
<1> USE SafeQueueAssumption, TailLast
    DEF IInv, ListInv, Link, Goto, mutex, prod, cons, Thread
<1>1. TypeOK'
  BY DEF TypeOK, ProducerPc
<1>2. HTypeOK' /\ PcOK'
  BY DEF HTypeOK, PcOK, TypeOK, ProducerPc, ConsumerPc
<1>3. ChainLinked'
  BY DEF ChainLinked, TypeOK
<1>4. ChainShared'
  BY DEF ChainShared
<1>5. Private'
  BY DEF Private, TypeOK
<1>6. \A q \in Producer : pc'[q] \in {"link", "publish"} => q = p
  BY DEF Locks, TypeOK
<1>7. Filling'
  BY <1>6 DEF Filling, TypeOK
<1>8. Locks' /\ Advancing'
  BY DEF Locks, Advancing, TypeOK
<1> QED
  BY <1>1, <1>2, <1>3, <1>4, <1>5, <1>7, <1>8

\* tail = new_tail (line 74): the chain grows by a node that was private.
LEMMA PublishInv == ASSUME IInv, NEW p \in Producer, Publish(p),
                           chain' = Append(chain, new[p])
                    PROVE  IInv'
<1> USE SafeQueueAssumption DEF IInv, ListInv, Goto, Thread
<1>1. /\ pc[p] = "publish" /\ pc' = [pc EXCEPT ![p] = "notify"]
      /\ tail' = new[p] /\ tailMut' = NULL
      /\ new' = [new EXCEPT ![p] = NULL]
      /\ UNCHANGED <<head, data, next, free, headMut, arg, todo, old, got>>
  BY DEF Publish, cons
<1>2. /\ new[p] \in Node /\ new[p] # NULL /\ arg[p] \in Value
      /\ data[tail] = arg[p] /\ next[tail] = new[p]
  BY <1>1 DEF Private, Filling, TypeOK
<1>3. /\ chain' \in Seq(Node)
      /\ Len(chain') = Len(chain) + 1
      /\ \A i \in 1..Len(chain) : chain'[i] = chain[i]
      /\ chain'[Len(chain) + 1] = new[p]
  BY <1>2 DEF HTypeOK
<1>4. \A i \in 1..Len(chain) : chain[i] # new[p] /\ chain[i] \in Node
  BY TailLast DEF ChainShared
<1>5. TypeOK'
  BY <1>1, <1>2 DEF TypeOK, ProducerPc
<1>6. HTypeOK'
  <2>1. Len(chain') # 0
    BY <1>3, TailLast
  <2> QED
    BY <1>3, <2>1 DEF HTypeOK
<1>7. PcOK'
  BY <1>1 DEF PcOK, TypeOK, ProducerPc, ConsumerPc
<1>8. ChainLinked'
  <2>1. chain'[1] = head' /\ chain'[Len(chain')] = tail'
    BY <1>1, <1>3, TailLast DEF ChainLinked
  <2>2. \A i \in 1..(Len(chain') - 1) : /\ next'[chain'[i]] = chain'[i + 1]
                                        /\ data'[chain'[i]] \in Value
    <3> SUFFICES ASSUME NEW i \in 1..Len(chain)
                 PROVE  next[chain[i]] = chain'[i + 1] /\ data[chain[i]] \in Value
      BY <1>1, <1>3, TailLast
    <3>1. CASE i = Len(chain)
      BY <3>1, <1>2, <1>3 DEF ChainLinked
    <3>2. CASE i # Len(chain)
      BY <3>2, <1>3, TailLast DEF ChainLinked
    <3> QED
      BY <3>1, <3>2
  <2>3. \A i, j \in 1..Len(chain') : chain'[i] = chain'[j] => i = j
    <3> SUFFICES ASSUME NEW i \in 1..(Len(chain) + 1), NEW j \in 1..(Len(chain) + 1),
                        chain'[i] = chain'[j]
                 PROVE  i = j
      BY <1>3
    <3>1. CASE i \in 1..Len(chain) /\ j \in 1..Len(chain)
      BY <3>1, <1>3 DEF ChainLinked
    <3>2. CASE i = Len(chain) + 1 \/ j = Len(chain) + 1
      BY <3>2, <1>3, <1>4, TailLast
    <3> QED
      BY <3>1, <3>2, TailLast
  <2> QED
    BY <2>1, <2>2, <2>3 DEF ChainLinked
<1>9. ChainShared'
  <2> SUFFICES ASSUME NEW i \in 1..(Len(chain) + 1)
               PROVE  /\ chain'[i] \notin free
                      /\ \A q \in Producer : new'[q] # chain'[i]
                      /\ \A c \in Consumer : old[c] # chain'[i]
    BY <1>1, <1>3 DEF ChainShared
  <2>1. CASE i \in 1..Len(chain)
    BY <2>1, <1>1, <1>3, <1>4 DEF ChainShared, TypeOK
  <2>2. CASE i = Len(chain) + 1
    BY <2>2, <1>1, <1>2, <1>3 DEF Private, TypeOK
  <2> QED
    BY <2>1, <2>2, TailLast
<1>10. Private'
  BY <1>1, <1>2 DEF Private, TypeOK
<1>11. Filling'
  BY <1>1 DEF Filling, Locks, TypeOK
<1>12. Locks'
  BY <1>1 DEF Locks, TypeOK
<1>13. head # new[p]
  BY <1>4, TailLast DEF ChainLinked
<1>14. Advancing'
  BY <1>1, <1>13 DEF Advancing, TypeOK
<1> QED
  BY <1>5, <1>6, <1>7, <1>8, <1>9, <1>10, <1>11, <1>12, <1>14

\* head = head->next (lines 40 and 60): the first node becomes private.
LEMMA AdvanceInv == ASSUME IInv, NEW c \in Consumer, Advance(c),
                           chain' = Tail(chain)
                    PROVE  IInv'
<1> USE SafeQueueAssumption DEF IInv, ListInv, Goto, Thread
<1>1. /\ pc[c] = "advance" /\ pc' = [pc EXCEPT ![c] = "fetch"]
      /\ old' = [old EXCEPT ![c] = head]
      /\ head' = next[head] /\ headMut' = NULL
      /\ UNCHANGED <<tail, data, next, free, tailMut, new, arg, todo, got>>
  BY DEF Advance, prod
<1>2. head # tail /\ Len(chain) >= 2
  <2>1. head # tail
    BY <1>1 DEF Advancing
  <2>2. Len(chain) # 1
    BY <2>1, TailLast
  <2>3. Len(chain) \in Nat /\ Len(chain) >= 1
    BY TailLast
  <2> QED
    BY <2>1, <2>2, <2>3, AtLeastTwo
<1>3. /\ chain' \in Seq(Node)
      /\ Len(chain') = Len(chain) - 1
      /\ \A i \in 1..(Len(chain) - 1) : chain'[i] = chain[i + 1]
  BY <1>2 DEF HTypeOK
<1>4. /\ head = chain[1] /\ next[head] = chain[2] /\ data[head] \in Value
      /\ head \in Node /\ chain[2] \in Node
  <2>1. 1 \in 1..(Len(chain) - 1) /\ 2 \in 1..Len(chain)
    BY <1>2, TailLast
  <2>2. chain[1] = head /\ next[chain[1]] = chain[1 + 1] /\ data[chain[1]] \in Value
    BY <2>1 DEF ChainLinked
  <2>3. head \in Node /\ chain[2] \in Node
    BY <2>1, TailLast
  <2> QED
    BY <2>2, <2>3
<1>5. TypeOK'
  BY <1>1, <1>4 DEF TypeOK, ConsumerPc
<1>6. HTypeOK'
  <2>1. Len(chain') # 0
    BY <1>3, <1>2, TailLast
  <2> QED
    BY <1>3, <2>1 DEF HTypeOK
<1>7. PcOK'
  BY <1>1 DEF PcOK, TypeOK, ConsumerPc, ProducerPc
<1>8. ChainLinked'
  <2>1. chain'[1] = head' /\ chain'[Len(chain')] = tail'
    BY <1>1, <1>2, <1>3, <1>4, TailLast DEF ChainLinked
  <2>2. \A i \in 1..(Len(chain') - 1) : /\ next'[chain'[i]] = chain'[i + 1]
                                        /\ data'[chain'[i]] \in Value
    BY <1>1, <1>2, <1>3, TailLast DEF ChainLinked
  <2>3. \A i, j \in 1..Len(chain') : chain'[i] = chain'[j] => i = j
    <3> SUFFICES ASSUME NEW i \in 1..(Len(chain) - 1), NEW j \in 1..(Len(chain) - 1),
                        chain[i + 1] = chain[j + 1]
                 PROVE  i = j
      BY <1>3
    <3>1. i + 1 \in 1..Len(chain) /\ j + 1 \in 1..Len(chain)
      BY TailLast
    <3> QED
      BY <3>1 DEF ChainLinked
  <2> QED
    BY <2>1, <2>2, <2>3 DEF ChainLinked
<1>9. \A i \in 1..(Len(chain) - 1) : /\ i + 1 \in 1..Len(chain)
                                     /\ chain[i + 1] # head
  BY <1>2, <1>4, TailLast DEF ChainLinked
<1>10. ChainShared'
  <2>1. ASSUME NEW i \in 1..(Len(chain) - 1)
        PROVE  /\ chain[i + 1] \notin free
               /\ \A p \in Producer : new[p] # chain[i + 1]
               /\ \A d \in Consumer : old'[d] # chain[i + 1]
    BY <1>1, <1>9 DEF ChainShared, TypeOK
  <2>2. ASSUME NEW i \in 1..Len(chain')
        PROVE  /\ chain'[i] \notin free'
               /\ \A p \in Producer : new'[p] # chain'[i]
               /\ \A d \in Consumer : old'[d] # chain'[i]
    <3>1. i \in 1..(Len(chain) - 1) /\ chain'[i] = chain[i + 1]
      BY <1>3
    <3>2. free' = free /\ new' = new
      BY <1>1
    <3> HIDE DEF IInv
    <3> QED
      BY <2>1, <3>1, <3>2
  <2> QED
    BY <2>2 DEF ChainShared
<1>11. /\ head \notin free
       /\ \A p \in Producer : new[p] # head
       /\ \A d \in Consumer : old[d] # head
  BY <1>4, TailLast DEF ChainShared
<1>12. Private'
  BY <1>1, <1>4, <1>11 DEF Private, TypeOK
<1>13. Filling'
  BY <1>1 DEF Filling, TypeOK
<1>14. \A d \in Consumer : pc'[d] # "advance"
  BY <1>1 DEF Locks, TypeOK
<1>15. Locks'
  BY <1>1 DEF Locks, TypeOK
<1>16. Advancing'
  BY <1>14 DEF Advancing
<1> QED
  BY <1>5, <1>6, <1>7, <1>8, <1>10, <1>12, <1>13, <1>15, <1>16

\* delete old_head (lines 43 and 63): a private node goes back to the allocator.
LEMMA FetchInv == ASSUME IInv, NEW c \in Consumer, Fetch(c), chain' = chain
                  PROVE  IInv'
<1> USE SafeQueueAssumption DEF IInv, ListInv, Goto, Thread
<1>1. /\ pc[c] = "fetch" /\ pc' = [pc EXCEPT ![c] = "idle"]
      /\ got' = [got EXCEPT ![c] = data[old[c]]]
      /\ free' = free \cup {old[c]}
      /\ old' = [old EXCEPT ![c] = NULL]
      /\ UNCHANGED <<head, tail, data, next, headMut, tailMut, new, arg, todo>>
  BY DEF Fetch, mutex, prod
<1>2. old[c] \in Node /\ data[old[c]] \in Value
  BY <1>1 DEF Private, TypeOK
<1>3. TypeOK'
  BY <1>1, <1>2 DEF TypeOK, ConsumerPc
<1>4. HTypeOK' /\ PcOK'
  BY <1>1 DEF HTypeOK, PcOK, TypeOK, ConsumerPc, ProducerPc
<1>5. ChainLinked'
  BY <1>1 DEF ChainLinked
<1>6. ChainShared'
  BY <1>1, <1>2, TailLast DEF ChainShared, TypeOK
<1>7. Private'
  BY <1>1, <1>2 DEF Private, TypeOK
<1>8. Filling'
  BY <1>1 DEF Filling, TypeOK
<1>9. Locks' /\ Advancing'
  BY <1>1 DEF Locks, Advancing, TypeOK
<1> QED
  BY <1>3, <1>4, <1>5, <1>6, <1>7, <1>8, <1>9

\* Every step preserves the invariant.
LEMMA InvNext == IInv /\ [HNext]_hvars => IInv'
<1> SUFFICES ASSUME IInv, [HNext]_hvars PROVE IInv'
  OBVIOUS
<1>1. CASE UNCHANGED hvars
  <2> USE <1>1 DEF IInv, ListInv, hvars, vars
  <2>1. TypeOK'
    BY DEF TypeOK
  <2>2. HTypeOK' /\ PcOK'
    BY DEF HTypeOK, PcOK
  <2>3. ChainLinked' /\ ChainShared'
    BY DEF ChainLinked, ChainShared
  <2>4. Private' /\ Filling'
    BY DEF Private, Filling
  <2>5. Locks' /\ Advancing'
    BY DEF Locks, Advancing
  <2> QED
    BY <2>1, <2>2, <2>3, <2>4, <2>5
<1>2. CASE \E p \in Producer : Extends(p)
  BY <1>2, PublishInv DEF Extends
<1>3. CASE \E c \in Consumer : Drops(c)
  BY <1>3, AdvanceInv DEF Drops
<1>4. CASE Keeps
  BY <1>4, NewNodeInv, PushLockInv, FillInv, LinkInv, NotifyInv, QuietInv,
     FetchInv DEF Keeps, Quiet
<1> QED
  BY <1>1, <1>2, <1>3, <1>4 DEF HNext

\* The list is well formed in every reachable state: types, and the chain
\* from head to tail whose nodes only the owners of the mutexes change
\* (safe_queue.h lines 32-78).
THEOREM ListInvariant == HSpec => [](TypeOK /\ ListInv)
<1>1. HInit => IInv
  BY InitInv
<1>2. IInv /\ [HNext]_hvars => IInv'
  BY InvNext
<1> QED
  BY <1>1, <1>2, PTL DEF HSpec, IInv

\* What the consumers and the allocator rely on follows from that shape.
LEMMA Consequences == IInv => NoUseAfterFree /\ NeverPopDummy /\ PrivateOldHead
<1> SUFFICES ASSUME IInv PROVE NoUseAfterFree /\ NeverPopDummy /\ PrivateOldHead
  OBVIOUS
<1> USE SafeQueueAssumption DEF IInv, ListInv, Thread
<1>1. /\ 1 \in 1..Len(chain) /\ Len(chain) \in 1..Len(chain)
      /\ chain[1] = head /\ chain[Len(chain)] = tail
  BY TailLast DEF ChainLinked
<1>2. /\ head \notin free /\ tail \notin free
      /\ \A c \in Consumer : old[c] # head /\ old[c] # tail
  BY <1>1 DEF ChainShared
<1>3. NoUseAfterFree
  BY <1>2 DEF NoUseAfterFree, InUse, Private
<1>4. NeverPopDummy
  <2> SUFFICES ASSUME NEW c \in Consumer, pc[c] = "advance"
               PROVE  head # tail /\ data[head] # NULL /\ next[head] # NULL
    BY DEF NeverPopDummy
  <2>1. head # tail
    BY DEF Advancing
  <2>2. Len(chain) # 1 /\ Len(chain) \in Nat /\ Len(chain) >= 1
    BY <2>1, TailLast
  <2>3. 1 \in 1..(Len(chain) - 1) /\ 2 \in 1..Len(chain)
    BY <2>2, AtLeastTwo
  <2>4. next[head] = chain[1 + 1] /\ data[head] \in Value
    BY <1>1, <2>3 DEF ChainLinked
  <2>5. chain[2] \in Node
    BY <2>3, TailLast
  <2> QED
    BY <2>1, <2>4, <2>5
<1>5. PrivateOldHead
  BY <1>2 DEF PrivateOldHead, Private, PcOK
<1> QED
  BY <1>3, <1>4, <1>5

\* head, tail, the links and the data of the nodes, the mutexes and the local
\* variables of push() and the pops keep their types.
THEOREM QueueTypes == HSpec => []TypeOK
BY ListInvariant, PTL

\* No thread can reach a deleted node (line 63).
THEOREM MemorySafe == HSpec => []NoUseAfterFree
BY ListInvariant, Consequences, PTL DEF IInv

\* A pop that leaves the emptiness test (lines 36 and 54) finds a filled and
\* linked node, never the dummy.
THEOREM DummyNotPopped == HSpec => []NeverPopDummy
BY ListInvariant, Consequences, PTL DEF IInv

\* A pop owns the node it reads and deletes after the unlock (lines 59-63).
THEOREM OldHeadIsPrivate == HSpec => []PrivateOldHead
BY ListInvariant, Consequences, PTL DEF IInv

\* No step leaves a sleeper beside a filled list without a notifier.
LEMMA WakeupNext == IInv /\ NoLostWakeup /\ [HNext]_hvars => NoLostWakeup'
<1> SUFFICES ASSUME IInv, NoLostWakeup, [HNext]_hvars PROVE NoLostWakeup'
  OBVIOUS
<1> USE SafeQueueAssumption
    DEF IInv, ListInv, NoLostWakeup, Waiting, Goto, Thread, TypeOK
<1>1. CASE UNCHANGED hvars
  BY <1>1 DEF hvars, vars
<1>2. ASSUME NEW p \in Producer, NewNode(p) PROVE NoLostWakeup'
  BY <1>2 DEF NewNode
<1>3. ASSUME NEW p \in Producer, PushLock(p) \/ Fill(p) \/ Link(p) PROVE NoLostWakeup'
  BY <1>3 DEF PushLock, Fill, Link, list
<1>4. ASSUME NEW p \in Producer, Publish(p) PROVE NoLostWakeup'
  BY <1>4 DEF Publish
<1>5. ASSUME NEW p \in Producer, Notify(p) PROVE NoLostWakeup'
  BY <1>5 DEF Notify, Locks, list
<1>6. ASSUME NEW c \in Consumer, Quiet(c) PROVE NoLostWakeup'
  BY <1>6 DEF Quiet, WaitAndPop, WaitLockTail, WaitDone, WaitBlock,
              GetTailNone, GetTailSome, SpuriousWake, TryPop, list
<1>7. ASSUME NEW c \in Consumer, Advance(c) PROVE NoLostWakeup'
  BY <1>7 DEF Advance, Locks
<1>8. ASSUME NEW c \in Consumer, Fetch(c) PROVE NoLostWakeup'
  BY <1>8 DEF Fetch
<1> QED
  BY <1>1, <1>2, <1>3, <1>4, <1>5, <1>6, <1>7, <1>8
     DEF HNext, Extends, Drops, Keeps, Quiet

\* No wakeup is lost although notify_one() comes after the unlock (line 77):
\* head_mut is held while a consumer sleeps, so there is one sleeper at most
\* and the first notification after a push reaches it.
THEOREM WakeupNotLost == HSpec => []NoLostWakeup
<1>1. HInit => NoLostWakeup
  BY DEF HInit, Init, NoLostWakeup
<1>2. IInv /\ NoLostWakeup /\ [HNext]_hvars => NoLostWakeup'
  BY WakeupNext
<1>3. HSpec => []IInv
  BY ListInvariant, PTL DEF IInv
<1> QED
  BY <1>1, <1>2, <1>3, PTL DEF HSpec
-----------------------------------------------------------------------------
(* Refinement of Fifo. *)

FVars == <<Elements, Returned>>

\* The initial list is the empty queue.
LEMMA FifoInit == HInit => F!FInit
<1> SUFFICES ASSUME HInit PROVE Elements = <<>> /\ Returned = [c \in Consumer |-> NULL]
  BY DEF F!FInit
<1> USE DEF HInit, Init, Thread
<1>1. Len(chain) = 1
  OBVIOUS
<1>2. Elements = <<>>
  BY <1>1 DEF Elements
<1>3. Returned = [c \in Consumer |-> NULL]
  BY DEF Returned
<1> QED
  BY <1>2, <1>3

\* Steps that change neither the filled part of the chain nor what a pop has
\* in its hands are invisible.
LEMMA Invisible ==
    ASSUME IInv, chain' = chain,
           \A i \in 1..(Len(chain) - 1) : data'[chain[i]] = data[chain[i]],
           \A c \in Consumer : Returned'[c] = Returned[c]
    PROVE  UNCHANGED FVars
<1>1. Elements' = Elements
  BY DEF Elements
<1>2. Returned' = Returned
  BY DEF Returned
<1> QED
  BY <1>1, <1>2 DEF FVars

\* Moving tail is the moment of the abstract Push.
LEMMA PushIsPush == ASSUME IInv, NEW p \in Producer, Publish(p),
                           chain' = Append(chain, new[p])
                    PROVE  \E v \in Value : F!Push(v)
<1> USE SafeQueueAssumption DEF IInv, ListInv, Goto, Thread
<1>1. /\ pc[p] = "publish" /\ pc' = [pc EXCEPT ![p] = "notify"]
      /\ UNCHANGED <<data, old, got>>
  BY DEF Publish, cons
<1>2. arg[p] \in Value /\ data[tail] = arg[p] /\ new[p] \in Node
  BY <1>1 DEF Private, Filling, TypeOK
<1>3. /\ Len(chain') = Len(chain) + 1
      /\ \A i \in 1..Len(chain) : chain'[i] = chain[i]
  BY <1>2 DEF HTypeOK
<1>4. /\ Len(chain) \in Nat /\ Len(chain) >= 1
      /\ chain[Len(chain)] = tail
  BY TailLast DEF ChainLinked
<1>5. Elements \in Seq(Value) /\ Len(Elements) = Len(chain) - 1
  BY <1>4 DEF Elements, ChainLinked
<1>6. Elements' = Append(Elements, arg[p])
  <2>1. Elements' = [i \in 1..Len(chain) |-> data[chain[i]]]
    BY <1>1, <1>3, <1>4 DEF Elements
  <2>2. Append(Elements, arg[p]) =
           [i \in 1..Len(chain) |-> IF i = Len(chain) THEN arg[p] ELSE Elements[i]]
    BY <1>2, <1>4, <1>5
  <2>3. \A i \in 1..Len(chain) :
           data[chain[i]] = IF i = Len(chain) THEN arg[p] ELSE Elements[i]
    BY <1>2, <1>4 DEF Elements
  <2> QED
    BY <2>1, <2>2, <2>3
<1>7. Returned' = Returned
  BY <1>1 DEF Returned, TypeOK
<1> QED
  BY <1>2, <1>6, <1>7 DEF F!Push

\* Two functions that agree on their common domain are equal.
LEMMA SameFunction ==
    ASSUME NEW D, NEW R, NEW t \in [D -> R], NEW u \in [D -> R],
           \A i \in D : t[i] = u[i]
    PROVE  t = u
  OBVIOUS

\* The tail of a sequence, as a function.
LEMMA TailAsFunction ==
    ASSUME NEW S, NEW s \in Seq(S), NEW n \in Nat, n >= 2, Len(s) = n - 1
    PROVE  Tail(s) = [i \in 1..(n - 2) |-> s[i + 1]]
<1> DEFINE u == [i \in 1..(n - 2) |-> s[i + 1]]
           t == Tail(s)
<1>1. Len(s) \in Nat /\ Len(s) >= 1 /\ Len(s) - 1 = n - 2
  OBVIOUS
<1>2. s # <<>>
  BY <1>1
<1>3. t \in Seq(S) /\ Len(t) = n - 2
  BY <1>1, <1>2
<1>4. \A i \in 1..(n - 2) : t[i] = u[i]
  BY <1>1, <1>2
<1>5. u \in [1..(n - 2) -> S]
  BY <1>1
<1> HIDE DEF u, t
<1>6. t \in [1..(n - 2) -> S]
  BY <1>3
<1>7. t = u
  BY <1>4, <1>5, <1>6, SameFunction
<1> QED
  BY <1>7 DEF u, t

\* Moving head is the moment of the abstract Pop.
LEMMA AdvanceIsPop == ASSUME IInv, NEW c \in Consumer, Advance(c),
                             chain' = Tail(chain)
                      PROVE  F!Pop(c)
<1> USE SafeQueueAssumption DEF IInv, ListInv, Goto, Thread
<1>1. /\ pc[c] = "advance" /\ pc' = [pc EXCEPT ![c] = "fetch"]
      /\ old' = [old EXCEPT ![c] = head]
      /\ UNCHANGED <<data, got>>
  BY DEF Advance, list, prod
<1>2. head # tail
  BY <1>1 DEF Advancing
<1>3. Len(chain) # 1 /\ Len(chain) \in Nat /\ Len(chain) >= 1 /\ chain[1] = head
  BY <1>2, TailLast DEF ChainLinked
<1>4. Len(chain) >= 2 /\ 1 \in 1..(Len(chain) - 1)
  BY <1>3, AtLeastTwo
<1>5. /\ Len(chain') = Len(chain) - 1
      /\ \A i \in 1..(Len(chain) - 1) : chain'[i] = chain[i + 1]
  BY <1>4 DEF HTypeOK
<1>6. /\ Elements \in Seq(Value) /\ Len(Elements) = Len(chain) - 1
      /\ \A i \in 1..(Len(chain) - 1) : Elements[i] = data[chain[i]]
  BY <1>4 DEF Elements, ChainLinked
<1>7. Elements # <<>> /\ Head(Elements) = data[head]
  BY <1>3, <1>4, <1>6
<1>8. Elements' = Tail(Elements)
  <2>1. Elements' = [i \in 1..(Len(chain) - 2) |-> data[chain'[i]]]
    BY <1>1, <1>4, <1>5 DEF Elements
  <2>2. Tail(Elements) = [i \in 1..(Len(chain) - 2) |-> Elements[i + 1]]
    BY <1>4, <1>6, TailAsFunction
  <2>3. \A i \in 1..(Len(chain) - 2) : data[chain'[i]] = Elements[i + 1]
    BY <1>4, <1>5, <1>6
  <2> QED
    BY <2>1, <2>2, <2>3
<1>9. Returned' = [Returned EXCEPT ![c] = data[head]]
  BY <1>1 DEF Returned, TypeOK
<1> QED
  BY <1>7, <1>8, <1>9 DEF F!Pop

\* try_pop()'s nullptr is the abstract PopNothing: the queue is empty then.
LEMMA NoneIsNothing == ASSUME IInv, NEW c \in Consumer, GetTailNone(c), chain' = chain
                       PROVE  F!PopNothing(c)
<1> USE SafeQueueAssumption DEF IInv, ListInv, Goto, Thread
<1>1. /\ pc[c] = "getTail" /\ pc' = [pc EXCEPT ![c] = "idle"]
      /\ head = tail
      /\ got' = [got EXCEPT ![c] = NULL]
      /\ UNCHANGED <<data, old>>
  BY DEF GetTailNone, list
<1>2. Len(chain) = 1
  BY <1>1, TailLast
<1>3. Elements = <<>> /\ Elements' = Elements
  BY <1>1, <1>2 DEF Elements
<1>4. Returned' = [Returned EXCEPT ![c] = NULL]
  BY <1>1 DEF Returned, TypeOK
<1> QED
  BY <1>3, <1>4 DEF F!PopNothing

\* Every step of the list is a step of the queue or invisible.
LEMMA FifoNext == IInv /\ [HNext]_hvars => [F!FNext]_FVars
<1> SUFFICES ASSUME IInv, [HNext]_hvars PROVE F!FNext \/ UNCHANGED FVars
  BY DEF FVars
<1> USE SafeQueueAssumption, TailLast DEF Thread
<1>1. CASE UNCHANGED hvars
  BY <1>1 DEF hvars, vars, FVars, Elements, Returned
<1>2. ASSUME NEW p \in Producer, Extends(p) PROVE F!FNext
  BY <1>2, PushIsPush DEF Extends, F!FNext
<1>3. ASSUME NEW c \in Consumer, Drops(c) PROVE F!FNext
  BY <1>3, AdvanceIsPop DEF Drops, F!FNext
<1>4. ASSUME NEW c \in Consumer, GetTailNone(c), chain' = chain PROVE F!FNext
  BY <1>4, NoneIsNothing DEF F!FNext
<1>5. ASSUME NEW p \in Producer, chain' = chain,
             PushLock(p) \/ Link(p) \/ Notify(p)
      PROVE  UNCHANGED FVars
  <2>1. UNCHANGED <<data, old, got>>
        /\ \A c \in Consumer : pc'[c] = "fetch" <=> pc[c] = "fetch"
    BY <1>5 DEF IInv, TypeOK, PushLock, Link, Notify, Waiting, Goto, list, cons
  <2> QED
    BY <1>5, <2>1, Invisible DEF Returned
<1>6. ASSUME NEW p \in Producer, chain' = chain, NewNode(p)
      PROVE  UNCHANGED FVars
  <2>1. PICK n \in free : data' = [data EXCEPT ![n] = NULL]
    BY <1>6 DEF NewNode
  <2>2. /\ UNCHANGED <<old, got>>
        /\ \A c \in Consumer : pc'[c] = pc[c]
    BY <1>6 DEF IInv, TypeOK, NewNode, Goto, cons
  <2>3. /\ \A i \in 1..Len(chain) : chain[i] # n
        /\ \A c \in Consumer : old[c] # n
    BY DEF IInv, ListInv, ChainShared, Private
  <2>4. \A c \in Consumer : pc[c] = "fetch" => old[c] \in Node
    BY DEF IInv, ListInv, Private, TypeOK
  <2>5. \A m \in Node : m # n => data'[m] = data[m]
    BY <2>1 DEF IInv, TypeOK
  <2>6. \A c \in Consumer : Returned'[c] = Returned[c]
    BY <2>2, <2>3, <2>4, <2>5 DEF Returned
  <2> QED
    BY <1>6, <2>3, <2>5, <2>6, Invisible
<1>7. ASSUME NEW p \in Producer, chain' = chain, Fill(p)
      PROVE  UNCHANGED FVars
  <2>1. /\ data' = [data EXCEPT ![tail] = arg[p]]
        /\ UNCHANGED <<old, got>>
        /\ \A c \in Consumer : pc'[c] = pc[c]
    BY <1>7 DEF IInv, TypeOK, Fill, Goto, cons
  <2>2. \A m \in Node : m # tail => data'[m] = data[m]
    BY <2>1 DEF IInv, TypeOK
  <2>3. \A c \in Consumer : old[c] # tail
    BY DEF IInv, ListInv, ChainShared, ChainLinked
  <2>4. \A c \in Consumer : pc[c] = "fetch" => old[c] \in Node
    BY DEF IInv, ListInv, Private, TypeOK
  <2>5. \A c \in Consumer : Returned'[c] = Returned[c]
    BY <2>1, <2>2, <2>3, <2>4 DEF Returned
  <2> QED
    BY <1>7, <2>2, <2>5, Invisible
<1>8. ASSUME NEW c \in Consumer, chain' = chain,
             WaitAndPop(c) \/ WaitLockTail(c) \/ WaitDone(c) \/ WaitBlock(c)
               \/ GetTailSome(c) \/ SpuriousWake(c) \/ TryPop(c)
      PROVE  UNCHANGED FVars
  <2>1. UNCHANGED <<data, old, got>>
        /\ \A d \in Consumer : pc'[d] = "fetch" <=> pc[d] = "fetch"
    BY <1>8 DEF IInv, TypeOK, WaitAndPop, WaitLockTail, WaitDone, WaitBlock,
                GetTailSome, SpuriousWake, TryPop, Goto, list, cons
  <2> QED
    BY <1>8, <2>1, Invisible DEF Returned
<1>9. ASSUME NEW c \in Consumer, chain' = chain, Fetch(c)
      PROVE  UNCHANGED FVars
  <2>1. /\ pc[c] = "fetch" /\ pc' = [pc EXCEPT ![c] = "idle"]
        /\ got' = [got EXCEPT ![c] = data[old[c]]]
        /\ old' = [old EXCEPT ![c] = NULL]
        /\ UNCHANGED data
    BY <1>9 DEF Fetch, Goto
  <2>2. \A d \in Consumer : Returned'[d] = Returned[d]
    BY <2>1 DEF IInv, TypeOK, Returned
  <2> QED
    BY <1>9, <2>1, <2>2, Invisible
<1> QED
  BY <1>1, <1>2, <1>3, <1>4, <1>5, <1>6, <1>7, <1>8, <1>9 DEF HNext, Keeps

\* safe_queue.h is a FIFO queue: every push() takes effect at once where tail
\* moves (line 75), every pop where head moves (line 60 or 40), a try_pop()
\* that answers nullptr when the queue really is empty; elements come out
\* once each, in that order.
THEOREM RefinesFifo == HSpec => ImplementsFifo
<1>1. HInit => F!FInit
  BY FifoInit
<1>2. IInv /\ [HNext]_hvars => [F!FNext]_FVars
  BY FifoNext
<1>3. HSpec => []IInv
  BY ListInvariant, PTL DEF IInv
<1>4. [F!FNext]_FVars <=> [F!FNext]_(F!fvars)
  BY DEF FVars, F!fvars
<1> QED
  BY <1>1, <1>2, <1>3, <1>4, PTL DEF HSpec, ImplementsFifo, F!FSpec
=============================================================================
