-------------------------- MODULE SafeQueueHistory --------------------------
(***************************************************************************)
(* SafeQueue with a history variable: chain, the nodes from head to tail.  *)
(* Only the two assignments that move an end of the list change it, so it  *)
(* constrains no step.  Through it the list implements Fifo: the elements  *)
(* in the queue are the data of the chain without its last, dummy, node.   *)
(***************************************************************************)
EXTENDS SafeQueue, Sequences, Naturals

VARIABLE chain

hvars == <<vars, chain>>

HInit == Init /\ chain = <<head>>

\* push appends its node when it publishes it; a pop drops the first node.
Extends(p) == Publish(p) /\ chain' = Append(chain, new[p])

Drops(c) == Advance(c) /\ chain' = Tail(chain)

Keeps ==
    /\ \/ \E p \in Producer : NewNode(p) \/ PushLock(p) \/ Fill(p) \/ Link(p)
                                \/ Notify(p)
       \/ \E c \in Consumer : WaitAndPop(c) \/ WaitLockTail(c) \/ WaitDone(c)
                                \/ WaitBlock(c) \/ GetTailNone(c)
                                \/ GetTailSome(c) \/ Fetch(c)
                                \/ SpuriousWake(c) \/ TryPop(c)
    /\ UNCHANGED chain

HNext ==
    \/ \E p \in Producer : Extends(p)
    \/ \E c \in Consumer : Drops(c)
    \/ Keeps

HSpec == HInit /\ [][HNext]_hvars

HFairSpec == HSpec /\ Fairness

-----------------------------------------------------------------------------
(* The refinement mapping. *)

Elements == [i \in 1..(Len(chain) - 1) |-> data[chain[i]]]

\* The element is out of the queue as soon as head has moved past its node,
\* although the consumer reads it only after the unlock.
Returned == [c \in Consumer |-> IF pc[c] = "fetch" THEN data[old[c]]
                                                   ELSE got[c]]

F == INSTANCE Fifo WITH queue <- Elements, popped <- Returned

\* Whatever the interleaving, safe_queue behaves as an atomic FIFO queue:
\* elements leave in the order they were published, each once, and try_pop()
\* answers nullptr only at a moment when the queue is empty.
ImplementsFifo == F!FSpec

-----------------------------------------------------------------------------
(* The invariant behind it. *)

HTypeOK == chain \in Seq(Node) /\ chain # <<>>

\* chain runs from head to tail along next, without repetition, and all but
\* its last node are filled.
ChainLinked ==
    /\ chain[1] = head
    /\ chain[Len(chain)] = tail
    /\ \A i \in 1..(Len(chain) - 1) :
          /\ next[chain[i]] = chain[i + 1]
          /\ data[chain[i]] \in Value
    /\ \A i, j \in 1..Len(chain) : chain[i] = chain[j] => i = j

\* No node of the list is free or private to a thread.
ChainShared ==
    \A i \in 1..Len(chain) :
        /\ chain[i] \notin free
        /\ \A p \in Producer : new[p] # chain[i]
        /\ \A c \in Consumer : old[c] # chain[i]

\* A private node is allocated and has one owner.
Private ==
    /\ \A p \in Producer :
          /\ new[p] \notin free
          /\ new[p] = NULL <=> pc[p] \in {"idle", "notify"}
          /\ pc[p] \notin {"idle", "notify"} => arg[p] \in Value
          /\ \A q \in Producer \ {p} : new[p] # NULL => new[q] # new[p]
    /\ \A c \in Consumer :
          /\ old[c] \notin free
          /\ old[c] = NULL <=> pc[c] # "fetch"
          /\ old[c] # NULL => data[old[c]] \in Value
          /\ \A d \in Consumer \ {c} : old[c] # NULL => old[d] # old[c]
    /\ \A p \in Producer, c \in Consumer : new[p] # NULL => new[p] # old[c]

\* How far the owner of tail_mut has got with the dummy node.
Filling ==
    \A p \in Producer :
        /\ pc[p] \in {"link", "publish"} => data[tail] = arg[p]
        /\ pc[p] = "publish" => next[tail] = new[p]

\* Who is in a critical section owns its mutex.
Locks ==
    /\ \A p \in Producer :
          (pc[p] \in {"fill", "link", "publish"}) <=> (tailMut = p)
    /\ \A c \in Consumer :
          /\ (pc[c] = "test") <=> (tailMut = c)
          /\ (pc[c] \in {"lockTail", "test", "waiting", "getTail", "advance"})
                <=> (headMut = c)

PcOK ==
    /\ \A p \in Producer : pc[p] \in ProducerPc
    /\ \A c \in Consumer : pc[c] \in ConsumerPc

Advancing == \A c \in Consumer : pc[c] = "advance" => head # tail

\* The structural invariant of the list: at every moment the nodes between
\* head and tail form one chain that no thread but a lock owner can change.
\* Lines 40 and 60 (head->next) and 62-63 (delete) are safe because of it.
ListInv ==
    /\ HTypeOK /\ PcOK
    /\ ChainLinked /\ ChainShared /\ Private /\ Filling /\ Locks /\ Advancing
=============================================================================
