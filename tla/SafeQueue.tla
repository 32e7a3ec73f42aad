------------------------------ MODULE SafeQueue ------------------------------
(***************************************************************************)
(* safe_queue.h: an unbounded linked-list queue with one mutex for each    *)
(* end.  The list always ends in an empty dummy node: push() fills the     *)
(* dummy and links a new one behind it under tail_mut; the consumers take  *)
(* the first node under head_mut and look at its data, and free it, after  *)
(* the mutex is released.  wait_and_pop() sleeps on data_cond with         *)
(* tail_mut released and head_mut HELD, so a consumer waiting on an empty  *)
(* queue keeps every other consumer out.                                   *)
(*                                                                         *)
(* Nodes are memory: a freed node may be the next one new returns.  Each   *)
(* value is pushed at most once (todo), which bounds the run and loses     *)
(* nothing, since the queue never looks at a value.                        *)
(***************************************************************************)
EXTENDS FiniteSets

CONSTANTS Producer,  \* threads that call push
          Consumer,  \* threads that call wait_and_pop or try_pop
          Node,      \* addresses the allocator hands out
          Value,     \* the elements (pointers to T in the code)
          NULL       \* nullptr, and "nobody" for a mutex

ASSUME SafeQueueAssumption ==
    /\ Producer \cap Consumer = {}
    /\ NULL \notin Producer \cup Consumer \cup Node \cup Value
    /\ Node # {}

Thread == Producer \cup Consumer

VARIABLES
    head, tail,        \* the list's ends
    data, next,        \* the fields of every node
    free,              \* nodes not allocated
    headMut, tailMut,  \* the owner of each mutex, NULL if it is unlocked
    pc,                \* where each thread is
    new, arg,          \* push: the node allocated, the argument
    old, got,          \* pop: the node taken, the value last returned
    todo               \* values no producer has pushed yet

vars == <<head, tail, data, next, free, headMut, tailMut, pc, new, arg, old,
          got, todo>>

list  == <<head, tail, data, next, free>>
mutex == <<headMut, tailMut>>
prod  == <<new, arg, todo>>
cons  == <<old, got>>

ProducerPc == {"idle", "lock", "fill", "link", "publish", "notify"}
ConsumerPc == {"idle", "lockTail", "test", "waiting", "getTail", "advance",
               "fetch"}

Init ==
    /\ head \in Node
    /\ tail = head
    /\ data = [n \in Node |-> NULL]
    /\ next = [n \in Node |-> NULL]
    /\ free = Node \ {head}
    /\ headMut = NULL
    /\ tailMut = NULL
    /\ pc = [t \in Thread |-> "idle"]
    /\ new = [p \in Producer |-> NULL]
    /\ arg = [p \in Producer |-> NULL]
    /\ old = [c \in Consumer |-> NULL]
    /\ got = [c \in Consumer |-> NULL]
    /\ todo = Value

Goto(t, from, to) ==
    /\ pc[t] = from
    /\ pc' = [pc EXCEPT ![t] = to]

-----------------------------------------------------------------------------
(* push(T* t) *)

\* node *new_tail = new node: allocated and cleared before any lock is taken.
NewNode(p) ==
    /\ Goto(p, "idle", "lock")
    /\ \E n \in free, v \in todo :
          /\ free' = free \ {n}
          /\ data' = [data EXCEPT ![n] = NULL]
          /\ next' = [next EXCEPT ![n] = NULL]
          /\ new' = [new EXCEPT ![p] = n]
          /\ arg' = [arg EXCEPT ![p] = v]
          /\ todo' = todo \ {v}
    /\ UNCHANGED <<head, tail, mutex, cons>>

PushLock(p) ==
    /\ Goto(p, "lock", "fill")
    /\ tailMut = NULL
    /\ tailMut' = p
    /\ UNCHANGED <<list, headMut, prod, cons>>

Fill(p) ==
    /\ Goto(p, "fill", "link")
    /\ data' = [data EXCEPT ![tail] = arg[p]]
    /\ UNCHANGED <<head, tail, next, free, mutex, prod, cons>>

\* Mutant: the link is written the wrong way round.
LinkBackwards(p) ==
    /\ Goto(p, "link", "publish")
    /\ next' = [next EXCEPT ![new[p]] = tail]
    /\ UNCHANGED <<head, tail, data, free, mutex, prod, cons>>

Link(p) ==
    /\ Goto(p, "link", "publish")
    /\ next' = [next EXCEPT ![tail] = new[p]]
    /\ UNCHANGED <<head, tail, data, free, mutex, prod, cons>>

\* Mutant: push() forgets to notify.
PublishSilently(p) ==
    /\ Goto(p, "publish", "idle")
    /\ tail' = new[p]
    /\ tailMut' = NULL
    /\ new' = [new EXCEPT ![p] = NULL]
    /\ UNCHANGED <<head, data, next, free, headMut, arg, todo, cons>>

\* tail = new_tail, and the end of the scope releases tail_mut.
Publish(p) ==
    /\ Goto(p, "publish", "notify")
    /\ tail' = new[p]
    /\ tailMut' = NULL
    /\ new' = [new EXCEPT ![p] = NULL]
    /\ UNCHANGED <<head, data, next, free, headMut, arg, todo, cons>>

\* data_cond.notify_one(), after the unlock: one sleeper goes on to re-lock
\* tail_mut, or nobody does if nobody sleeps.
Waiting == {c \in Consumer : pc[c] = "waiting"}

Notify(p) ==
    /\ pc[p] = "notify"
    /\ \/ /\ Waiting = {}
          /\ pc' = [pc EXCEPT ![p] = "idle"]
       \/ \E c \in Waiting :
             pc' = [pc EXCEPT ![p] = "idle", ![c] = "lockTail"]
    /\ UNCHANGED <<list, mutex, prod, cons>>

-----------------------------------------------------------------------------
(* wait_and_pop() and try_pop() *)

WaitAndPop(c) ==
    /\ Goto(c, "idle", "lockTail")
    /\ headMut = NULL
    /\ headMut' = c
    /\ UNCHANGED <<list, tailMut, prod, cons>>

WaitLockTail(c) ==
    /\ Goto(c, "lockTail", "test")
    /\ tailMut = NULL
    /\ tailMut' = c
    /\ UNCHANGED <<list, headMut, prod, cons>>

\* The wait predicate holds: tail_mut is released at the end of the scope.
WaitDone(c) ==
    /\ Goto(c, "test", "advance")
    /\ head # tail
    /\ tailMut' = NULL
    /\ UNCHANGED <<list, headMut, prod, cons>>

\* It does not: wait() releases tail_mut and sleeps, atomically.
WaitBlock(c) ==
    /\ Goto(c, "test", "waiting")
    /\ head = tail
    /\ tailMut' = NULL
    /\ UNCHANGED <<list, headMut, prod, cons>>

\* Mutant: wait() without the predicate.
WakeUntested(c) ==
    /\ Goto(c, "waiting", "advance")
    /\ UNCHANGED <<list, mutex, prod, cons>>

\* A condition variable may wake a sleeper that nobody notified.
SpuriousWake(c) ==
    /\ Goto(c, "waiting", "lockTail")
    /\ UNCHANGED <<list, mutex, prod, cons>>

TryPop(c) ==
    /\ Goto(c, "idle", "getTail")
    /\ headMut = NULL
    /\ headMut' = c
    /\ UNCHANGED <<list, tailMut, prod, cons>>

\* Mutant: try_pop() gives up whatever the tail is.
GetTailGivesUp(c) ==
    /\ Goto(c, "getTail", "idle")
    /\ tailMut = NULL
    /\ headMut' = NULL
    /\ got' = [got EXCEPT ![c] = NULL]
    /\ UNCHANGED <<list, tailMut, prod, old>>

\* if (head == get_tail()) return nullptr: get_tail() takes and releases
\* tail_mut, so the tail it returns may be stale when it is compared, but
\* only by elements added behind it.
GetTailNone(c) ==
    /\ Goto(c, "getTail", "idle")
    /\ tailMut = NULL
    /\ head = tail
    /\ headMut' = NULL
    /\ got' = [got EXCEPT ![c] = NULL]
    /\ UNCHANGED <<list, tailMut, prod, old>>

GetTailSome(c) ==
    /\ Goto(c, "getTail", "advance")
    /\ tailMut = NULL
    /\ head # tail
    /\ UNCHANGED <<list, mutex, prod, cons>>

\* Mutants: head stays where it is; the node is deleted before its data is
\* read.
AdvanceNot(c) ==
    /\ Goto(c, "advance", "fetch")
    /\ old' = [old EXCEPT ![c] = head]
    /\ headMut' = NULL
    /\ UNCHANGED <<list, tailMut, prod, got>>

AdvanceDeleting(c) ==
    /\ Goto(c, "advance", "fetch")
    /\ old' = [old EXCEPT ![c] = head]
    /\ head' = next[head]
    /\ free' = free \cup {head}
    /\ headMut' = NULL
    /\ UNCHANGED <<tail, data, next, tailMut, prod, got>>

\* old_head = head; head = head->next; the scope ends and releases head_mut.
Advance(c) ==
    /\ Goto(c, "advance", "fetch")
    /\ old' = [old EXCEPT ![c] = head]
    /\ head' = next[head]
    /\ headMut' = NULL
    /\ UNCHANGED <<tail, data, next, free, tailMut, prod, got>>

\* Mutant: the node is returned instead of its data.
FetchNode(c) ==
    /\ Goto(c, "fetch", "idle")
    /\ got' = [got EXCEPT ![c] = old[c]]
    /\ free' = free \cup {old[c]}
    /\ old' = [old EXCEPT ![c] = NULL]
    /\ UNCHANGED <<head, tail, data, next, mutex, prod>>

\* data = old_head->data; delete old_head; with no lock held.
Fetch(c) ==
    /\ Goto(c, "fetch", "idle")
    /\ got' = [got EXCEPT ![c] = data[old[c]]]
    /\ free' = free \cup {old[c]}
    /\ old' = [old EXCEPT ![c] = NULL]
    /\ UNCHANGED <<head, tail, data, next, mutex, prod>>

-----------------------------------------------------------------------------
PushStep(p) == NewNode(p) \/ PushLock(p) \/ Fill(p) \/ Link(p) \/ Publish(p)
                 \/ Notify(p)

PopStep(c) == WaitAndPop(c) \/ WaitLockTail(c) \/ WaitDone(c) \/ WaitBlock(c)
                \/ GetTailNone(c) \/ GetTailSome(c) \/ Advance(c) \/ Fetch(c)

Next ==
    \/ \E p \in Producer : PushStep(p)
    \/ \E c \in Consumer : PopStep(c) \/ SpuriousWake(c) \/ TryPop(c)

Spec == Init /\ [][Next]_vars

(***************************************************************************)
(* Fairness.  A running thread goes on (weak fairness); a thread that      *)
(* competes for a mutex gets it if the mutex is free again and again       *)
(* (strong fairness), because every critical section here is short.  The   *)
(* consumers are the handle_mess_que threads, which call wait_and_pop() in *)
(* an endless loop.  Nothing makes a producer push, a consumer call        *)
(* try_pop() or a sleeper wake for no reason.                              *)
(***************************************************************************)
Fairness ==
    /\ \A p \in Producer :
          /\ SF_vars(PushLock(p))
          /\ WF_vars(Fill(p) \/ Link(p) \/ Publish(p) \/ Notify(p))
    /\ \A c \in Consumer :
          /\ SF_vars(WaitAndPop(c))
          /\ SF_vars(WaitLockTail(c))
          /\ SF_vars(GetTailNone(c) \/ GetTailSome(c))
          /\ WF_vars(WaitDone(c) \/ WaitBlock(c) \/ Advance(c) \/ Fetch(c))

FairSpec == Spec /\ Fairness

-----------------------------------------------------------------------------
(* Types. *)
TypeOK ==
    /\ head \in Node \cup {NULL}
    /\ tail \in Node \cup {NULL}
    /\ data \in [Node -> Value \cup {NULL}]
    /\ next \in [Node -> Node \cup {NULL}]
    /\ free \in SUBSET Node
    /\ headMut \in Consumer \cup {NULL}
    /\ tailMut \in Thread \cup {NULL}
    /\ pc \in [Thread -> ProducerPc \cup ConsumerPc]
    /\ new \in [Producer -> Node \cup {NULL}]
    /\ arg \in [Producer -> Value \cup {NULL}]
    /\ old \in [Consumer -> Node \cup {NULL}]
    /\ got \in [Consumer -> Value \cup {NULL}]
    /\ todo \in SUBSET Value

\* The nodes some thread or the list still points to.
InUse == {head, tail}
            \cup {new[p] : p \in Producer} \cup {old[c] : c \in Consumer}

\* No thread can reach memory that was deleted: head, tail, the node a
\* producer is about to link and the node a consumer is about to read are
\* never on the free list (line 63 deletes outside every lock).
NoUseAfterFree == free \cap InUse = {}

\* A consumer that has left the emptiness test really has an element: the
\* list is not empty, its first node is filled and linked, although tail_mut
\* was released before head->next is read at line 60 (and line 40).
NeverPopDummy ==
    \A c \in Consumer :
        pc[c] = "advance" =>
            /\ head # tail
            /\ data[head] # NULL
            /\ next[head] # NULL

\* The node a consumer reads and deletes after it released head_mut (lines
\* 62-63) belongs to it alone and holds an element.
PrivateOldHead ==
    \A c \in Consumer :
        pc[c] = "fetch" =>
            /\ old[c] \notin {head, tail, NULL}
            /\ data[old[c]] # NULL
            /\ \A d \in Consumer \ {c} : old[d] # old[c]
            /\ \A p \in Producer : new[p] # old[c]

\* notify_one() at line 77 comes after the unlock, yet no wakeup is lost:
\* while a consumer sleeps beside a non-empty list, some producer is still
\* about to notify.
NoLostWakeup ==
    Waiting # {} /\ head # tail => \E p \in Producer : pc[p] = "notify"

\* push(v) has begun: its node is allocated, the list is untouched.
Pushing(v) == \E p \in Producer : pc[p] = "lock" /\ arg[p] = v

\* A pop has just returned v.
Delivered(v) == \E c \in Consumer : got[c] = v

\* Every push is answered by a pop: an element that push() was called with is
\* returned to some consumer, although a consumer waiting on the empty queue
\* holds head_mut and only one notification follows each push.
EveryPushIsPopped ==
    \A v \in Value : Pushing(v) ~> Delivered(v)
=============================================================================
