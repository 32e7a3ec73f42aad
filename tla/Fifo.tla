-------------------------------- MODULE Fifo --------------------------------
(***************************************************************************)
(* What safe_queue.h promises its callers, whatever its locks do: a first- *)
(* in first-out queue whose operations are atomic.  push(t) appends,      *)
(* wait_and_pop() returns the oldest element and only when there is one,   *)
(* try_pop() returns the oldest element, or nullptr only if there is none. *)
(* SafeQueueHistory shows that the linked list with two mutexes implements *)
(* this specification; Server uses it as its message queue.                *)
(***************************************************************************)
EXTENDS Sequences

CONSTANTS Consumer,  \* threads that take elements
          Value,     \* the elements
          NULL       \* nullptr, not an element

VARIABLES queue,     \* the elements pushed and not yet taken, oldest first
          popped     \* what the last operation of each consumer returned

fvars == <<queue, popped>>

FTypeOK ==
    /\ queue \in Seq(Value)
    /\ popped \in [Consumer -> Value \cup {NULL}]

FInit ==
    /\ queue = <<>>
    /\ popped = [c \in Consumer |-> NULL]

Push(v) ==
    /\ queue' = Append(queue, v)
    /\ UNCHANGED popped

Pop(c) ==
    /\ queue # <<>>
    /\ popped' = [popped EXCEPT ![c] = Head(queue)]
    /\ queue' = Tail(queue)

PopNothing(c) ==
    /\ queue = <<>>
    /\ popped' = [popped EXCEPT ![c] = NULL]
    /\ UNCHANGED queue

FNext ==
    \/ \E v \in Value : Push(v)
    \/ \E c \in Consumer : Pop(c) \/ PopNothing(c)

FSpec == FInit /\ [][FNext]_fvars
=============================================================================
